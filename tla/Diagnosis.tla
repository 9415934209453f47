------------------------------- MODULE Diagnosis -------------------------------
(***************************************************************************)
(* The initial diagnosis of one learner (services/diagnostic_service.py):  *)
(* sessions of questions, the submission that claims a scoring lease, the  *)
(* background job that scores the answers, the profile, path and mistakes  *)
(* it writes, and the claims of a retry or a repeated submission.          *)
(*                                                                         *)
(* Claims lock the session row and see what is committed.  A job is one    *)
(* transaction without a lock: it reads the tables as they were when it    *)
(* started (MySQL REPEATABLE READ), calls the model, and writes the        *)
(* columns it changed over whatever is committed by then.  Nothing ties a  *)
(* job to the lease it was started for.                                    *)
(*                                                                         *)
(* A sheet stands for the answers to all questions of a session:           *)
(*   "plain", "other"   every question answered                            *)
(*   "skipped"          one answer is null                                 *)
(*   "blank"            one short answer is white space                    *)
(***************************************************************************)
EXTENDS Naturals, FiniteSets, Sequences, Functions

CONSTANTS
    Sessions,
    Choices,      \* single-choice questions of a session
    Right,        \* those the learner answers correctly
    Shorts,       \* short-answer questions of a session
    Sheets,       \* the sheets that are submitted
    Jobs,         \* bound: scoring jobs queued or running at a time
    Scores,       \* bound: the model's scores and the keyword prechecks tried
    MaxClaims,    \* bound: claims of the sessions together
    MaxFaults,    \* bound: exceptions while a job saves its result, restarts
                  \* of the process and disabled questions together
    NoSheet

Questions == Choices \cup Shorts

ASSUME QuestionsAssumption ==
  /\ Choices \cap Shorts = {} /\ Right \subseteq Choices
  /\ NoSheet \notin Sheets /\ Scores \subseteq 0..100

VARIABLES
    db,        \* the committed tables, see Init
    jobs,      \* [at, session, view]
    budget,    \* claims and faults so far
    overtaken  \* history: sessions claimed on an expired lease while a job
               \* of theirs was still queued or running

vars == <<db, jobs, budget, overtaken>>

Idle == [at |-> "idle"]

Unanswered == [status |-> "none", right |-> FALSE, uncertain |-> FALSE]

Created == [status |-> "none", sheet |-> NoSheet, expired |-> FALSE,
            profile |-> 0]

Init ==
  /\ db = [sessions |-> [s \in Sessions |-> Created],
           records  |-> [s \in Sessions |-> [q \in Questions |-> Unanswered]],
           \* the default profile; done: diagnosis_completed, path: the path of the profile
           profiles |-> <<[by |-> {}, prev |-> 0, done |-> FALSE, path |-> "none"]>>,
           mistakes |-> <<>>,
           bank     |-> Questions]
  /\ jobs = [j \in Jobs |-> Idle]
  /\ budget = [claims |-> 0, faults |-> 0]
  /\ overtaken = {}

Faulty == /\ budget.faults < MaxFaults
          /\ budget' = [budget EXCEPT !.faults = @ + 1]

Alive(s) == \E j \in Jobs : jobs[j].at # "idle" /\ jobs[j].session = s

-----------------------------------------------------------------------------
(* Sessions and the claims of their scoring lease                          *)

Latest(t) == t.profiles[Len(t.profiles)]

\* create_diagnostic_session
Create(s) ==
  /\ db.sessions[s].status = "none"
  /\ ~Latest(db).done /\ db.bank = Questions
  /\ db' = [db EXCEPT !.sessions[s].status = "created"]
  /\ UNCHANGED <<jobs, budget, overtaken>>

\* The lease runs out: updated_at lies more than _lease_seconds back.
Expire(s) ==
  /\ db.sessions[s].status = "scoring" /\ ~db.sessions[s].expired
  /\ db' = [db EXCEPT !.sessions[s].expired = TRUE]
  /\ UNCHANGED <<jobs, budget, overtaken>>

\* Variant of Claimable: the lease is not looked at.
ClaimableDuringLease(session) == session.status \notin {"none", "scored"}

\* A scored session, and one whose scoring still holds its lease, is answered
\* with its status and not claimed.
Claimable(session) ==
  /\ session.status \notin {"none", "scored"}
  /\ session.status = "scoring" => session.expired

\* The claim, and the background task the endpoint schedules for it.
Claim(s, session, records) ==
  /\ budget.claims < MaxClaims
  /\ budget' = [budget EXCEPT !.claims = @ + 1]
  /\ \E j \in Jobs :
       /\ jobs[j].at = "idle"
       /\ jobs' = [jobs EXCEPT ![j] = [at |-> "queued", session |-> s]]
  /\ db' = [db EXCEPT
       !.sessions[s] = [session EXCEPT !.status = "scoring", !.expired = FALSE],
       !.records[s] = records]
  /\ overtaken' = IF session.expired /\ Alive(s) THEN overtaken \cup {s} ELSE overtaken

\* Variant of Inserted: a repeated submission starts from fresh rows.
InsertedAnew(records) ==
  [q \in Questions |->
     [Unanswered EXCEPT !.status = IF q \in Shorts THEN "pending" ELSE "scored"]]

\* Answers without a row get one; the choices' rows already count as scored.
Inserted(records) ==
  [q \in Questions |->
     IF records[q].status # "none" THEN records[q]
     ELSE [Unanswered EXCEPT !.status = IF q \in Shorts THEN "pending" ELSE "scored"]]

\* prepare_diagnostic_submission: the first sheet is the one that counts.
Submit(s, sheet) ==
  LET session == db.sessions[s] IN
  /\ session.sheet \in {NoSheet, sheet}
  /\ Claimable(session)
  /\ db.bank = Questions
  /\ Claim(s, [session EXCEPT !.sheet = sheet], Inserted(db.records[s]))

\* _has_pending_short_answers
HasPending(t, s) ==
  \E q \in Shorts : t.records[s][q].status \in {"pending", "pending_scoring"}

\* retry_diagnostic_session: what it asks of the session
Retryable(s) ==
  LET session == db.sessions[s] IN
  /\ session.sheet # NoSheet
  /\ session.status \in {"pending_scoring", "failed", "scoring"}
  /\ Claimable(session)
  /\ HasPending(db, s)

Retry(s) ==
  /\ Retryable(s)
  /\ Claim(s, db.sessions[s], db.records[s])

\* _session_payload: whether a client is told that it may retry
Offered(s) ==
  LET session == db.sessions[s] IN
  \/ session.status \in {"pending_scoring", "failed"} /\ HasPending(db, s)
  \/ session.status = "scoring" /\ session.expired

-----------------------------------------------------------------------------
(* The scoring job                                                         *)

Quit(j) == jobs' = [jobs EXCEPT ![j] = Idle]

\* run_diagnostic_scoring_job rebuilds the sheet from the stored texts, in
\* which a null answer has become an empty one; its hash is then another.
Rebuilt(sheet) == IF sheet = "skipped" THEN "emptied" ELSE sheet

\* submit_diagnostic_session refuses before its try block: nothing is written.
Refuses(session) ==
  \/ Rebuilt(session.sheet) # session.sheet
  \/ db.bank # Questions

\* The job opens its transaction.
Start(j) ==
  /\ jobs[j].at = "queued"
  /\ LET session == db.sessions[jobs[j].session] IN
     IF session.status # "scoring" \/ Refuses(session) THEN Quit(j)
     ELSE jobs' = [jobs EXCEPT ![j] = [at |-> "scoring", session |-> jobs[j].session,
                                       view |-> db]]
  /\ UNCHANGED <<db, budget, overtaken>>

\* What the row becomes when a transaction that saw it as `seen` writes `new`:
\* only the columns that differ are written.
Written(current, seen, new) ==
  [f \in DOMAIN current |-> IF new[f] = seen[f] THEN current[f] ELSE new[f]]

\* Variant of Failed: what the job computed so far is kept.
FailedUnrolled(t, view, s) ==
  [t EXCEPT !.sessions[s].status = "failed",
            !.records[s] = [q \in Questions |-> [@[q] EXCEPT !.status = "scored"]]]

\* The except branch: roll back, and mark the session failed unless its
\* scoring is pending, whatever else it has become.
Failed(t, view, s) ==
  IF t.sessions[s].status = "pending_scoring" THEN t
  ELSE [t EXCEPT !.sessions[s].status = "failed"]

\* score_short_answer_batch: a score that differs from the keyword precheck
\* by more than 20 points, or falls on the other side of the pass mark, is
\* uncertain and capped by the precheck, or below the mark.
PassScore == 60

Larger(a, b) == IF a > b THEN a ELSE b

Graded(model, precheck) ==
  LET uncertain == \/ model > precheck + 20 \/ precheck > model + 20
                   \/ (model >= PassScore) # (precheck >= PassScore)
      cap == Larger(precheck, PassScore - 5)
      final == IF uncertain /\ cap < model THEN cap ELSE model
  IN [status |-> "scored", right |-> final >= PassScore, uncertain |-> uncertain]

Grades == {Graded(m, p) : m \in Scores, p \in Scores}

\* The answers of session s that are still to be scored by the model
ToScore(view, s) == {q \in Shorts : view.records[s][q].status # "scored"}

\* The rows of the job after scoring; grades holds the model's valid results.
Scored(view, s, grades) ==
  [q \in Questions |->
     CASE q \in Right -> [view.records[s][q] EXCEPT !.right = TRUE]
       [] q \in Choices \ Right -> [view.records[s][q] EXCEPT !.right = FALSE]
       [] q \in DOMAIN grades -> grades[q]
       [] q \in ToScore(view, s) \ DOMAIN grades ->
            [view.records[s][q] EXCEPT !.status = "pending_scoring"]
       [] OTHER -> view.records[s][q]]

Saved(t, view, s, grades) ==
  LET new == Scored(view, s, grades) IN
  [t EXCEPT !.records[s] =
     [q \in Questions |-> Written(t.records[s][q], view.records[s][q], new[q])]]

\* The model leaves answers without a valid result: what is scored is kept,
\* the session waits for a retry.
SavePartial(j, grades) ==
  LET s == jobs[j].session  view == jobs[j].view IN
  /\ DOMAIN grades # ToScore(view, s)
  /\ db' = [Saved(db, view, s, grades) EXCEPT !.sessions[s].status = "pending_scoring"]
  /\ Quit(j)
  /\ UNCHANGED <<budget, overtaken>>

\* The rows sync_existing_mistakes reads as wrong.  Without a new profile
\* nothing was flushed, and the session's own rows read as they were.
Wrong(view, s, grades, flushed) ==
  {r \in Sessions \X Questions :
     LET row == IF r[1] = s /\ flushed THEN Scored(view, s, grades)[r[2]]
                ELSE view.records[r[1]][r[2]]
     IN row.status # "none" /\ ~row.right}

\* Variant of Mistaken: uncertain answers are left for later.
MistakenIfCertain(view, s, grades, wrong) ==
  [r \in DOMAIN view.mistakes \cup {w \in wrong : ~view.records[w[1]][w[2]].uncertain
                                       /\ view.records[w[1]][w[2]].status = "scored"} |->
     "pending"]

\* _upsert_item for every wrong row, then retire_unavailable_items.
Mistaken(view, s, grades, wrong) ==
  LET Row(r) == IF r[1] = s THEN Scored(view, s, grades)[r[2]] ELSE view.records[r[1]][r[2]]
      Uncertain(r) == Row(r).uncertain \/ Row(r).status # "scored"
      upserted == [r \in DOMAIN view.mistakes \cup wrong |->
                     CASE r \in wrong /\ Uncertain(r) -> "verification_pending"
                       [] r \in DOMAIN view.mistakes -> view.mistakes[r]
                       [] OTHER -> "pending"]
  IN [r \in DOMAIN upserted |->
        IF r[2] \in view.bank THEN upserted[r] ELSE "retired"]

\* The item was inserted by another job since: unique (source_type, source_record_id).
Clashes(t, view, items) == (DOMAIN items \ DOMAIN view.mistakes) \cap DOMAIN t.mistakes # {}

\* The profile built on the latest one of the view; the paths of that one
\* need a refresh.
WithProfile(t, view, s) ==
  LET prev == Len(view.profiles) IN
  Append([i \in DOMAIN t.profiles |->
            IF i = prev /\ view.profiles[i].path = "fresh"
            THEN [t.profiles[i] EXCEPT !.path = "stale"] ELSE t.profiles[i]],
         [by |-> {s}, prev |-> prev, done |-> TRUE, path |-> "fresh"])

\* Every answer is scored: the profile, its path, the session's result and the
\* mistakes are committed together, or nothing is.
SaveResult(j, grades, update) ==
  LET s == jobs[j].session  view == jobs[j].view
      items == Mistaken(view, s, grades, Wrong(view, s, grades, update))
      profiles == IF update THEN WithProfile(db, view, s) ELSE db.profiles
  IN
  /\ DOMAIN grades = ToScore(view, s)
  /\ db' = IF Clashes(db, view, items) THEN Failed(db, view, s)
           ELSE [Saved(db, view, s, grades) EXCEPT
                   !.sessions[s].status = "scored",
                   !.sessions[s].profile = IF update THEN Len(profiles) ELSE Len(view.profiles),
                   !.profiles = profiles,
                   !.mistakes = [r \in DOMAIN items \cup DOMAIN @ |->
                                   IF r \in DOMAIN items /\ ~(/\ r \in DOMAIN view.mistakes
                                                              /\ items[r] = view.mistakes[r])
                                   THEN items[r] ELSE @[r]]]
  /\ Quit(j)
  /\ UNCHANGED <<budget, overtaken>>

\* The try block: a blank answer no longer equals the stripped one.
Save(j) ==
  /\ jobs[j].at = "scoring"
  /\ db.sessions[jobs[j].session].sheet # "blank"
  /\ \E scored \in SUBSET ToScore(jobs[j].view, jobs[j].session) :
       \E grades \in [scored -> Grades] :
          \/ SavePartial(j, grades)
          \/ \E update \in BOOLEAN : SaveResult(j, grades, update)

\* Any exception of the try block.
Fail(j) ==
  /\ jobs[j].at = "scoring"
  /\ \/ db.sessions[jobs[j].session].sheet = "blank" /\ UNCHANGED budget
     \/ Faulty
  /\ db' = Failed(db, jobs[j].view, jobs[j].session)
  /\ Quit(j)
  /\ UNCHANGED overtaken

\* The process stops; background tasks are not persisted.
Crash ==
  /\ Faulty
  /\ jobs' = [j \in Jobs |-> Idle]
  /\ UNCHANGED <<db, overtaken>>

\* A formal question is disabled.
Disable(q) ==
  /\ q \in db.bank
  /\ Faulty
  /\ db' = [db EXCEPT !.bank = @ \ {q}]
  /\ UNCHANGED <<jobs, overtaken>>

Next ==
  \/ \E s \in Sessions : Create(s) \/ Expire(s) \/ Retry(s)
  \/ \E s \in Sessions, sheet \in Sheets : Submit(s, sheet)
  \/ \E j \in Jobs : Start(j) \/ Save(j) \/ Fail(j)
  \/ \E q \in Questions : Disable(q)
  \/ Crash

Spec == Init /\ [][Next]_vars

-----------------------------------------------------------------------------
(* Properties                                                              *)

\* A session forms at most one profile, and is scored from then on: claims,
\* retries, failures and restarts between them never score it again.  The
\* exception is a session whose job outlived its lease: the job neither
\* renews the lease nor checks it before it commits.
ScoredOnce ==
  \A s \in Sessions \ overtaken :
    LET mine == {i \in DOMAIN db.profiles : db.profiles[i].by = {s}} IN
    /\ Cardinality(mine) <= 1
    /\ mine # {} => db.sessions[s].status = "scored" /\ db.sessions[s].profile \in mine

\* What _session_payload offers, retry_diagnostic_session accepts: a session
\* that crashed, failed or waits for its scoring always has an answer left to
\* score, however far earlier attempts came.
RetryHonoured ==
  \A s \in Sessions \ overtaken : Offered(s) => Retryable(s)

\* Every wrong answer of a scored session can be practised as a mistake,
\* whichever attempt scored it and whatever other sessions did meanwhile.
NoLostMistake ==
  \A s \in Sessions \ overtaken : db.sessions[s].status = "scored" =>
    \A q \in Questions : db.records[s][q].right \/ <<s, q>> \in DOMAIN db.mistakes

\* A short answer is scored once: neither a repeated submission nor a retry
\* after a partial batch changes a score that was kept.
ScoresKept ==
  [][\A s \in Sessions, q \in Shorts :
       db.records[s][q].status = "scored" /\ s \notin overtaken
         => db'.records[s][q] = db.records[s][q]]_vars
=============================================================================
