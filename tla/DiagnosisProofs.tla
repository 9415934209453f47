--------------------------- MODULE DiagnosisProofs ---------------------------
(***************************************************************************)
(* Diagnosis keeps its properties for any number of sessions, questions    *)
(* and jobs.                                                               *)
(*                                                                         *)
(* A session that was never claimed while a job of its own still ran has   *)
(* one job at most, the job sees the session's rows as they are, and       *)
(* nothing else writes them: what a session keeps can be said of the       *)
(* session alone (SessionInv), and a step of another session is no step    *)
(* of it (Untouched).                                                      *)
(***************************************************************************)
EXTENDS Diagnosis, FiniteSetTheorems, SequenceTheorems, TLAPS

Session == [status: {"none", "created", "scoring", "pending_scoring", "failed", "scored"},
            sheet: Sheets \cup {NoSheet}, expired: BOOLEAN, profile: Nat]
Answer == [status: {"none", "pending", "pending_scoring", "scored"},
           right: BOOLEAN, uncertain: BOOLEAN]
Profile == [by: SUBSET Sessions, prev: Nat, done: BOOLEAN, path: {"none", "fresh", "stale"}]
MistakeTable ==
    UNION {[D -> {"pending", "verification_pending", "retired"}] :
              D \in SUBSET (Sessions \X Questions)}
Tables == [sessions: [Sessions -> Session], records: [Sessions -> [Questions -> Answer]],
           profiles: Seq(Profile), mistakes: MistakeTable, bank: SUBSET Questions]

Job == {Idle} \cup [at: {"queued"}, session: Sessions]
              \cup [at: {"scoring"}, session: Sessions, view: Tables]

TypeInv ==
    /\ db \in Tables
    /\ jobs \in [Jobs -> Job]
    /\ overtaken \in SUBSET Sessions
    /\ \A j \in Jobs : jobs[j].at = "scoring" =>
          DOMAIN jobs[j].view.mistakes \subseteq DOMAIN db.mistakes

-----------------------------------------------------------------------------
(* What the steps write                                                    *)

\* A step of session s gives it the row x and the answers R.
Sets(s, x, R) ==
    /\ x \in Session /\ R \in [Questions -> Answer]
    /\ db'.sessions = [db.sessions EXCEPT ![s] = x]
    /\ db'.records = [db.records EXCEPT ![s] = R]

\* The tables that only a result is written to.
Keeps == db'.profiles = db.profiles /\ db'.mistakes = db.mistakes /\ db'.bank = db.bank

Shaped ==
    db' = [sessions |-> db'.sessions, records |-> db'.records, profiles |-> db'.profiles,
           mistakes |-> db'.mistakes, bank |-> db'.bank]

LEMMA SetTables ==
  ASSUME db \in Tables, NEW s \in Sessions, NEW x, NEW R, Sets(s, x, R), Shaped,
         db'.profiles \in Seq(Profile), db'.mistakes \in MistakeTable,
         db'.bank \in SUBSET Questions
  PROVE  db' \in Tables
  <1>1. /\ db'.sessions \in [Sessions -> Session]
        /\ db'.records \in [Sessions -> [Questions -> Answer]]
    BY DEF Tables, Sets
  <1> QED BY <1>1 DEF Tables, Shaped

LEMMA KeptTables ==
  ASSUME db \in Tables, NEW s \in Sessions, NEW x, NEW R, Sets(s, x, R), Shaped, Keeps
  PROVE  db' \in Tables
  BY SetTables DEF Keeps, Tables

LEMMA SessionFields ==
  ASSUME db \in Tables, NEW s \in Sessions
  PROVE  db.sessions[s] \in Session /\ db.records[s] \in [Questions -> Answer]
  BY DEF Tables

LEMMA CreateEffect ==
  ASSUME db \in Tables, NEW s \in Sessions, Create(s)
  PROVE  /\ Sets(s, [db.sessions[s] EXCEPT !.status = "created"], db.records[s])
         /\ Keeps
         /\ db' \in Tables
  <1> DEFINE x == [db.sessions[s] EXCEPT !.status = "created"]
  <1>1. x \in Session /\ db.records[s] \in [Questions -> Answer]
    BY SessionFields DEF Session
  <1>2. db' = [db EXCEPT !.sessions[s] = x]
    BY DEF Create, Tables
  <1> HIDE DEF x
  <1>3. Shaped /\ Keeps
    BY <1>2 DEF Tables, Shaped, Keeps
  <1>4. Sets(s, x, db.records[s])
    BY <1>1, <1>2 DEF Tables, Sets
  <1> QED BY <1>3, <1>4, KeptTables DEF x

LEMMA ExpireEffect ==
  ASSUME db \in Tables, NEW s \in Sessions, Expire(s)
  PROVE  /\ Sets(s, [db.sessions[s] EXCEPT !.expired = TRUE], db.records[s])
         /\ Keeps
         /\ db' \in Tables
  <1> DEFINE x == [db.sessions[s] EXCEPT !.expired = TRUE]
  <1>1. x \in Session /\ db.records[s] \in [Questions -> Answer]
    BY SessionFields DEF Session
  <1>2. db' = [db EXCEPT !.sessions[s] = x]
    BY DEF Expire, Tables
  <1> HIDE DEF x
  <1>3. Shaped /\ Keeps
    BY <1>2 DEF Tables, Shaped, Keeps
  <1>4. Sets(s, x, db.records[s])
    BY <1>1, <1>2 DEF Tables, Sets
  <1> QED BY <1>3, <1>4, KeptTables DEF x

LEMMA ClaimEffect ==
  ASSUME db \in Tables, NEW s \in Sessions, NEW session \in Session,
         NEW R \in [Questions -> Answer], Claim(s, session, R)
  PROVE  /\ Sets(s, [session EXCEPT !.status = "scoring", !.expired = FALSE], R)
         /\ Keeps
         /\ db' \in Tables
  <1> DEFINE x == [session EXCEPT !.status = "scoring", !.expired = FALSE]
  <1>1. x \in Session
    BY DEF Session
  <1>2. db' = [db EXCEPT !.sessions[s] = x, !.records[s] = R]
    BY DEF Claim
  <1> HIDE DEF x
  <1>3. Shaped /\ Keeps
    BY <1>2 DEF Tables, Shaped, Keeps
  <1>4. Sets(s, x, R)
    BY <1>1, <1>2 DEF Tables, Sets
  <1> QED BY <1>3, <1>4, KeptTables DEF x

\* The except branch, for a job that failed or clashed.
LEMMA FailEffect ==
  ASSUME db \in Tables, NEW s \in Sessions, NEW view, db' = Failed(db, view, s)
  PROVE  /\ \E st \in {"failed", "pending_scoring"} :
              Sets(s, [db.sessions[s] EXCEPT !.status = st], db.records[s])
         /\ Keeps
         /\ db' \in Tables
  <1> DEFINE st == IF db.sessions[s].status = "pending_scoring" THEN "pending_scoring"
                   ELSE "failed"
             x == [db.sessions[s] EXCEPT !.status = st]
  <1>1. x \in Session /\ db.records[s] \in [Questions -> Answer]
    BY SessionFields DEF Session
  <1>2. db' = [db EXCEPT !.sessions[s] = x]
    <2>1. CASE db.sessions[s].status = "pending_scoring"
      <3>1. x = db.sessions[s]
        BY <2>1, SessionFields DEF Session
      <3> QED BY <2>1, <3>1 DEF Failed, Tables
    <2>2. CASE db.sessions[s].status # "pending_scoring"
      BY <2>2 DEF Failed, Tables
    <2> QED BY <2>1, <2>2
  <1> HIDE DEF x
  <1>3. Shaped /\ Keeps
    BY <1>2 DEF Tables, Shaped, Keeps
  <1>4. Sets(s, x, db.records[s])
    BY <1>1, <1>2 DEF Tables, Sets
  <1>5. st \in {"failed", "pending_scoring"}
    OBVIOUS
  <1> QED BY <1>3, <1>4, <1>5, KeptTables DEF x

LEMMA WrittenRow ==
  ASSUME NEW r \in Answer, NEW seen \in Answer, NEW new \in Answer
  PROVE  /\ Written(r, seen, new) \in Answer
         /\ r = seen => Written(r, seen, new) = new
  BY DEF Written, Answer

LEMMA GradesRow ==
  ASSUME NEW g \in Grades
  PROVE  g \in Answer /\ g.status = "scored"
  <1>1. PICK m \in Scores, p \in Scores : g = Graded(m, p)
    BY DEF Grades
  <1>2. PICK a \in BOOLEAN, b \in BOOLEAN :
          Graded(m, p) = [status |-> "scored", right |-> a, uncertain |-> b]
    <2> DEFINE u == \/ m > p + 20 \/ p > m + 20
                    \/ (m >= PassScore) # (p >= PassScore)
               c == Larger(p, PassScore - 5)
               f == IF u /\ c < m THEN c ELSE m
    <2>1. Graded(m, p) = [status |-> "scored", right |-> f >= PassScore, uncertain |-> u]
      BY DEF Graded
    <2>2. u \in BOOLEAN
      OBVIOUS
    <2> HIDE DEF f, u
    <2>3. (f >= PassScore) \in BOOLEAN
      OBVIOUS
    <2> QED BY <2>1, <2>2, <2>3, Zenon
  <1> QED BY <1>1, <1>2 DEF Answer

LEMMA JobFacts ==
  ASSUME TypeInv, NEW j \in Jobs
  PROVE  /\ jobs[j].at \in {"idle", "queued", "scoring"}
         /\ jobs[j].at # "idle" => jobs[j].session \in Sessions
         /\ jobs[j].at = "scoring" => jobs[j].view \in Tables
  <1>1. jobs[j] \in Job
    BY DEF TypeInv
  <1>2. CASE jobs[j] = Idle
    BY <1>2 DEF Idle
  <1>3. CASE jobs[j] \in [at: {"queued"}, session: Sessions]
    BY <1>3
  <1>4. CASE jobs[j] \in [at: {"scoring"}, session: Sessions, view: Tables]
    BY <1>4
  <1> QED BY <1>1, <1>2, <1>3, <1>4 DEF Job

\* Scoring touches the choices and the answers that were still to be scored.
LEMMA ScoredRow ==
  ASSUME NEW view \in Tables, NEW s \in Sessions, NEW scored \in SUBSET ToScore(view, s),
         NEW grades \in [scored -> Grades], NEW q \in Questions
  PROVE  /\ Scored(view, s, grades)[q] \in Answer
         /\ q \in Choices =>
              Scored(view, s, grades)[q].status = view.records[s][q].status
         /\ q \in Choices =>
              /\ Scored(view, s, grades)[q].right => q \in Right
              /\ q \in Right => Scored(view, s, grades)[q].right
         /\ q \notin Choices /\ view.records[s][q].status = "scored" =>
              Scored(view, s, grades)[q] = view.records[s][q]
         /\ q \notin Choices /\ q \in scored => Scored(view, s, grades)[q].status = "scored"
         /\ q \notin Choices /\ q \in ToScore(view, s) \ scored =>
              /\ Scored(view, s, grades)[q].status = "pending_scoring"
              /\ Scored(view, s, grades)[q].right = view.records[s][q].right
  <1>0. view.records[s] \in [Questions -> Answer] /\ DOMAIN grades = scored
    BY DEF Tables
  <1> DEFINE old == view.records[s][q]
  <1>1. old \in Answer
    BY <1>0
  <1>2. CASE q \in Choices
    <2>1. Scored(view, s, grades)[q] =
            [old EXCEPT !.right = IF q \in Right THEN TRUE ELSE FALSE]
      <3>0. q \notin DOMAIN grades /\ q \notin ToScore(view, s)
        BY <1>0, <1>2, QuestionsAssumption DEF ToScore
      <3>1. CASE q \in Right
        BY <1>2, <3>0, <3>1 DEF Scored
      <3>2. CASE q \notin Right
        BY <1>2, <3>0, <3>2 DEF Scored
      <3> QED BY <3>1, <3>2
    <2>2. \A b \in BOOLEAN : /\ [old EXCEPT !.right = b] \in Answer
                             /\ [old EXCEPT !.right = b].status = old.status
                             /\ [old EXCEPT !.right = b].right = b
      BY <1>1 DEF Answer
    <2> QED BY <1>2, <2>1, <2>2
  <1>3. CASE q \notin Choices /\ q \in scored
    <2>1. Scored(view, s, grades)[q] = grades[q] /\ grades[q] \in Grades
      BY <1>0, <1>3, QuestionsAssumption DEF Scored
    <2>2. old.status # "scored"
      BY <1>3 DEF ToScore
    <2> QED BY <1>3, <2>1, <2>2, GradesRow
  <1>4. CASE q \notin Choices /\ q \in ToScore(view, s) \ scored
    <2>1. Scored(view, s, grades)[q] = [old EXCEPT !.status = "pending_scoring"]
      BY <1>0, <1>4, QuestionsAssumption DEF Scored
    <2>2. /\ [old EXCEPT !.status = "pending_scoring"] \in Answer
          /\ [old EXCEPT !.status = "pending_scoring"].status = "pending_scoring"
          /\ [old EXCEPT !.status = "pending_scoring"].right = old.right
      BY <1>1 DEF Answer
    <2>3. old.status # "scored"
      BY <1>4 DEF ToScore
    <2> QED BY <1>4, <2>1, <2>2, <2>3
  <1>5. CASE q \notin Choices /\ q \notin ToScore(view, s)
    <2>1. Scored(view, s, grades)[q] = old
      BY <1>0, <1>5, QuestionsAssumption DEF Scored
    <2> QED BY <1>1, <1>5, <2>1
  <1> QED BY <1>2, <1>3, <1>4, <1>5

LEMMA ScoredRows ==
  ASSUME NEW view \in Tables, NEW s \in Sessions, NEW scored \in SUBSET ToScore(view, s),
         NEW grades \in [scored -> Grades]
  PROVE  Scored(view, s, grades) \in [Questions -> Answer]
  <1>1. \A q \in Questions : Scored(view, s, grades)[q] \in Answer
    BY ScoredRow
  <1> QED BY <1>1 DEF Scored

\* What scoring makes of the answers; scored are those the model gave a result for.
ScoredAs(view, s, scored, new) ==
    \A q \in Questions :
        /\ new[q] \in Answer
        /\ q \in Choices => new[q].status = view.records[s][q].status
        /\ q \in Choices /\ new[q].right => q \in Right
        /\ q \in Choices /\ q \in Right => new[q].right
        /\ q \notin Choices /\ view.records[s][q].status = "scored" =>
              new[q] = view.records[s][q]
        /\ q \notin Choices /\ q \in scored => new[q].status = "scored"
        /\ q \notin Choices /\ q \in ToScore(view, s) /\ q \notin scored =>
              /\ new[q].status = "pending_scoring"
              /\ new[q].right = view.records[s][q].right

LEMMA ScoredFacts ==
  ASSUME NEW view \in Tables, NEW s \in Sessions, NEW scored \in SUBSET ToScore(view, s),
         NEW grades \in [scored -> Grades]
  PROVE  ScoredAs(view, s, scored, Scored(view, s, grades))
  <1> SUFFICES ASSUME NEW q \in Questions
               PROVE  LET new == Scored(view, s, grades) IN
                      /\ new[q] \in Answer
                      /\ q \in Choices => new[q].status = view.records[s][q].status
                      /\ q \in Choices /\ new[q].right => q \in Right
                      /\ q \in Choices /\ q \in Right => new[q].right
                      /\ q \notin Choices /\ view.records[s][q].status = "scored" =>
                            new[q] = view.records[s][q]
                      /\ q \notin Choices /\ q \in scored => new[q].status = "scored"
                      /\ q \notin Choices /\ q \in ToScore(view, s) /\ q \notin scored =>
                            /\ new[q].status = "pending_scoring"
                            /\ new[q].right = view.records[s][q].right
    BY DEF ScoredAs
  <1> QED BY ScoredRow

\* The answers of the session as the job leaves them.
SavedRows(view, s, grades) ==
    [q \in Questions |->
       Written(db.records[s][q], view.records[s][q], Scored(view, s, grades)[q])]

LEMMA SavedRowsFacts ==
  ASSUME db \in Tables, NEW view \in Tables, NEW s \in Sessions,
         NEW scored \in SUBSET ToScore(view, s), NEW grades \in [scored -> Grades]
  PROVE  /\ SavedRows(view, s, grades) \in [Questions -> Answer]
         /\ view.records[s] = db.records[s] =>
              SavedRows(view, s, grades) = Scored(view, s, grades)
  <1>1. /\ view.records[s] \in [Questions -> Answer]
        /\ db.records[s] \in [Questions -> Answer]
        /\ Scored(view, s, grades) \in [Questions -> Answer]
    BY ScoredRows DEF Tables
  <1> QED BY <1>1, WrittenRow DEF SavedRows

LEMMA PartialEffect ==
  ASSUME db \in Tables, NEW j \in Jobs, jobs[j].session \in Sessions, jobs[j].view \in Tables,
         NEW scored \in SUBSET ToScore(jobs[j].view, jobs[j].session),
         NEW grades \in [scored -> Grades], SavePartial(j, grades)
  PROVE  LET s == jobs[j].session IN
         /\ Sets(s, [db.sessions[s] EXCEPT !.status = "pending_scoring"],
                 SavedRows(jobs[j].view, s, grades))
         /\ Keeps
         /\ db' \in Tables
  <1> DEFINE s == jobs[j].session
             view == jobs[j].view
             x == [db.sessions[s] EXCEPT !.status = "pending_scoring"]
             R == SavedRows(view, s, grades)
  <1>1. x \in Session /\ R \in [Questions -> Answer]
    BY SessionFields, SavedRowsFacts DEF Session
  <1>2. db' = [db EXCEPT !.sessions[s] = x, !.records[s] = R]
    BY DEF SavePartial, Saved, SavedRows, Tables
  <1> HIDE DEF x, R
  <1>3. Shaped /\ Keeps
    BY <1>2 DEF Tables, Shaped, Keeps
  <1>4. Sets(s, x, R)
    BY <1>1, <1>2 DEF Tables, Sets
  <1> QED BY <1>3, <1>4, KeptTables DEF x, R

\* The new profile is appended; nobody's `by' changes.
LEMMA ProfileAdded ==
  ASSUME NEW t \in Tables, NEW view \in Tables, NEW s \in Sessions
  PROVE  LET n == Len(t.profiles)  new == WithProfile(t, view, s) IN
         /\ new \in Seq(Profile) /\ Len(new) = n + 1 /\ n \in Nat
         /\ DOMAIN new = 1 .. n + 1
         /\ DOMAIN t.profiles = 1 .. n
         /\ new[n + 1].by = {s}
         /\ \A i \in 1 .. n : new[i].by = t.profiles[i].by
  <1> DEFINE n == Len(t.profiles)
             prev == Len(view.profiles)
             old == [i \in DOMAIN t.profiles |->
                       IF i = prev /\ view.profiles[i].path = "fresh"
                       THEN [t.profiles[i] EXCEPT !.path = "stale"] ELSE t.profiles[i]]
             p == [by |-> {s}, prev |-> prev, done |-> TRUE, path |-> "fresh"]
  <1>1. t.profiles \in Seq(Profile) /\ view.profiles \in Seq(Profile)
    BY DEF Tables
  <1>2. n \in Nat /\ prev \in Nat /\ DOMAIN t.profiles = 1 .. n
    BY <1>1
  <1>3. \A i \in 1 .. n : t.profiles[i] \in Profile
    BY <1>1, <1>2
  <1>4. \A i \in 1 .. n : old[i] \in Profile /\ old[i].by = t.profiles[i].by
    BY <1>2, <1>3 DEF Profile
  <1>5. old \in [1 .. n -> Profile]
    BY <1>2, <1>4
  <1>6. old \in Seq(Profile) /\ Len(old) = n
    BY <1>2, <1>5
  <1>7. p \in Profile /\ p.by = {s}
    BY <1>2 DEF Profile
  <1>8. WithProfile(t, view, s) = Append(old, p)
    BY DEF WithProfile
  <1> HIDE DEF old, p, n
  <1>9. /\ Append(old, p) \in Seq(Profile)
        /\ Len(Append(old, p)) = n + 1
        /\ Append(old, p)[n + 1] = p
        /\ \A i \in 1 .. n : Append(old, p)[i] = old[i]
    BY <1>2, <1>6, <1>7
  <1>10. DOMAIN Append(old, p) = 1 .. n + 1
    BY <1>9
  <1> QED BY <1>2, <1>4, <1>7, <1>8, <1>9, <1>10 DEF n

LEMMA ItemsTable ==
  ASSUME NEW view \in Tables, NEW s \in Sessions, NEW grades,
         NEW wrong \in SUBSET (Sessions \X Questions)
  PROVE  /\ Mistaken(view, s, grades, wrong) \in MistakeTable
         /\ DOMAIN Mistaken(view, s, grades, wrong) = DOMAIN view.mistakes \cup wrong
  <1> DEFINE St == {"pending", "verification_pending", "retired"}
             items == Mistaken(view, s, grades, wrong)
             D == DOMAIN view.mistakes \cup wrong
  <1>1. view.mistakes \in MistakeTable
    BY DEF Tables
  <1>2. /\ DOMAIN view.mistakes \subseteq Sessions \X Questions
        /\ \A r \in DOMAIN view.mistakes : view.mistakes[r] \in St
    BY <1>1 DEF MistakeTable
  <1>3. DOMAIN items = D /\ \A r \in D : items[r] \in St
    BY <1>2 DEF Mistaken
  <1>4. items = [r \in D |-> items[r]]
    BY <1>3 DEF Mistaken
  <1>5. items \in [D -> St] /\ D \in SUBSET (Sessions \X Questions)
    BY <1>2, <1>3, <1>4
  <1> QED BY <1>3, <1>5 DEF MistakeTable


\* The committed result of a job.
Result(s, view, grades, update) ==
    /\ \E P \in Nat :
         /\ Sets(s, [db.sessions[s] EXCEPT !.status = "scored", !.profile = P],
                 SavedRows(view, s, grades))
         /\ update => /\ db'.profiles = WithProfile(db, view, s)
                      /\ P = Len(db.profiles) + 1
         /\ ~update => db'.profiles = db.profiles
    /\ DOMAIN db'.mistakes =
          DOMAIN view.mistakes \cup Wrong(view, s, grades, update) \cup DOMAIN db.mistakes
    /\ db' \in Tables

LEMMA ResultEffect ==
  ASSUME TypeInv, NEW j \in Jobs, jobs[j].at = "scoring",
         NEW s, s = jobs[j].session, NEW view, view = jobs[j].view,
         NEW grades \in [ToScore(view, s) -> Grades],
         NEW update \in BOOLEAN, SaveResult(j, grades, update)
  PROVE  db' = Failed(db, view, s) \/ Result(s, view, grades, update)
  <1> DEFINE wrong == Wrong(view, s, grades, update)
             items == Mistaken(view, s, grades, wrong)
             profiles == IF update THEN WithProfile(db, view, s) ELSE db.profiles
             P == IF update THEN Len(profiles) ELSE Len(view.profiles)
             ms == [r \in DOMAIN items \cup DOMAIN db.mistakes |->
                      IF r \in DOMAIN items /\ ~(/\ r \in DOMAIN view.mistakes
                                                 /\ items[r] = view.mistakes[r])
                      THEN items[r] ELSE db.mistakes[r]]
             x == [db.sessions[s] EXCEPT !.status = "scored", !.profile = P]
             R == SavedRows(view, s, grades)
  <1>1. s \in Sessions /\ view \in Tables /\ db \in Tables
    BY JobFacts DEF TypeInv
  <1>2. wrong \in SUBSET (Sessions \X Questions)
    BY DEF Wrong
  <1>3. SUFFICES ASSUME ~Clashes(db, view, items)
                 PROVE  Result(s, view, grades, update)
    BY DEF SaveResult
  <1>4. profiles \in Seq(Profile) /\ P \in Nat
    <2>1. db.profiles \in Seq(Profile) /\ view.profiles \in Seq(Profile)
      BY <1>1 DEF Tables
    <2> QED BY <1>1, <2>1, ProfileAdded
  <1>5. x \in Session /\ R \in [Questions -> Answer]
    BY <1>1, <1>4, SessionFields, SavedRowsFacts DEF Session
  <1>6. /\ items \in MistakeTable
        /\ DOMAIN items = DOMAIN view.mistakes \cup wrong
    BY <1>1, <1>2, ItemsTable
  <1>7. ms \in MistakeTable
    <2> DEFINE D == DOMAIN items \cup DOMAIN db.mistakes
               St == {"pending", "verification_pending", "retired"}
    <2>1. /\ D \in SUBSET (Sessions \X Questions)
          /\ \A r \in DOMAIN items : items[r] \in St
          /\ \A r \in DOMAIN db.mistakes : db.mistakes[r] \in St
      BY <1>1, <1>6 DEF MistakeTable, Tables
    <2>2. DOMAIN view.mistakes \subseteq DOMAIN db.mistakes
      BY DEF TypeInv
    <2> HIDE DEF items, D
    <2>3. \A r \in D : ms[r] \in St
      BY <2>1, <2>2 DEF D
    <2>4. ms \in [D -> St]
      BY <2>3 DEF D
    <2> QED BY <2>1, <2>4 DEF MistakeTable
  <1>8. /\ Shaped
        /\ db'.sessions = [db.sessions EXCEPT ![s].status = "scored", ![s].profile = P]
        /\ db'.records = [db.records EXCEPT ![s] = R]
        /\ db'.profiles = profiles /\ db'.mistakes = ms /\ db'.bank = db.bank
    <2> DEFINE t == Saved(db, view, s, grades)
    <2>1. db' = [t EXCEPT
                   !.sessions[s].status = "scored",
                   !.sessions[s].profile = P,
                   !.profiles = profiles,
                   !.mistakes = [r \in DOMAIN items \cup DOMAIN @ |->
                                   IF r \in DOMAIN items /\ ~(/\ r \in DOMAIN view.mistakes
                                                              /\ items[r] = view.mistakes[r])
                                   THEN items[r] ELSE @[r]]]
      BY <1>3 DEF SaveResult
    <2>2. t = [db EXCEPT !.records[s] = R]
      BY DEF Saved, SavedRows
    <2> HIDE DEF items, profiles, P, R, t
    <2>3. t = [sessions |-> db.sessions, records |-> [db.records EXCEPT ![s] = R],
               profiles |-> db.profiles, mistakes |-> db.mistakes, bank |-> db.bank]
      BY <1>1, <2>2 DEF Tables
    <2>4. /\ t.sessions = db.sessions /\ t.records = [db.records EXCEPT ![s] = R]
          /\ t.profiles = db.profiles /\ t.mistakes = db.mistakes /\ t.bank = db.bank
      BY <2>3
    <2>5. [r \in DOMAIN items \cup DOMAIN t.mistakes |->
             IF r \in DOMAIN items /\ ~(/\ r \in DOMAIN view.mistakes
                                        /\ items[r] = view.mistakes[r])
             THEN items[r] ELSE t.mistakes[r]] = ms
      BY <2>4
    <2> HIDE DEF ms
    <2>6. db' = [t EXCEPT !.sessions[s].status = "scored", !.sessions[s].profile = P,
                          !.profiles = profiles, !.mistakes = ms]
      BY <2>1, <2>5
    <2>7. db'.sessions = [db.sessions EXCEPT ![s].status = "scored", ![s].profile = P]
      BY <1>1, <2>3, <2>6 DEF Tables
    <2>8. /\ db'.records = [db.records EXCEPT ![s] = R]
          /\ db'.profiles = profiles /\ db'.mistakes = ms /\ db'.bank = db.bank
          /\ Shaped
      BY <2>3, <2>6 DEF Shaped
    <2> QED BY <2>7, <2>8
  <1>9. Sets(s, x, R)
    <2>1. [db.sessions EXCEPT ![s].status = "scored", ![s].profile = P] =
            [db.sessions EXCEPT ![s] = x]
      BY <1>1 DEF Tables
    <2> HIDE DEF x, R, P
    <2> QED BY <1>5, <1>8, <2>1 DEF Sets
  <1> HIDE DEF x, R, ms
  <1>10. db' \in Tables
    <2>1. db'.bank \in SUBSET Questions
      BY <1>1, <1>8 DEF Tables
    <2> QED BY <1>1, <1>4, <1>7, <1>8, <1>9, <2>1, SetTables
  <1>11. DOMAIN ms = DOMAIN view.mistakes \cup wrong \cup DOMAIN db.mistakes
    BY <1>6 DEF ms
  <1>12. update => P = Len(db.profiles) + 1
    BY <1>1, ProfileAdded
  <1> QED BY <1>4, <1>8, <1>9, <1>10, <1>11, <1>12 DEF Result, x, R

LEMMA DisableEffect ==
  ASSUME db \in Tables, NEW q \in Questions, Disable(q)
  PROVE  /\ db' \in Tables
         /\ db'.sessions = db.sessions /\ db'.records = db.records
         /\ db'.profiles = db.profiles /\ db'.mistakes = db.mistakes
  <1>1. db' = [db EXCEPT !.bank = db.bank \ {q}]
    BY DEF Disable, Tables
  <1> QED BY <1>1 DEF Tables

-----------------------------------------------------------------------------
(* Types                                                                   *)

Queued(s) == [at |-> "queued", session |-> s]

\* A claim, whichever endpoint makes it.
Claims(s) ==
    /\ Claimable(db.sessions[s])
    /\ \E session \in Session, R \in [Questions -> Answer] :
         /\ session.expired = db.sessions[s].expired
         /\ session.profile = db.sessions[s].profile
         /\ session.sheet # NoSheet
         /\ \A q \in Questions :
              IF db.records[s][q].status # "none" THEN R[q] = db.records[s][q]
              ELSE /\ R[q].status # "none" /\ ~R[q].right
                   /\ q \in Shorts => R[q].status = "pending"
         /\ Claim(s, session, R)

LEMMA ClaimSteps ==
  ASSUME db \in Tables, NEW s \in Sessions,
         \A q \in Questions : db.sessions[s].sheet # NoSheet => db.records[s][q].status # "none"
  PROVE  /\ \A sheet \in Sheets : Submit(s, sheet) => Claims(s)
         /\ Retry(s) => Claims(s)
  <1>1. db.sessions[s] \in Session /\ db.records[s] \in [Questions -> Answer]
    BY SessionFields
  <1>2. ASSUME NEW sheet \in Sheets, Submit(s, sheet)
        PROVE  Claims(s)
    <2> DEFINE x == [db.sessions[s] EXCEPT !.sheet = sheet]
               R == Inserted(db.records[s])
    <2>1. x \in Session /\ x.expired = db.sessions[s].expired /\ x.sheet # NoSheet
          /\ x.profile = db.sessions[s].profile
      BY <1>1, QuestionsAssumption DEF Session
    <2>2. \A q \in Questions :
            /\ R[q] \in Answer
            /\ IF db.records[s][q].status # "none" THEN R[q] = db.records[s][q]
               ELSE /\ R[q].status # "none" /\ ~R[q].right
                    /\ q \in Shorts => R[q].status = "pending"
      BY <1>1 DEF Inserted, Unanswered, Answer
    <2>3. R \in [Questions -> Answer]
      BY <2>2 DEF Inserted
    <2>4. Claimable(db.sessions[s]) /\ Claim(s, x, R)
      BY <1>2 DEF Submit
    <2> HIDE DEF x, R
    <2> QED BY <2>1, <2>2, <2>3, <2>4 DEF Claims
  <1>3. ASSUME Retry(s)
        PROVE  Claims(s)
    BY <1>1, <1>3 DEF Retry, Retryable, Claims
  <1> QED BY <1>2, <1>3

LEMMA ClaimedJobs ==
  ASSUME TypeInv, NEW s \in Sessions, NEW session, NEW R, Claim(s, session, R)
  PROVE  /\ jobs' \in [Jobs -> Job]
         /\ \E j \in Jobs : /\ jobs[j].at = "idle"
                            /\ jobs' = [jobs EXCEPT ![j] = Queued(s)]
         /\ overtaken \subseteq overtaken' /\ overtaken' \in SUBSET Sessions
         /\ session.expired /\ Alive(s) => s \in overtaken'
  <1>1. PICK j \in Jobs : jobs[j].at = "idle" /\ jobs' = [jobs EXCEPT ![j] = Queued(s)]
    BY DEF Claim, Queued
  <1>2. Queued(s) \in Job
    BY DEF Queued, Job
  <1> QED BY <1>1, <1>2 DEF Claim, TypeInv

LEMMA TypeStep ==
  ASSUME TypeInv, [Next]_vars,
         \A s \in Sessions, q \in Questions :
            db.sessions[s].sheet # NoSheet => db.records[s][q].status # "none"
  PROVE  TypeInv'
  <1>0. db \in Tables /\ jobs \in [Jobs -> Job] /\ Idle \in Job
    BY DEF TypeInv, Job
  \* Enough for a step that writes tables and starts no job.
  <1>1. ASSUME db' \in Tables, jobs' \in [Jobs -> Job], overtaken' \in SUBSET Sessions,
               \A j \in Jobs : jobs'[j].at = "scoring" => jobs'[j] = jobs[j],
               DOMAIN db.mistakes \subseteq DOMAIN db'.mistakes
        PROVE  TypeInv'
    <2>1. \A j \in Jobs : jobs'[j].at = "scoring" =>
            DOMAIN jobs'[j].view.mistakes \subseteq DOMAIN db'.mistakes
      BY <1>1 DEF TypeInv
    <2> QED BY <1>1, <2>1 DEF TypeInv
  <1>2. ASSUME NEW s \in Sessions, Create(s) \/ Expire(s)
        PROVE  TypeInv'
    <2>1. db' \in Tables /\ db'.mistakes = db.mistakes
      BY <1>0, <1>2, CreateEffect, ExpireEffect DEF Keeps
    <2>2. UNCHANGED <<jobs, overtaken>>
      BY <1>2 DEF Create, Expire
    <2> QED BY <1>0, <1>1, <2>1, <2>2 DEF TypeInv
  <1>3. ASSUME NEW s \in Sessions, Claims(s)
        PROVE  TypeInv'
    <2>1. PICK session \in Session, R \in [Questions -> Answer] : Claim(s, session, R)
      BY <1>3 DEF Claims
    <2>2. db' \in Tables /\ db'.mistakes = db.mistakes
      BY <1>0, <2>1, ClaimEffect DEF Keeps
    <2>3. PICK j \in Jobs : jobs' = [jobs EXCEPT ![j] = Queued(s)]
      BY <2>1, ClaimedJobs
    <2>4. \A i \in Jobs : jobs'[i].at = "scoring" => jobs'[i] = jobs[i]
      BY <1>0, <2>3 DEF Queued
    <2> QED BY <1>1, <2>1, <2>2, <2>4, ClaimedJobs
  <1>4. ASSUME NEW j \in Jobs, Start(j)
        PROVE  TypeInv'
    <2>1. UNCHANGED <<db, overtaken>> /\ jobs[j].session \in Sessions
      BY <1>4, JobFacts DEF Start
    <2>2. CASE Quit(j)
      <3>1. \A i \in Jobs : jobs'[i].at = "scoring" => jobs'[i] = jobs[i]
        BY <1>0, <2>2 DEF Quit, Idle
      <3>2. jobs' \in [Jobs -> Job]
        BY <1>0, <2>2 DEF Quit
      <3> QED BY <1>0, <1>1, <2>1, <3>1, <3>2 DEF TypeInv
    <2>3. CASE jobs' = [jobs EXCEPT ![j] = [at |-> "scoring", session |-> jobs[j].session,
                                            view |-> db]]
      <3>1. [at |-> "scoring", session |-> jobs[j].session, view |-> db] \in Job
        BY <1>0, <2>1 DEF Job
      <3>2. jobs' \in [Jobs -> Job]
        BY <1>0, <2>3, <3>1
      <3>3. \A i \in Jobs : jobs'[i].at = "scoring" =>
              DOMAIN jobs'[i].view.mistakes \subseteq DOMAIN db.mistakes
        BY <1>0, <2>3 DEF TypeInv
      <3> QED BY <1>0, <2>1, <3>2, <3>3 DEF TypeInv
    <2> QED BY <1>4, <2>2, <2>3 DEF Start
  <1>5. ASSUME NEW j \in Jobs, Save(j) \/ Fail(j)
        PROVE  TypeInv'
    <2>1. Quit(j) /\ overtaken' = overtaken /\ jobs[j].at = "scoring"
      BY <1>5 DEF Save, Fail, SavePartial, SaveResult
    <2>2. jobs' \in [Jobs -> Job]
      BY <1>0, <2>1 DEF Quit
    <2>3. \A i \in Jobs : jobs'[i].at = "scoring" => jobs'[i] = jobs[i]
      BY <1>0, <2>1 DEF Quit, Idle
    <2>4. PICK s, view : s = jobs[j].session /\ view = jobs[j].view
      OBVIOUS
    <2>5. s \in Sessions /\ view \in Tables
      BY <2>1, <2>4, JobFacts
    <2>6. CASE db' = Failed(db, view, s)
      <3>1. db' \in Tables /\ db'.mistakes = db.mistakes
        BY <1>0, <2>5, <2>6, FailEffect DEF Keeps
      <3> QED BY <1>1, <2>1, <2>2, <2>3, <3>1 DEF TypeInv
    <2>7. ASSUME NEW scored \in SUBSET ToScore(view, s), NEW grades \in [scored -> Grades],
                 SavePartial(j, grades)
          PROVE  TypeInv'
      <3>1. db' \in Tables /\ db'.mistakes = db.mistakes
        BY <1>0, <2>4, <2>5, <2>7, PartialEffect DEF Keeps
      <3> QED BY <1>1, <2>1, <2>2, <2>3, <3>1 DEF TypeInv
    <2>8. ASSUME NEW grades \in [ToScore(view, s) -> Grades], NEW update \in BOOLEAN,
                 Result(s, view, grades, update)
          PROVE  TypeInv'
      BY <1>1, <2>1, <2>2, <2>3, <2>8 DEF Result, TypeInv
    <2>9. ASSUME NEW scored \in SUBSET ToScore(view, s), NEW grades \in [scored -> Grades],
                 NEW update \in BOOLEAN, SaveResult(j, grades, update)
          PROVE  TypeInv'
      <3>1. grades \in [ToScore(view, s) -> Grades]
        BY <2>4, <2>9 DEF SaveResult
      <3> QED BY <2>1, <2>4, <2>6, <2>8, <2>9, <3>1, ResultEffect
    <2> QED BY <1>5, <2>4, <2>6, <2>7, <2>9 DEF Save, Fail
  <1>6. ASSUME NEW q \in Questions, Disable(q)
        PROVE  TypeInv'
    BY <1>0, <1>1, <1>6, DisableEffect DEF Disable, TypeInv
  <1>7. CASE Crash
    <2>1. /\ UNCHANGED <<db, overtaken>>
          /\ jobs' = [j \in Jobs |-> Idle]
      BY <1>7 DEF Crash
    <2>2. \A j \in Jobs : jobs'[j].at # "scoring"
      BY <2>1 DEF Idle
    <2> QED BY <1>0, <2>1, <2>2 DEF TypeInv
  <1>8. CASE UNCHANGED vars
    BY <1>8 DEF vars, TypeInv
  <1> QED BY <1>0, <1>2, <1>3, <1>4, <1>5, <1>6, <1>7, <1>8, ClaimSteps DEF Next

-----------------------------------------------------------------------------
(* Sheets and rows                                                         *)

\* An answer row exists from the claim that stored the sheet on.
SheetInv ==
    /\ \A s \in Sessions, q \in Questions :
          (db.sessions[s].sheet = NoSheet) = (db.records[s][q].status = "none")
    /\ \A s \in Sessions :
          (db.sessions[s].sheet = NoSheet) = (db.sessions[s].status \in {"none", "created"})
    /\ \A j \in Jobs : jobs[j].at # "idle" => db.sessions[jobs[j].session].sheet # NoSheet
    /\ \A j \in Jobs : jobs[j].at = "scoring" =>
          \A q \in Questions : jobs[j].view.records[jobs[j].session][q].status # "none"

\* What a job in scoring leaves in the tables, by its three ends.
Ends(j, s, view) ==
    \/ db' = Failed(db, view, s)
    \/ \E scored \in SUBSET ToScore(view, s) : \E grades \in [scored -> Grades] :
         /\ scored # ToScore(view, s)
         /\ Sets(s, [db.sessions[s] EXCEPT !.status = "pending_scoring"],
                 SavedRows(view, s, grades))
         /\ Keeps
    \/ \E grades \in [ToScore(view, s) -> Grades], update \in BOOLEAN :
         Result(s, view, grades, update)

LEMMA JobEnds ==
  ASSUME TypeInv, NEW j \in Jobs, Save(j) \/ Fail(j)
  PROVE  /\ jobs[j].at = "scoring" /\ jobs' = [jobs EXCEPT ![j] = Idle]
         /\ overtaken' = overtaken
         /\ \E s \in Sessions, view \in Tables :
              s = jobs[j].session /\ view = jobs[j].view /\ Ends(j, s, view)
  <1>1. jobs[j].at = "scoring" /\ jobs' = [jobs EXCEPT ![j] = Idle] /\ overtaken' = overtaken
    BY DEF Save, Fail, SavePartial, SaveResult, Quit
  <1>2. PICK s \in Sessions, view \in Tables : s = jobs[j].session /\ view = jobs[j].view
    BY <1>1, JobFacts
  <1>3. db \in Tables
    BY DEF TypeInv
  <1>4. CASE Fail(j)
    BY <1>1, <1>2, <1>4 DEF Fail, Ends
  <1>5. ASSUME NEW scored \in SUBSET ToScore(view, s), NEW grades \in [scored -> Grades],
               SavePartial(j, grades)
        PROVE  Ends(j, s, view)
    <2>1. scored # ToScore(view, s)
      BY <1>2, <1>5 DEF SavePartial
    <2>2. /\ Sets(s, [db.sessions[s] EXCEPT !.status = "pending_scoring"],
                  SavedRows(view, s, grades))
          /\ Keeps
      BY <1>2, <1>3, <1>5, PartialEffect
    <2> QED BY <2>1, <2>2 DEF Ends
  <1>6. ASSUME NEW scored \in SUBSET ToScore(view, s), NEW grades \in [scored -> Grades],
               NEW update \in BOOLEAN, SaveResult(j, grades, update)
        PROVE  Ends(j, s, view)
    <2>1. grades \in [ToScore(view, s) -> Grades]
      BY <1>2, <1>6 DEF SaveResult
    <2> QED BY <1>1, <1>2, <1>6, <2>1, ResultEffect DEF Ends
  <1> QED BY <1>1, <1>2, <1>4, <1>5, <1>6 DEF Save

\* No end of a job changes the sheet, reopens the session or removes a row.
LEMMA EndedSession ==
  ASSUME TypeInv, SheetInv, NEW j \in Jobs, jobs[j].at = "scoring", NEW s \in Sessions,
         NEW view \in Tables, s = jobs[j].session, view = jobs[j].view, Ends(j, s, view)
  PROVE  \E x \in Session, R \in [Questions -> Answer] :
           /\ Sets(s, x, R)
           /\ x.sheet = db.sessions[s].sheet
           /\ x.status \in {"failed", "pending_scoring", "scored"}
           /\ \A q \in Questions : R[q].status # "none"
  <1>1. /\ db \in Tables /\ db.sessions[s] \in Session
        /\ db.records[s] \in [Questions -> Answer] /\ view.records[s] \in [Questions -> Answer]
    BY SessionFields DEF TypeInv, Tables
  <1>2. \A q \in Questions : db.records[s][q].status # "none" /\ view.records[s][q].status # "none"
    BY DEF SheetInv
  <1>3. ASSUME NEW scored \in SUBSET ToScore(view, s), NEW grades \in [scored -> Grades]
        PROVE  /\ SavedRows(view, s, grades) \in [Questions -> Answer]
               /\ \A q \in Questions : SavedRows(view, s, grades)[q].status # "none"
    <2>1. ASSUME NEW q \in Questions
          PROVE  /\ Scored(view, s, grades)[q] \in Answer
                 /\ Scored(view, s, grades)[q].status # "none"
      <3>1. q \in Choices \/ view.records[s][q].status = "scored" \/ q \in ToScore(view, s)
        BY DEF Questions, ToScore
      <3>2. Scored(view, s, grades)[q] \in Answer
        BY ScoredRow
      <3>3. q \in Choices => Scored(view, s, grades)[q].status = view.records[s][q].status
        BY ScoredRow
      <3>4. q \notin Choices => \/ Scored(view, s, grades)[q] = view.records[s][q]
                               \/ Scored(view, s, grades)[q].status \in {"scored", "pending_scoring"}
        BY <3>1, ScoredRow
      <3> QED BY <1>2, <3>2, <3>3, <3>4
    <2>2. ASSUME NEW r \in Answer, NEW seen \in Answer, NEW new \in Answer,
                 r.status # "none", new.status # "none"
          PROVE  Written(r, seen, new).status # "none"
      BY <2>2 DEF Written, Answer
    <2>3. ASSUME NEW q \in Questions
          PROVE  SavedRows(view, s, grades)[q].status # "none"
      <3>1. SavedRows(view, s, grades)[q] =
              Written(db.records[s][q], view.records[s][q], Scored(view, s, grades)[q])
        BY DEF SavedRows
      <3>2. db.records[s][q] \in Answer /\ view.records[s][q] \in Answer
        BY <1>1
      <3> HIDE DEF SavedRows
      <3> QED BY <1>2, <2>1, <2>2, <3>1, <3>2
    <2> QED BY <1>1, <2>3, SavedRowsFacts
  <1>4. CASE db' = Failed(db, view, s)
    <2>1. PICK st \in {"failed", "pending_scoring"} :
            Sets(s, [db.sessions[s] EXCEPT !.status = st], db.records[s])
      BY <1>1, <1>4, FailEffect
    <2> DEFINE x == [db.sessions[s] EXCEPT !.status = st]
    <2>2. x.sheet = db.sessions[s].sheet /\ x.status = st
      BY <1>1 DEF Session
    <2>3. x \in Session
      BY <2>1 DEF Sets
    <2> HIDE DEF x
    <2>4. Sets(s, x, db.records[s])
      BY <2>1 DEF x
    <2> QED BY <1>1, <1>2, <2>2, <2>3, <2>4
  <1>5. ASSUME NEW scored \in SUBSET ToScore(view, s), NEW grades \in [scored -> Grades],
               NEW x \in Session, x.status \in {"pending_scoring", "scored"},
               x.sheet = db.sessions[s].sheet, Sets(s, x, SavedRows(view, s, grades))
        PROVE  \E y \in Session, R \in [Questions -> Answer] :
                 /\ Sets(s, y, R)
                 /\ y.sheet = db.sessions[s].sheet
                 /\ y.status \in {"failed", "pending_scoring", "scored"}
                 /\ \A q \in Questions : R[q].status # "none"
    BY <1>3, <1>5
  <1>6. \A P \in Nat : /\ [db.sessions[s] EXCEPT !.status = "scored", !.profile = P].sheet =
                            db.sessions[s].sheet
                       /\ [db.sessions[s] EXCEPT !.status = "scored", !.profile = P].status =
                            "scored"
    BY <1>1 DEF Session
  <1>7. /\ [db.sessions[s] EXCEPT !.status = "pending_scoring"].sheet = db.sessions[s].sheet
        /\ [db.sessions[s] EXCEPT !.status = "pending_scoring"].status = "pending_scoring"
    BY <1>1 DEF Session
  <1>8. ASSUME NEW scored \in SUBSET ToScore(view, s), NEW grades \in [scored -> Grades],
               Sets(s, [db.sessions[s] EXCEPT !.status = "pending_scoring"],
                    SavedRows(view, s, grades))
        PROVE  \E y \in Session, R \in [Questions -> Answer] :
                 /\ Sets(s, y, R)
                 /\ y.sheet = db.sessions[s].sheet
                 /\ y.status \in {"failed", "pending_scoring", "scored"}
                 /\ \A q \in Questions : R[q].status # "none"
    BY <1>5, <1>7, <1>8 DEF Sets
  <1>9. ASSUME NEW grades \in [ToScore(view, s) -> Grades], NEW update \in BOOLEAN,
               Result(s, view, grades, update)
        PROVE  \E y \in Session, R \in [Questions -> Answer] :
                 /\ Sets(s, y, R)
                 /\ y.sheet = db.sessions[s].sheet
                 /\ y.status \in {"failed", "pending_scoring", "scored"}
                 /\ \A q \in Questions : R[q].status # "none"
    <2>1. PICK P \in Nat : Sets(s, [db.sessions[s] EXCEPT !.status = "scored", !.profile = P],
                                SavedRows(view, s, grades))
      BY <1>9 DEF Result
    <2> QED BY <1>5, <1>6, <2>1 DEF Sets
  <1> QED BY <1>4, <1>8, <1>9 DEF Ends

LEMMA SheetStep ==
  ASSUME TypeInv, SheetInv, [Next]_vars
  PROVE  SheetInv'
  <1>0. db \in Tables /\ jobs \in [Jobs -> Job]
    BY DEF TypeInv
  \* Enough for a step that writes the row x and the answers R of s.
  <1>1. ASSUME NEW s \in Sessions, NEW x \in Session, NEW R \in [Questions -> Answer],
               Sets(s, x, R),
               \A q \in Questions : (x.sheet = NoSheet) = (R[q].status = "none"),
               (x.sheet = NoSheet) = (x.status \in {"none", "created"}),
               db.sessions[s].sheet # NoSheet => x.sheet # NoSheet,
               \A j \in Jobs : jobs'[j].at # "idle" =>
                 \/ jobs'[j] = jobs[j]
                 \/ jobs'[j] = Queued(s) /\ x.sheet # NoSheet
        PROVE  SheetInv'
    <2>1. /\ \A u \in Sessions : u # s => /\ db'.sessions[u] = db.sessions[u]
                                          /\ db'.records[u] = db.records[u]
          /\ db'.sessions[s] = x /\ db'.records[s] = R
      BY <1>0, <1>1 DEF Sets, Tables
    <2>2. /\ \A u \in Sessions, q \in Questions :
               (db'.sessions[u].sheet = NoSheet) = (db'.records[u][q].status = "none")
          /\ \A u \in Sessions :
               (db'.sessions[u].sheet = NoSheet) =
                 (db'.sessions[u].status \in {"none", "created"})
      BY <1>1, <2>1 DEF SheetInv
    <2>3. \A u \in Sessions : db.sessions[u].sheet # NoSheet => db'.sessions[u].sheet # NoSheet
      BY <1>1, <2>1
    <2>4. \A j \in Jobs : jobs'[j].at # "idle" => db'.sessions[jobs'[j].session].sheet # NoSheet
      <3>1. \A j \in Jobs : jobs[j].at # "idle" => jobs[j].session \in Sessions
        BY JobFacts
      <3>2. Queued(s).session = s
        BY DEF Queued
      <3> QED BY <1>1, <2>1, <2>3, <3>1, <3>2 DEF SheetInv
    <2>5. \A j \in Jobs : jobs'[j].at = "scoring" =>
            \A q \in Questions : jobs'[j].view.records[jobs'[j].session][q].status # "none"
      <3>1. Queued(s).at = "queued"
        BY DEF Queued
      <3> QED BY <1>1, <3>1 DEF SheetInv
    <2> QED BY <2>2, <2>4, <2>5 DEF SheetInv
  <1>2. ASSUME NEW s \in Sessions, Create(s) \/ Expire(s)
        PROVE  SheetInv'
    <2>1. db.sessions[s] \in Session /\ db.records[s] \in [Questions -> Answer]
      BY <1>0, SessionFields
    <2>2. PICK x \in Session : /\ Sets(s, x, db.records[s])
                               /\ x.sheet = db.sessions[s].sheet
                               /\ \/ x.status = db.sessions[s].status
                                  \/ x.status = "created" /\ db.sessions[s].status = "none"
      <3>1. CASE Create(s)
        <4> DEFINE x == [db.sessions[s] EXCEPT !.status = "created"]
        <4>1. Sets(s, x, db.records[s])
          BY <1>0, <3>1, CreateEffect
        <4>2. x.sheet = db.sessions[s].sheet /\ x.status = "created"
          BY <2>1 DEF Session
        <4> HIDE DEF x
        <4> QED BY <3>1, <4>1, <4>2 DEF Sets, Create
      <3>2. CASE Expire(s)
        <4> DEFINE x == [db.sessions[s] EXCEPT !.expired = TRUE]
        <4>1. Sets(s, x, db.records[s])
          BY <1>0, <3>2, ExpireEffect
        <4>2. x.sheet = db.sessions[s].sheet /\ x.status = db.sessions[s].status
          BY <2>1 DEF Session
        <4> HIDE DEF x
        <4> QED BY <3>2, <4>1, <4>2 DEF Sets
      <3> QED BY <1>2, <3>1, <3>2
    <2>3. UNCHANGED jobs
      BY <1>2 DEF Create, Expire
    <2> QED BY <1>1, <2>1, <2>2, <2>3 DEF SheetInv
  <1>3. ASSUME NEW s \in Sessions, Claims(s)
        PROVE  SheetInv'
    <2>1. PICK session \in Session, R \in [Questions -> Answer] :
            /\ session.sheet # NoSheet
            /\ \A q \in Questions : R[q].status # "none"
            /\ Claim(s, session, R)
      BY <1>3 DEF Claims
    <2> DEFINE x == [session EXCEPT !.status = "scoring", !.expired = FALSE]
    <2>2. x.sheet = session.sheet /\ x.status = "scoring" /\ x \in Session
      BY DEF Session
    <2>3. Sets(s, x, R)
      BY <1>0, <2>1, ClaimEffect
    <2>4. PICK j \in Jobs : jobs' = [jobs EXCEPT ![j] = Queued(s)]
      BY <2>1, ClaimedJobs
    <2> HIDE DEF x
    <2>5. \A i \in Jobs : jobs'[i] = jobs[i] \/ jobs'[i] = Queued(s)
      BY <1>0, <2>4
    <2> QED BY <1>1, <2>1, <2>2, <2>3, <2>5
  <1>4. ASSUME NEW j \in Jobs, Start(j)
        PROVE  SheetInv'
    <2>1. UNCHANGED db /\ jobs[j].session \in Sessions /\ jobs[j].at = "queued"
      BY <1>4, JobFacts DEF Start
    <2>2. \A i \in Jobs : i # j => jobs'[i] = jobs[i]
      BY <1>0, <1>4 DEF Start, Quit
    <2>3. \/ jobs'[j].at = "idle"
          \/ jobs'[j].at = "scoring" /\ jobs'[j].session = jobs[j].session /\ jobs'[j].view = db
      BY <1>0, <1>4 DEF Start, Quit, Idle
    <2>4. db.sessions[jobs[j].session].sheet # NoSheet
      BY <2>1 DEF SheetInv
    <2>5. \A q \in Questions : db.records[jobs[j].session][q].status # "none"
      BY <2>1, <2>4 DEF SheetInv
    <2> QED BY <2>1, <2>2, <2>3, <2>4, <2>5 DEF SheetInv
  <1>5. ASSUME NEW j \in Jobs, Save(j) \/ Fail(j)
        PROVE  SheetInv'
    <2>1. jobs[j].at = "scoring" /\ jobs' = [jobs EXCEPT ![j] = Idle]
      BY <1>5, JobEnds
    <2>2. PICK s \in Sessions, view \in Tables :
            s = jobs[j].session /\ view = jobs[j].view /\ Ends(j, s, view)
      BY <1>5, JobEnds
    <2>3. PICK x \in Session, R \in [Questions -> Answer] :
            /\ Sets(s, x, R)
            /\ x.sheet = db.sessions[s].sheet
            /\ x.status \in {"failed", "pending_scoring", "scored"}
            /\ \A q \in Questions : R[q].status # "none"
      BY <2>1, <2>2, EndedSession
    <2>4. db.sessions[s].sheet # NoSheet
      BY <2>1, <2>2 DEF SheetInv
    <2>5. \A i \in Jobs : jobs'[i].at # "idle" => jobs'[i] = jobs[i]
      BY <1>0, <2>1 DEF Idle
    <2> QED BY <1>1, <2>3, <2>4, <2>5
  <1>6. ASSUME NEW q \in Questions, Disable(q)
        PROVE  SheetInv'
    <2>1. db'.sessions = db.sessions /\ db'.records = db.records /\ jobs' = jobs
      BY <1>0, <1>6, DisableEffect DEF Disable
    <2> QED BY <2>1 DEF SheetInv
  <1>7. CASE Crash
    <2>1. UNCHANGED db /\ \A j \in Jobs : jobs'[j].at = "idle"
      BY <1>7 DEF Crash, Idle
    <2> QED BY <2>1 DEF SheetInv
  <1>8. CASE UNCHANGED vars
    BY <1>8 DEF vars, SheetInv
  <1> QED BY <1>0, <1>2, <1>3, <1>4, <1>5, <1>6, <1>7, <1>8, ClaimSteps DEF Next, SheetInv

-----------------------------------------------------------------------------
(* One session                                                             *)

On(j, s) == jobs[j].at # "idle" /\ jobs[j].session = s

Mine(s) == {i \in DOMAIN db.profiles : db.profiles[i].by = {s}}

SessionInv(s) ==
    /\ \A i, j \in Jobs : On(i, s) /\ On(j, s) => i = j
    /\ \A j \in Jobs : On(j, s) => db.sessions[s].status = "scoring"
    /\ \A j \in Jobs : On(j, s) /\ jobs[j].at = "scoring" =>
          jobs[j].view.records[s] = db.records[s]
    /\ Shorts # {} /\ db.sessions[s].status \in {"scoring", "pending_scoring", "failed"} =>
          HasPending(db, s)
    /\ Mine(s) # {} => db.sessions[s].status = "scored" /\ db.sessions[s].profile \in Mine(s)
    /\ \A i, k \in Mine(s) : i = k
    /\ \A q \in Questions : db.records[s][q].right =>
          IF q \in Choices THEN q \in Right ELSE db.records[s][q].status = "scored"
    /\ db.sessions[s].status = "scored" =>
          \A q \in Questions : db.records[s][q].right \/ <<s, q>> \in DOMAIN db.mistakes

IInv ==
    /\ TypeInv
    /\ SheetInv
    /\ \A s \in Sessions \ overtaken : SessionInv(s)

\* A step that leaves the session, its answers, its profiles and its mistakes alone
\* and gives it no job.
Untouched(s) ==
    /\ db'.sessions[s].status = db.sessions[s].status
    /\ db'.sessions[s].profile = db.sessions[s].profile
    /\ db'.records[s] = db.records[s]
    /\ \A j \in Jobs : On(j, s)' => jobs'[j] = jobs[j]
    /\ Mine(s)' = Mine(s)
    /\ DOMAIN db.mistakes \subseteq DOMAIN db'.mistakes

LEMMA UntouchedSession ==
  ASSUME NEW s \in Sessions, SessionInv(s), Untouched(s)
  PROVE  SessionInv(s)'
  <1>1. \A j \in Jobs : On(j, s)' => On(j, s) /\ jobs'[j] = jobs[j]
    BY DEF Untouched, On
  <1>2. (\A i, j \in Jobs : On(i, s) /\ On(j, s) => i = j)'
    BY <1>1 DEF SessionInv
  <1>3. (\A j \in Jobs : On(j, s) => db.sessions[s].status = "scoring")'
    BY <1>1 DEF SessionInv, Untouched
  <1>4. (\A j \in Jobs : On(j, s) /\ jobs[j].at = "scoring" =>
           jobs[j].view.records[s] = db.records[s])'
    BY <1>1 DEF SessionInv, Untouched
  <1>5. HasPending(db, s)' = HasPending(db, s)
    BY DEF Untouched, HasPending
  <1>6. (/\ Shorts # {} /\ db.sessions[s].status \in {"scoring", "pending_scoring", "failed"} =>
              HasPending(db, s)
         /\ Mine(s) # {} => db.sessions[s].status = "scored" /\ db.sessions[s].profile \in Mine(s)
         /\ \A i, k \in Mine(s) : i = k)'
    BY <1>5 DEF SessionInv, Untouched
  <1>7. (/\ \A q \in Questions : db.records[s][q].right =>
              IF q \in Choices THEN q \in Right ELSE db.records[s][q].status = "scored"
         /\ db.sessions[s].status = "scored" =>
              \A q \in Questions : db.records[s][q].right \/ <<s, q>> \in DOMAIN db.mistakes)'
    BY DEF SessionInv, Untouched
  <1> QED BY <1>2, <1>3, <1>4, <1>6, <1>7 DEF SessionInv

LEMMA SameProfiles ==
  ASSUME NEW s \in Sessions, db'.profiles = db.profiles
  PROVE  Mine(s)' = Mine(s)
  BY DEF Mine

\* The claim of a session whose job is gone.
LEMMA ClaimedSession ==
  ASSUME TypeInv, SheetInv, NEW s \in Sessions, SessionInv(s), Claims(s), s \notin overtaken'
  PROVE  SessionInv(s)'
  <1>0. /\ db \in Tables /\ jobs \in [Jobs -> Job]
        /\ db.sessions[s] \in Session /\ db.records[s] \in [Questions -> Answer]
    BY SessionFields DEF TypeInv
  <1>1. PICK session \in Session, R \in [Questions -> Answer] :
          /\ session.expired = db.sessions[s].expired
          /\ session.profile = db.sessions[s].profile
          /\ session.sheet # NoSheet
          /\ \A q \in Questions :
               IF db.records[s][q].status # "none" THEN R[q] = db.records[s][q]
               ELSE /\ R[q].status # "none" /\ ~R[q].right
                    /\ q \in Shorts => R[q].status = "pending"
          /\ Claim(s, session, R)
    BY DEF Claims
  <1> DEFINE x == [session EXCEPT !.status = "scoring", !.expired = FALSE]
  <1>2. x.status = "scoring" /\ x.profile = session.profile
    BY DEF Session
  <1>3. /\ Sets(s, x, R) /\ Keeps
    BY <1>0, <1>1, ClaimEffect
  <1> HIDE DEF x
  <1>4. db'.sessions[s] = x /\ db'.records[s] = R
    BY <1>0, <1>3 DEF Sets, Tables
  <1>5. PICK j \in Jobs : jobs[j].at = "idle" /\ jobs' = [jobs EXCEPT ![j] = Queued(s)]
    BY <1>1, ClaimedJobs
  <1>6. ~Alive(s)
    <2>1. SUFFICES ASSUME Alive(s)
                   PROVE  FALSE
      OBVIOUS
    <2>2. db.sessions[s].status = "scoring"
      BY <2>1 DEF Alive, SessionInv, On
    <2>3. session.expired
      BY <1>1, <2>2 DEF Claims, Claimable
    <2> QED BY <1>1, <2>1, <2>3, ClaimedJobs
  <1>7. \A i \in Jobs : On(i, s)' => i = j
    BY <1>0, <1>5, <1>6 DEF On, Alive
  <1>8. jobs'[j].at = "queued"
    BY <1>0, <1>5 DEF Queued
  <1>9. db.sessions[s].status # "scored"
    BY DEF Claims, Claimable
  <1>10. Mine(s) = {} /\ Mine(s)' = {}
    BY <1>3, <1>9, SameProfiles DEF SessionInv, Keeps
  <1>11. Shorts # {} => HasPending(db, s)'
    <2>1. SUFFICES ASSUME Shorts # {}
                   PROVE  \E q \in Shorts : R[q].status \in {"pending", "pending_scoring"}
      BY <1>4 DEF HasPending
    <2>2. CASE db.sessions[s].sheet = NoSheet
      <3>1. \A q \in Questions : db.records[s][q].status = "none"
        BY <2>2 DEF SheetInv
      <3> QED BY <1>1, <2>1, <3>1 DEF Questions
    <2>3. CASE db.sessions[s].sheet # NoSheet
      <3>1. db.sessions[s].status \in {"scoring", "pending_scoring", "failed"}
        BY <1>0, <1>9, <2>3 DEF SheetInv, Session
      <3>2. PICK q \in Shorts : db.records[s][q].status \in {"pending", "pending_scoring"}
        BY <2>1, <3>1 DEF SessionInv, HasPending
      <3>3. R[q] = db.records[s][q]
        BY <1>1, <3>2 DEF Questions
      <3> QED BY <3>2, <3>3
    <2> QED BY <2>2, <2>3
  <1>12. \A q \in Questions : R[q].right =>
           IF q \in Choices THEN q \in Right ELSE R[q].status = "scored"
    BY <1>1 DEF SessionInv
  <1>13. (/\ \A i, k \in Jobs : On(i, s) /\ On(k, s) => i = k
          /\ \A i \in Jobs : On(i, s) => db.sessions[s].status = "scoring"
          /\ \A i \in Jobs : On(i, s) /\ jobs[i].at = "scoring" =>
               jobs[i].view.records[s] = db.records[s])'
    BY <1>2, <1>4, <1>7, <1>8
  <1> QED BY <1>2, <1>4, <1>10, <1>11, <1>12, <1>13 DEF SessionInv

\* What the rows of a scored session say.
RightRows(s) ==
    \A q \in Questions : db.records[s][q].right =>
        IF q \in Choices THEN q \in Right ELSE db.records[s][q].status = "scored"

\* The end of the job of a session that has no other.
LEMMA EndedJob ==
  ASSUME TypeInv, SheetInv, NEW j \in Jobs, jobs[j].at = "scoring", NEW s \in Sessions,
         NEW view \in Tables, s = jobs[j].session, view = jobs[j].view, SessionInv(s),
         jobs' = [jobs EXCEPT ![j] = Idle], Ends(j, s, view)
  PROVE  SessionInv(s)'
  <1>0. /\ db \in Tables /\ jobs \in [Jobs -> Job]
        /\ db.sessions[s] \in Session /\ db.records[s] \in [Questions -> Answer]
    BY SessionFields DEF TypeInv
  <1>1. /\ On(j, s)
        /\ db.sessions[s].status = "scoring"
        /\ view.records[s] = db.records[s]
        /\ Mine(s) = {}
        /\ Shorts # {} => HasPending(db, s)
        /\ RightRows(s)
    BY DEF SessionInv, On, RightRows
  <1>2. \A i \in Jobs : ~On(i, s)'
    BY <1>0, <1>1 DEF SessionInv, On, Idle
  <1>3. \A q \in Questions : view.records[s][q].status # "none"
    BY DEF SheetInv
  \* Enough for an end that does not score the session.
  <1>4. ASSUME NEW x \in Session, NEW R \in [Questions -> Answer], Sets(s, x, R), Keeps,
               x.status \in {"failed", "pending_scoring"},
               Shorts # {} => \E q \in Shorts : R[q].status \in {"pending", "pending_scoring"},
               \A q \in Questions : R[q].right =>
                 IF q \in Choices THEN q \in Right ELSE R[q].status = "scored"
        PROVE  SessionInv(s)'
    <2>1. db'.sessions[s] = x /\ db'.records[s] = R
      BY <1>0, <1>4 DEF Sets, Tables
    <2>2. Mine(s)' = {}
      BY <1>1, <1>4, SameProfiles DEF Keeps
    <2>3. Shorts # {} => HasPending(db, s)'
      BY <1>4, <2>1 DEF HasPending
    <2> QED BY <1>2, <1>4, <2>1, <2>2, <2>3 DEF SessionInv
  <1>5. CASE db' = Failed(db, view, s)
    <2>1. PICK st \in {"failed", "pending_scoring"} :
            Sets(s, [db.sessions[s] EXCEPT !.status = st], db.records[s])
      BY <1>0, <1>5, FailEffect
    <2> DEFINE x == [db.sessions[s] EXCEPT !.status = st]
    <2>2. x.status = st /\ x \in Session
      BY <1>0 DEF Session
    <2>3. Keeps /\ Sets(s, x, db.records[s])
      BY <1>0, <1>5, <2>1, FailEffect
    <2> HIDE DEF x
    <2>4. Shorts # {} =>
            \E q \in Shorts : db.records[s][q].status \in {"pending", "pending_scoring"}
      BY <1>1 DEF HasPending
    <2> QED BY <1>0, <1>1, <1>4, <2>2, <2>3, <2>4 DEF RightRows
  <1>6. ASSUME NEW scored \in SUBSET ToScore(view, s), NEW grades \in [scored -> Grades]
        PROVE  /\ SavedRows(view, s, grades) = Scored(view, s, grades)
               /\ Scored(view, s, grades) \in [Questions -> Answer]
               /\ \A q \in Questions : Scored(view, s, grades)[q].right =>
                    IF q \in Choices THEN q \in Right
                    ELSE Scored(view, s, grades)[q].status = "scored"
    <2> DEFINE new == Scored(view, s, grades)
    <2>1. ScoredAs(view, s, scored, new) /\ new \in [Questions -> Answer]
      BY ScoredFacts, ScoredRows
    <2>2. SavedRows(view, s, grades) = new
      <3>1. view.records[s] = db.records[s] => SavedRows(view, s, grades) = Scored(view, s, grades)
        BY <1>0, SavedRowsFacts
      <3> QED BY <1>1, <3>1
    <2> HIDE DEF new
    <2>3. ASSUME NEW q \in Questions, new[q].right
          PROVE  IF q \in Choices THEN q \in Right ELSE new[q].status = "scored"
      <3>1. CASE q \in Choices
        BY <2>1, <2>3, <3>1 DEF ScoredAs
      <3>2. CASE q \notin Choices /\ view.records[s][q].status = "scored"
        BY <2>1, <3>2 DEF ScoredAs
      <3>3. CASE q \notin Choices /\ q \in scored
        BY <2>1, <3>3 DEF ScoredAs
      <3>4. CASE q \notin Choices /\ q \in ToScore(view, s) /\ q \notin scored
        <4>1. view.records[s][q].right
          BY <2>1, <2>3, <3>4 DEF ScoredAs
        <4>2. view.records[s][q].status = "scored"
          BY <1>1, <3>4, <4>1 DEF RightRows
        <4> QED BY <3>4, <4>2 DEF ToScore
      <3> QED BY <3>1, <3>2, <3>3, <3>4 DEF Questions, ToScore
    <2> QED BY <2>1, <2>2, <2>3 DEF new
  <1>7. ASSUME NEW scored \in SUBSET ToScore(view, s), NEW grades \in [scored -> Grades],
               scored # ToScore(view, s), Keeps,
               Sets(s, [db.sessions[s] EXCEPT !.status = "pending_scoring"],
                    SavedRows(view, s, grades))
        PROVE  SessionInv(s)'
    <2> DEFINE x == [db.sessions[s] EXCEPT !.status = "pending_scoring"]
    <2>1. x.status = "pending_scoring" /\ x \in Session
      BY <1>0 DEF Session
    <2>2. Sets(s, x, Scored(view, s, grades))
      BY <1>6, <1>7
    <2> HIDE DEF x
    <2>3. PICK q \in ToScore(view, s) : q \notin scored
      BY <1>7
    <2>4. q \in Shorts /\ q \in Questions /\ q \notin Choices
      BY QuestionsAssumption DEF ToScore, Questions
    <2> DEFINE R == Scored(view, s, grades)
    <2>8. ScoredAs(view, s, scored, R)
      BY <1>7, ScoredFacts
    <2>5. R[q].status = "pending_scoring"
      <3> HIDE DEF R
      <3> QED BY <2>3, <2>4, <2>8 DEF ScoredAs
    <2>6. /\ R \in [Questions -> Answer]
          /\ \A p \in Questions : R[p].right =>
               IF p \in Choices THEN p \in Right ELSE R[p].status = "scored"
      BY <1>6, <1>7
    <2>7. \E p \in Shorts : R[p].status \in {"pending", "pending_scoring"}
      BY <2>4, <2>5
    <2> HIDE DEF R
    <2> QED BY <1>4, <1>7, <2>1, <2>2, <2>6, <2>7 DEF R
  <1>8. ASSUME NEW grades \in [ToScore(view, s) -> Grades], NEW update \in BOOLEAN,
               Result(s, view, grades, update)
        PROVE  SessionInv(s)'
    <2>1. PICK P \in Nat :
            /\ Sets(s, [db.sessions[s] EXCEPT !.status = "scored", !.profile = P],
                    SavedRows(view, s, grades))
            /\ update => db'.profiles = WithProfile(db, view, s) /\ P = Len(db.profiles) + 1
            /\ ~update => db'.profiles = db.profiles
      BY <1>8 DEF Result
    <2> DEFINE x == [db.sessions[s] EXCEPT !.status = "scored", !.profile = P]
               R == Scored(view, s, grades)
    <2>2. x.status = "scored" /\ x.profile = P
      BY <1>0 DEF Session
    <2>3. Sets(s, x, R)
      BY <1>6, <2>1
    <2>0. ScoredAs(view, s, ToScore(view, s), R)
      BY <1>8, ScoredFacts
    <2> HIDE DEF x, R
    <2>4. db'.sessions[s] = x /\ db'.records[s] = R
      BY <1>0, <2>3 DEF Sets, Tables
    <2>7. /\ Mine(s)' # {} => x.profile \in Mine(s)'
          /\ \A i, k \in Mine(s)' : i = k
      <3>1. CASE update
        <4>1. Mine(s)' = {Len(db.profiles) + 1}
          <5> DEFINE n == Len(db.profiles)
          <5>1. /\ DOMAIN db'.profiles = 1 .. n + 1 /\ DOMAIN db.profiles = 1 .. n /\ n \in Nat
                /\ db'.profiles[n + 1].by = {s}
                /\ \A i \in 1 .. n : db'.profiles[i].by = db.profiles[i].by
            BY <1>0, <2>1, <3>1, ProfileAdded
          <5>2. \A i \in 1 .. n : db.profiles[i].by # {s}
            BY <1>1, <5>1 DEF Mine
          <5> HIDE DEF n
          <5> QED BY <5>1, <5>2 DEF Mine, n
        <4> QED BY <2>1, <2>2, <3>1, <4>1
      <3>2. CASE ~update
        BY <1>1, <2>1, <3>2, SameProfiles
      <3> QED BY <3>1, <3>2
    <2>8. ASSUME NEW q \in Questions, ~R[q].right
          PROVE  <<s, q>> \in DOMAIN db'.mistakes
      <3>1. SUFFICES <<s, q>> \in Wrong(view, s, grades, update)
        BY <1>8 DEF Result
      <3>2. CASE update
        <4>1. R[q].status # "none"
          <5>1. q \in Choices => R[q].status = view.records[s][q].status
            BY <2>0 DEF ScoredAs
          <5>2. q \notin Choices => \/ R[q] = view.records[s][q]
                                    \/ R[q].status = "scored"
            BY <2>0 DEF ScoredAs, Questions, ToScore
          <5> QED BY <1>3, <5>1, <5>2
        <4> QED BY <2>8, <3>2, <4>1 DEF Wrong, R
      <3>3. CASE ~update
        <4>1. ~view.records[s][q].right
          <5>1. SUFFICES ASSUME view.records[s][q].right
                         PROVE  R[q].right
            BY <2>8
          <5>2. CASE q \in Choices
            <6>1. q \in Right
              BY <1>1, <5>1, <5>2 DEF RightRows
            <6> QED BY <5>2, <6>1, <2>0 DEF ScoredAs
          <5>3. CASE q \notin Choices
            <6>1. view.records[s][q].status = "scored"
              BY <1>1, <5>1, <5>3 DEF RightRows
            <6> QED BY <5>1, <5>3, <6>1, <2>0 DEF ScoredAs
          <5> QED BY <5>2, <5>3
        <4> QED BY <1>3, <3>3, <4>1 DEF Wrong
      <3> QED BY <3>2, <3>3
    <2>9. \A q \in Questions : R[q].right =>
            IF q \in Choices THEN q \in Right ELSE R[q].status = "scored"
      BY <1>6 DEF R
    <2> QED BY <1>2, <2>2, <2>4, <2>7, <2>8, <2>9 DEF SessionInv
  <1> QED BY <1>5, <1>7, <1>8 DEF Ends

-----------------------------------------------------------------------------
(* Every step                                                              *)

\* A step of session s is none of session u.
LEMMA OtherSession ==
  ASSUME TypeInv, NEW s \in Sessions, NEW u \in Sessions, u # s, SessionInv(u),
         NEW x, NEW R, Sets(s, x, R), Mine(u)' = Mine(u),
         DOMAIN db.mistakes \subseteq DOMAIN db'.mistakes,
         \A j \in Jobs : jobs'[j].at # "idle" => jobs'[j] = jobs[j] \/ jobs'[j] = Queued(s)
  PROVE  SessionInv(u)'
  <1>1. db'.sessions[u] = db.sessions[u] /\ db'.records[u] = db.records[u]
    BY DEF Sets, Tables, TypeInv
  <1>2. Queued(s).session = s
    BY DEF Queued
  <1>3. \A j \in Jobs : On(j, u)' => jobs'[j] = jobs[j]
    BY <1>2 DEF On
  <1>4. Untouched(u)
    BY <1>1, <1>3 DEF Untouched
  <1> QED BY <1>4, UntouchedSession

LEMMA OtherMine ==
  ASSUME NEW s \in Sessions, NEW u \in Sessions, u # s, db \in Tables, NEW view \in Tables,
         db'.profiles = WithProfile(db, view, s)
  PROVE  Mine(u)' = Mine(u)
  <1> DEFINE n == Len(db.profiles)
  <1>1. /\ DOMAIN db'.profiles = 1 .. n + 1 /\ DOMAIN db.profiles = 1 .. n /\ n \in Nat
        /\ db'.profiles[n + 1].by = {s}
        /\ \A i \in 1 .. n : db'.profiles[i].by = db.profiles[i].by
    BY ProfileAdded
  <1>2. {s} # {u}
    OBVIOUS
  <1> HIDE DEF n
  <1>3. \A i : i \in 1 .. n + 1 <=> i \in 1 .. n \/ i = n + 1
    BY <1>1
  <1>4. Mine(u)' \subseteq Mine(u)
    BY <1>1, <1>2, <1>3 DEF Mine
  <1>5. Mine(u) \subseteq Mine(u)'
    BY <1>1, <1>3 DEF Mine
  <1> QED BY <1>4, <1>5

\* The end of a job leaves the profiles and the mistakes of the other sessions.
LEMMA EndedOthers ==
  ASSUME TypeInv, NEW j, NEW s \in Sessions, NEW u \in Sessions, u # s, NEW view \in Tables,
         Ends(j, s, view)
  PROVE  Mine(u)' = Mine(u) /\ DOMAIN db.mistakes \subseteq DOMAIN db'.mistakes
  <1>0. db \in Tables
    BY DEF TypeInv
  <1>1. CASE Keeps
    BY <1>1, SameProfiles DEF Keeps
  <1>2. CASE db' = Failed(db, view, s)
    BY <1>0, <1>1, <1>2, FailEffect
  <1>3. ASSUME NEW grades, NEW update \in BOOLEAN, Result(s, view, grades, update)
        PROVE  Mine(u)' = Mine(u) /\ DOMAIN db.mistakes \subseteq DOMAIN db'.mistakes
    <2>1. db'.profiles = WithProfile(db, view, s) \/ db'.profiles = db.profiles
      BY <1>3 DEF Result
    <2>2. Mine(u)' = Mine(u)
      BY <1>0, <2>1, OtherMine, SameProfiles
    <2>3. DOMAIN db.mistakes \subseteq DOMAIN db'.mistakes
      BY <1>3 DEF Result
    <2> QED BY <2>2, <2>3
  <1> QED BY <1>1, <1>2, <1>3 DEF Ends

LEMMA CreatedSession ==
  ASSUME TypeInv, SheetInv, NEW s \in Sessions, SessionInv(s), Create(s)
  PROVE  SessionInv(s)'
  <1>0. db \in Tables /\ db.sessions[s] \in Session
    BY SessionFields DEF TypeInv
  <1> DEFINE x == [db.sessions[s] EXCEPT !.status = "created"]
  <1>1. x.status = "created"
    BY <1>0 DEF Session
  <1>2. Sets(s, x, db.records[s]) /\ Keeps
    BY <1>0, CreateEffect
  <1> HIDE DEF x
  <1>3. db'.sessions[s] = x /\ db'.records[s] = db.records[s]
    BY <1>0, <1>2 DEF Sets, Tables
  <1>4. db.sessions[s].status = "none" /\ jobs' = jobs
    BY DEF Create
  <1>5. \A j \in Jobs : ~On(j, s)'
    BY <1>4 DEF SessionInv, On
  <1>6. Mine(s) = {} /\ Mine(s)' = {}
    BY <1>2, <1>4, SameProfiles DEF SessionInv, Keeps
  <1>7. \A q \in Questions : db'.records[s][q].right =>
          IF q \in Choices THEN q \in Right ELSE db'.records[s][q].status = "scored"
    BY <1>3 DEF SessionInv
  <1> QED BY <1>1, <1>3, <1>5, <1>6, <1>7 DEF SessionInv

LEMMA StartedSession ==
  ASSUME TypeInv, NEW s \in Sessions, SessionInv(s), NEW j \in Jobs, Start(j)
  PROVE  SessionInv(s)'
  <1>0. jobs \in [Jobs -> Job] /\ UNCHANGED db /\ jobs[j].at = "queued"
    BY DEF TypeInv, Start
  <1>1. \A i \in Jobs : i # j => jobs'[i] = jobs[i]
    BY <1>0 DEF Start, Quit
  <1>2. \/ jobs'[j].at = "idle"
        \/ jobs'[j].at = "scoring" /\ jobs'[j].session = jobs[j].session /\ jobs'[j].view = db
    BY <1>0 DEF Start, Quit, Idle
  <1>3. \A i \in Jobs : On(i, s)' => On(i, s)
    BY <1>0, <1>1, <1>2 DEF On
  <1>4. Mine(s)' = Mine(s) /\ HasPending(db, s)' = HasPending(db, s)
    BY <1>0, SameProfiles
  <1>5. (/\ \A i, k \in Jobs : On(i, s) /\ On(k, s) => i = k
         /\ \A i \in Jobs : On(i, s) => db.sessions[s].status = "scoring"
         /\ \A i \in Jobs : On(i, s) /\ jobs[i].at = "scoring" =>
              jobs[i].view.records[s] = db.records[s])'
    BY <1>0, <1>1, <1>2, <1>3 DEF SessionInv
  <1> QED BY <1>0, <1>4, <1>5 DEF SessionInv

LEMMA SessionStep ==
  ASSUME TypeInv, SheetInv, NEW u \in Sessions, u \notin overtaken', [Next]_vars,
         u \notin overtaken => SessionInv(u)
  PROVE  SessionInv(u)'
  <1>0. db \in Tables /\ jobs \in [Jobs -> Job]
    BY DEF TypeInv
  <1>1. ASSUME NEW s \in Sessions, Create(s) \/ Expire(s)
        PROVE  SessionInv(u)'
    <2>1. UNCHANGED <<jobs, overtaken>>
      BY <1>1 DEF Create, Expire
    <2>2. PICK x : Sets(s, x, db.records[s]) /\ Keeps
      BY <1>0, <1>1, CreateEffect, ExpireEffect
    <2>3. SessionInv(u) /\ Mine(u)' = Mine(u) /\ DOMAIN db.mistakes \subseteq DOMAIN db'.mistakes
      BY <2>1, <2>2, SameProfiles DEF Keeps
    <2>4. CASE u # s
      BY <2>1, <2>2, <2>3, <2>4, OtherSession
    <2>5. CASE u = s /\ Create(s)
      BY <2>3, <2>5, CreatedSession
    <2>6. CASE u = s /\ Expire(s)
      <3> DEFINE y == [db.sessions[s] EXCEPT !.expired = TRUE]
      <3>1. y.status = db.sessions[s].status /\ y.profile = db.sessions[s].profile
        BY <1>0, SessionFields DEF Session
      <3>2. Sets(s, y, db.records[s])
        BY <1>0, <2>6, ExpireEffect
      <3> HIDE DEF y
      <3>3. db'.sessions[s] = y /\ db'.records[s] = db.records[s]
        BY <1>0, <3>2 DEF Sets, Tables
      <3>4. Untouched(s)
        BY <2>1, <2>3, <2>6, <3>1, <3>3 DEF Untouched, On
      <3> QED BY <2>3, <2>6, <3>4, UntouchedSession
    <2> QED BY <1>1, <2>4, <2>5, <2>6
  <1>2. ASSUME NEW s \in Sessions, Claims(s)
        PROVE  SessionInv(u)'
    <2>1. PICK session \in Session, R \in [Questions -> Answer] : Claim(s, session, R)
      BY <1>2 DEF Claims
    <2>2. SessionInv(u)
      BY <2>1, ClaimedJobs
    <2>3. CASE u = s
      BY <1>2, <2>2, <2>3, ClaimedSession
    <2>4. CASE u # s
      <3>1. PICK x : Sets(s, x, R) /\ Keeps
        BY <1>0, <2>1, ClaimEffect
      <3>2. PICK j \in Jobs : jobs' = [jobs EXCEPT ![j] = Queued(s)]
        BY <2>1, ClaimedJobs
      <3>3. \A i \in Jobs : jobs'[i].at # "idle" => jobs'[i] = jobs[i] \/ jobs'[i] = Queued(s)
        BY <1>0, <3>2
      <3>4. Mine(u)' = Mine(u) /\ DOMAIN db.mistakes \subseteq DOMAIN db'.mistakes
        BY <3>1, SameProfiles DEF Keeps
      <3> QED BY <2>2, <2>4, <3>1, <3>3, <3>4, OtherSession
    <2> QED BY <2>3, <2>4
  <1>3. ASSUME NEW j \in Jobs, Start(j)
        PROVE  SessionInv(u)'
    BY <1>3, StartedSession DEF Start
  <1>4. ASSUME NEW j \in Jobs, Save(j) \/ Fail(j)
        PROVE  SessionInv(u)'
    <2>1. /\ jobs[j].at = "scoring" /\ jobs' = [jobs EXCEPT ![j] = Idle]
          /\ overtaken' = overtaken
      BY <1>4, JobEnds
    <2>2. PICK s \in Sessions, view \in Tables :
            s = jobs[j].session /\ view = jobs[j].view /\ Ends(j, s, view)
      BY <1>4, JobEnds
    <2>3. SessionInv(u)
      BY <2>1
    <2>4. CASE u = s
      BY <2>1, <2>2, <2>3, <2>4, EndedJob
    <2>5. CASE u # s
      <3>1. PICK x \in Session, R \in [Questions -> Answer] : Sets(s, x, R)
        BY <2>1, <2>2, EndedSession
      <3>2. Mine(u)' = Mine(u) /\ DOMAIN db.mistakes \subseteq DOMAIN db'.mistakes
        BY <2>2, <2>5, EndedOthers
      <3>3. \A i \in Jobs : jobs'[i].at # "idle" => jobs'[i] = jobs[i]
        BY <1>0, <2>1 DEF Idle
      <3> QED BY <2>3, <2>5, <3>1, <3>2, <3>3, OtherSession
    <2> QED BY <2>4, <2>5
  \* Enough for a step that leaves the sessions and starts no job.
  <1>5. ASSUME overtaken' = overtaken, db'.sessions = db.sessions, db'.records = db.records,
               db'.profiles = db.profiles, db'.mistakes = db.mistakes,
               \A j \in Jobs : jobs'[j].at # "idle" => jobs'[j] = jobs[j]
        PROVE  SessionInv(u)'
    <2>1. Untouched(u)
      BY <1>5, SameProfiles DEF Untouched, On
    <2> QED BY <1>5, <2>1, UntouchedSession
  <1>6. ASSUME NEW q \in Questions, Disable(q)
        PROVE  SessionInv(u)'
    BY <1>0, <1>5, <1>6, DisableEffect DEF Disable
  <1>7. CASE Crash
    <2>1. UNCHANGED <<db, overtaken>> /\ \A j \in Jobs : jobs'[j].at = "idle"
      BY <1>7 DEF Crash, Idle
    <2> QED BY <1>5, <2>1
  <1>8. CASE UNCHANGED vars
    BY <1>5, <1>8 DEF vars
  <1> QED BY <1>0, <1>1, <1>2, <1>3, <1>4, <1>6, <1>7, <1>8, ClaimSteps DEF Next, SheetInv

-----------------------------------------------------------------------------
(* The theorems                                                            *)

LEMMA InitTypes ==
  ASSUME Init
  PROVE  TypeInv
  <1>1. db.mistakes \in MistakeTable
    <2>1. DOMAIN <<>> = {} /\ <<>> = [r \in {} |-> "pending"]
      OBVIOUS
    <2>2. [r \in {} |-> "pending"] \in [{} -> {"pending", "verification_pending", "retired"}]
      OBVIOUS
    <2>3. db.mistakes = <<>>
      BY DEF Init
    <2>4. {} \in SUBSET (Sessions \X Questions)
      OBVIOUS
    <2> QED BY <2>1, <2>2, <2>3, <2>4, Zenon DEF MistakeTable
  <1>2. db.profiles \in Seq(Profile)
    <2>1. [by |-> {}, prev |-> 0, done |-> FALSE, path |-> "none"] \in Profile
      BY DEF Profile
    <2> QED BY <2>1 DEF Init
  <1>3. Created \in Session /\ Unanswered \in Answer
    BY DEF Created, Session, Unanswered, Answer
  <1>4. db \in Tables
    BY <1>1, <1>2, <1>3 DEF Init, Tables
  <1>5. jobs \in [Jobs -> Job] /\ overtaken \in SUBSET Sessions
    BY DEF Init, Job
  <1>6. \A j \in Jobs : jobs[j].at # "scoring"
    BY DEF Init, Idle
  <1> QED BY <1>4, <1>5, <1>6 DEF TypeInv

\* The inductive invariant of the diagnosis.
THEOREM Invariance == Spec => []IInv
  <1>1. Init => IInv
    <2> SUFFICES ASSUME Init
                 PROVE  IInv
      OBVIOUS
    <2>1. SheetInv
      BY DEF Init, SheetInv, Created, Unanswered, Idle
    <2>2. ASSUME NEW s \in Sessions
          PROVE  SessionInv(s)
      <3>1. \A j \in Jobs : ~On(j, s)
        BY DEF Init, On, Idle
      <3>2. Mine(s) = {}
        BY DEF Init, Mine
      <3>3. /\ db.sessions[s].status = "none"
            /\ \A q \in Questions : ~db.records[s][q].right
        BY DEF Init, Created, Unanswered
      <3> QED BY <3>1, <3>2, <3>3 DEF SessionInv
    <2> QED BY <2>1, <2>2, InitTypes DEF IInv
  <1>2. IInv /\ [Next]_vars => IInv'
    <2> SUFFICES ASSUME IInv, [Next]_vars
                 PROVE  IInv'
      OBVIOUS
    <2>1. TypeInv'
      BY TypeStep DEF IInv, SheetInv
    <2>2. SheetInv'
      BY SheetStep DEF IInv
    <2>3. ASSUME NEW u \in Sessions, u \notin overtaken'
          PROVE  SessionInv(u)'
      BY <2>3, SessionStep DEF IInv
    <2> QED BY <2>1, <2>2, <2>3 DEF IInv
  <1> QED BY <1>1, <1>2, PTL DEF Spec

\* A session forms one profile at most and is scored from then on
\* (submit_diagnostic_session).
THEOREM OneProfile == Spec => []ScoredOnce
  <1>1. IInv => ScoredOnce
    <2> SUFFICES ASSUME IInv, NEW s \in Sessions \ overtaken
                 PROVE  /\ Cardinality(Mine(s)) <= 1
                        /\ Mine(s) # {} => /\ db.sessions[s].status = "scored"
                                           /\ db.sessions[s].profile \in Mine(s)
      BY DEF ScoredOnce, Mine
    <2>1. SessionInv(s)
      BY DEF IInv
    <2>2. Cardinality(Mine(s)) <= 1
      <3>1. CASE Mine(s) = {}
        <4>1. Cardinality(Mine(s)) = 0
          BY <3>1, FS_EmptySet
        <4> QED BY <4>1
      <3>2. CASE Mine(s) # {}
        <4>1. PICK i : i \in Mine(s)
          BY <3>2
        <4>2. Mine(s) = {i}
          BY <2>1, <4>1 DEF SessionInv
        <4>3. Cardinality(Mine(s)) = 1
          BY <4>2, FS_Singleton
        <4> QED BY <4>3
      <3> QED BY <3>1, <3>2
    <2> QED BY <2>1, <2>2 DEF SessionInv
  <1> QED BY <1>1, Invariance, PTL

\* What _session_payload offers for a retry, retry_diagnostic_session accepts,
\* for sessions with short answers: of the others it accepts none.
THEOREM RetriesHonoured ==
  ASSUME Shorts # {}
  PROVE  Spec => []RetryHonoured
  <1>1. IInv => RetryHonoured
    <2> SUFFICES ASSUME IInv, NEW s \in Sessions \ overtaken, Offered(s)
                 PROVE  Retryable(s)
      BY DEF RetryHonoured
    <2>1. SessionInv(s) /\ SheetInv /\ s \in Sessions
      BY DEF IInv
    <2>2. db.sessions[s].status \in {"scoring", "pending_scoring", "failed"}
      BY DEF Offered
    <2>3. HasPending(db, s)
      BY <2>1, <2>2 DEF SessionInv
    <2>4. db.sessions[s].sheet # NoSheet
      BY <2>1, <2>2 DEF SheetInv
    <2>5. Claimable(db.sessions[s])
      BY DEF Offered, Claimable
    <2> QED BY <2>2, <2>3, <2>4, <2>5 DEF Retryable
  <1> QED BY <1>1, Invariance, PTL

\* Every wrong answer of a scored session is among the mistakes
\* (sync_existing_mistakes).
THEOREM MistakesKept == Spec => []NoLostMistake
  <1>1. IInv => NoLostMistake
    BY DEF IInv, SessionInv, NoLostMistake
  <1> QED BY <1>1, Invariance, PTL

LEMMA RecordsStep ==
  ASSUME IInv, [Next]_vars, NEW u \in Sessions \ overtaken, NEW q \in Shorts,
         db.records[u][q].status = "scored"
  PROVE  db'.records[u][q] = db.records[u][q]
  <1>0. /\ db \in Tables /\ q \in Questions /\ q \notin Choices /\ TypeInv /\ SheetInv
        /\ SessionInv(u) /\ u \in Sessions
    BY QuestionsAssumption DEF IInv, TypeInv, Questions
  <1>1. ASSUME NEW s \in Sessions, NEW x, NEW R, Sets(s, x, R),
               u = s => R[q] = db.records[u][q]
        PROVE  db'.records[u][q] = db.records[u][q]
    BY <1>0, <1>1 DEF Sets, Tables
  <1>2. ASSUME NEW s \in Sessions, Create(s) \/ Expire(s)
        PROVE  db'.records[u][q] = db.records[u][q]
    <2>1. PICK x : Sets(s, x, db.records[s])
      BY <1>0, <1>2, CreateEffect, ExpireEffect
    <2> QED BY <1>1, <2>1
  <1>3. ASSUME NEW s \in Sessions, Claims(s)
        PROVE  db'.records[u][q] = db.records[u][q]
    <2>1. PICK session \in Session, R \in [Questions -> Answer] :
            /\ \A p \in Questions : db.records[s][p].status # "none" => R[p] = db.records[s][p]
            /\ Claim(s, session, R)
      BY <1>3 DEF Claims
    <2>2. PICK x : Sets(s, x, R)
      BY <1>0, <2>1, ClaimEffect
    <2>3. u = s => R[q] = db.records[u][q]
      BY <1>0, <2>1
    <2> QED BY <1>1, <2>2, <2>3
  <1>4. ASSUME NEW j \in Jobs, Save(j) \/ Fail(j)
        PROVE  db'.records[u][q] = db.records[u][q]
    <2>1. jobs[j].at = "scoring"
      BY <1>0, <1>4, JobEnds
    <2>2. PICK s \in Sessions, view \in Tables :
            s = jobs[j].session /\ view = jobs[j].view /\ Ends(j, s, view)
      BY <1>0, <1>4, JobEnds
    <2>3. u = s => view.records[s] = db.records[s]
      BY <1>0, <2>1, <2>2 DEF SessionInv, On
    <2>4. ASSUME NEW scored \in SUBSET ToScore(view, s), NEW grades \in [scored -> Grades], u = s
          PROVE  SavedRows(view, s, grades)[q] = db.records[u][q]
      <3> DEFINE new == Scored(view, s, grades)
      <3>1. view.records[s] = db.records[s] => SavedRows(view, s, grades) = new
        BY <1>0, <2>4, SavedRowsFacts
      <3>2. ScoredAs(view, s, scored, new)
        BY <2>4, ScoredFacts
      <3> HIDE DEF new
      <3>3. new[q] = view.records[s][q]
        BY <1>0, <2>3, <2>4, <3>2 DEF ScoredAs
      <3> QED BY <2>3, <2>4, <3>1, <3>3
    <2>5. CASE db' = Failed(db, view, s)
      <3>1. PICK x : Sets(s, x, db.records[s])
        BY <1>0, <2>5, FailEffect
      <3> QED BY <1>1, <3>1
    <2>6. ASSUME NEW scored \in SUBSET ToScore(view, s), NEW grades \in [scored -> Grades],
                 NEW x, Sets(s, x, SavedRows(view, s, grades))
          PROVE  db'.records[u][q] = db.records[u][q]
      BY <1>1, <2>4, <2>6
    <2>7. ASSUME NEW grades \in [ToScore(view, s) -> Grades], NEW update \in BOOLEAN,
                 Result(s, view, grades, update)
          PROVE  db'.records[u][q] = db.records[u][q]
      BY <2>6, <2>7 DEF Result
    <2> QED BY <2>2, <2>5, <2>6, <2>7 DEF Ends
  <1>5. ASSUME NEW p \in Questions, Disable(p)
        PROVE  db'.records[u][q] = db.records[u][q]
    BY <1>0, <1>5, DisableEffect
  <1>6. (\E j \in Jobs : Start(j)) \/ Crash \/ UNCHANGED vars => db' = db
    BY DEF Start, Crash, vars
  <1> QED BY <1>0, <1>2, <1>3, <1>4, <1>5, <1>6, ClaimSteps DEF Next, SheetInv

\* A short answer is scored once (prepare_diagnostic_submission and the retry
\* keep the rows, score_short_answer_batch sees the others only).
THEOREM ScoresStay == Spec => ScoresKept
  <1>1. IInv /\ [Next]_vars =>
          [\A s \in Sessions, q \in Shorts :
             db.records[s][q].status = "scored" /\ s \notin overtaken
               => db'.records[s][q] = db.records[s][q]]_vars
    BY RecordsStep
  <1> QED BY <1>1, Invariance, PTL DEF Spec, ScoresKept
=============================================================================
