------------------------ MODULE LearnerProgressProofs ------------------------
(***************************************************************************)
(* What LearnerProgress keeps for any bank of questions, any catalog       *)
(* without cycles, any number of requests, tasks, checks and corrections   *)
(* and any tables to start from that are consistent: a check asks what the *)
(* learner has not met, a decision has one task that has not failed, the   *)
(* current unit comes after what it requires, the profiles are one history *)
(* that counts no answer twice, and what is completed was earned and       *)
(* stays.                                                                  *)
(*                                                                         *)
(* The first inductive invariant (IInv) says where a question of a row can *)
(* come from: quizzes, mistakes and their corrections ask questions of the *)
(* quiz bank, checks those of the check bank, and the record of a check is *)
(* the one answer to the question it asked (Whole). A request on an old    *)
(* view is right about the question of a decision, because none ever       *)
(* changes it (KeepsQuestions). Most requests change few tables: Keeps is  *)
(* what the evaluation of evidence may do to them, Holds what any request  *)
(* but the two that the properties except does.                            *)
(*                                                                         *)
(* The second (PathInv) is about the path and the profiles. A catalog      *)
(* without cycles gives an order in which everything comes after what it   *)
(* requires (StableIs), so that whatever is regrouped opens a unit whose   *)
(* requirements are done (NormalizeIs). A request that leaves the path     *)
(* alone is Aside; one that judges answers Moves the path and the          *)
(* profiles, and a unit it completes is Cleared: its gate is open. Lawful  *)
(* is what each request on the committed tables does, Steady what all do   *)
(* but an answer on an old view, which may fork the profiles (Sole) but    *)
(* still leaves the path in order (Fit).                                   *)
(***************************************************************************)
EXTENDS LearnerProgress, SequenceTheorems, FiniteSetTheorems, WellFoundedInduction, TLAPS

-----------------------------------------------------------------------------
(* Lists of rows                                                           *)

LEMMA RowsAre ==
  ASSUME NEW F, NEW x, Rows(x, F)
  PROVE  Len(x) \in Nat /\ DOMAIN x = 1..Len(x)
  <1> DEFINE n == Len(x)
  <1>1. n \in Nat /\ x = [i \in 1..n |-> x[i]]
    BY DEF Rows
  <1> HIDE DEF n
  <1>2. DOMAIN x = 1..n
    BY <1>1
  <1> QED BY <1>1, <1>2 DEF n

LEMMA RowsFrom ==
  ASSUME NEW F, NEW n \in Nat, NEW x, x = [i \in 1..n |-> x[i]], \A i \in 1..n : DOMAIN x[i] = F
  PROVE  Rows(x, F) /\ Len(x) = n /\ DOMAIN x = 1..n
  <1> DEFINE S == {x[i] : i \in 1..n}
  <1>1. DOMAIN x = 1..n
    OBVIOUS
  <1>2. x \in [1..n -> S]
    OBVIOUS
  <1>3. x \in Seq(S)
    BY <1>2, SeqDef
  <1>4. Len(x) \in Nat /\ DOMAIN x = 1..Len(x)
    BY <1>3, LenProperties
  <1>5. Len(x) = n
    BY <1>1, <1>4
  <1> QED BY <1>1, <1>5 DEF Rows

LEMMA RowsInSeq ==
  ASSUME NEW F, NEW x, Rows(x, F)
  PROVE  x \in Seq({x[i] : i \in DOMAIN x})
  <1> DEFINE S == {x[i] : i \in DOMAIN x}
  <1>1. Len(x) \in Nat /\ DOMAIN x = 1..Len(x) /\ x = [i \in 1..Len(x) |-> x[i]]
    BY RowsAre DEF Rows
  <1>2. x \in [1..Len(x) -> S]
    BY <1>1
  <1> QED BY <1>1, <1>2, SeqDef

LEMMA RowsAppend ==
  ASSUME NEW F, NEW x, Rows(x, F), NEW e, DOMAIN e = F
  PROVE  LET y == Append(x, e)
         IN /\ Rows(y, F) /\ DOMAIN y = DOMAIN x \cup {Len(x) + 1}
            /\ Len(x) + 1 \notin DOMAIN x /\ y[Len(x) + 1] = e
            /\ \A i \in DOMAIN x : y[i] = x[i]
  <1> DEFINE S == {x[i] : i \in DOMAIN x} \cup {e}
             y == Append(x, e)
             n == Len(x) + 1
  <1>1. Len(x) \in Nat /\ DOMAIN x = 1..Len(x) /\ \A i \in DOMAIN x : DOMAIN x[i] = F
    BY RowsAre DEF Rows
  <1>2. x \in Seq(S)
    <2> DEFINE T == {x[i] : i \in DOMAIN x}
    <2>1. x \in Seq(T)
      BY RowsInSeq
    <2>2. T \subseteq S
      OBVIOUS
    <2> HIDE DEF T, S
    <2> QED BY <2>1, <2>2, SeqMonotonic
  <1>3. /\ y \in Seq(S) /\ Len(y) = n /\ y[n] = e
        /\ \A i \in 1..Len(x) : y[i] = x[i]
    BY <1>2, AppendProperties
  <1> HIDE DEF y
  <1>4. y = [i \in 1..n |-> y[i]] /\ n \in Nat
    BY <1>1, <1>3, LenProperties
  <1>5. 1..n = 1..Len(x) \cup {n} /\ n \notin 1..Len(x)
    BY <1>1
  <1>6. \A i \in 1..n : DOMAIN y[i] = F
    BY <1>1, <1>3, <1>5
  <1>7. Rows(y, F) /\ DOMAIN y = 1..n
    BY <1>4, <1>6, RowsFrom
  <1> QED BY <1>1, <1>3, <1>5, <1>7 DEF y

LEMMA RowsMarked ==
  ASSUME NEW F, NEW x, Rows(x, F), NEW y, y = [i \in DOMAIN x |-> y[i]],
         \A i \in DOMAIN x : DOMAIN y[i] = F
  PROVE  Rows(y, F) /\ DOMAIN y = DOMAIN x /\ Len(y) = Len(x)
  <1>1. Len(x) \in Nat /\ DOMAIN x = 1..Len(x)
    BY RowsAre
  <1>2. y = [i \in 1..Len(x) |-> y[i]] /\ \A i \in 1..Len(x) : DOMAIN y[i] = F
    BY <1>1
  <1> QED BY <1>1, <1>2, RowsFrom

LEMMA RowsPut ==
  ASSUME NEW F, NEW x, Rows(x, F), NEW p \in DOMAIN x, NEW e, DOMAIN e = F
  PROVE  LET y == [x EXCEPT ![p] = e]
         IN /\ Rows(y, F) /\ DOMAIN y = DOMAIN x /\ y[p] = e
            /\ \A i \in DOMAIN x : i # p => y[i] = x[i]
  <1> DEFINE y == [x EXCEPT ![p] = e]
  <1>1. \A i \in DOMAIN x : DOMAIN x[i] = F
    BY DEF Rows
  <1>2. /\ y = [i \in DOMAIN x |-> y[i]] /\ y[p] = e
        /\ \A i \in DOMAIN x : i # p => y[i] = x[i]
    OBVIOUS
  <1> HIDE DEF y
  <1>3. \A i \in DOMAIN x : DOMAIN y[i] = F
    BY <1>1, <1>2
  <1>4. Rows(y, F) /\ DOMAIN y = DOMAIN x
    BY <1>2, <1>3, RowsMarked
  <1> QED BY <1>2, <1>4 DEF y

-----------------------------------------------------------------------------
(* Tables                                                                  *)

Lists == DOMAIN RowFields
Others == {"rel", "bank", "path", "profiles", "signals"}

LEMMA ListsAre == Lists = {"records", "quizzes", "mistakes", "tries", "props", "tasks"}
  BY DEF Lists, RowFields

LEMMA ListPut ==
  ASSUME NEW s, Shaped(s), NEW f \in Lists, NEW y, Rows(y, RowFields[f]), NEW t, t = [s EXCEPT ![f] = y]
  PROVE  /\ Shaped(t) /\ t[f] = y
         /\ \A g \in Lists \cup Others : g # f => t[g] = s[g]
  <1>1. DOMAIN s = Lists \cup Others
    BY DEF Shaped, Lists, Others
  <1>2. /\ DOMAIN t = Lists \cup Others /\ t[f] = y
        /\ \A g \in Lists \cup Others : g # f => t[g] = s[g]
    BY <1>1
  <1>3. \A g \in Lists : Rows(t[g], RowFields[g])
    <2>1. \A g \in Lists : Rows(s[g], RowFields[g])
      BY DEF Shaped, Lists
    <2> QED BY <1>2, <2>1
  <1>4. Shaped(t)
    BY <1>2, <1>3 DEF Shaped, Lists, Others
  <1> QED BY <1>2, <1>4

LEMMA OtherPut ==
  ASSUME NEW s, Shaped(s), NEW f \in Others, NEW y, NEW t, t = [s EXCEPT ![f] = y]
  PROVE  /\ Shaped(t) /\ t[f] = y
         /\ \A g \in Lists \cup Others : g # f => t[g] = s[g]
  <1>1. DOMAIN s = Lists \cup Others
    BY DEF Shaped, Lists, Others
  <1>2. /\ DOMAIN t = Lists \cup Others /\ t[f] = y
        /\ \A g \in Lists \cup Others : g # f => t[g] = s[g]
    BY <1>1
  <1>3. \A g \in Lists : Rows(t[g], RowFields[g])
    <2>1. \A g \in Lists : Rows(s[g], RowFields[g])
      BY DEF Shaped, Lists
    <2>2. \A g \in Lists : g # f
      BY ListsAre DEF Others
    <2> QED BY <1>2, <2>1, <2>2
  <1>4. Shaped(t)
    BY <1>2, <1>3 DEF Shaped, Lists, Others
  <1> QED BY <1>2, <1>4

LEMMA PropsPut ==
  ASSUME NEW s, Shaped(s), NEW y, Rows(y, RowFields.props), NEW t, t = [s EXCEPT !.props = y]
  PROVE  /\ Shaped(t) /\ t.props = y
         /\ \A g \in Lists \cup Others : g # "props" => t[g] = s[g]
  <1>1. "props" \in Lists
    BY ListsAre
  <1> QED BY <1>1, ListPut

LEMMA RecordsPut ==
  ASSUME NEW s, Shaped(s), NEW y, Rows(y, RowFields.records), NEW t, t = [s EXCEPT !.records = y]
  PROVE  /\ Shaped(t) /\ t.records = y
         /\ \A g \in Lists \cup Others : g # "records" => t[g] = s[g]
  <1>1. "records" \in Lists
    BY ListsAre
  <1> QED BY <1>1, ListPut

LEMMA TasksPut ==
  ASSUME NEW s, Shaped(s), NEW y, Rows(y, RowFields.tasks), NEW t, t = [s EXCEPT !.tasks = y]
  PROVE  /\ Shaped(t) /\ t.tasks = y
         /\ \A g \in Lists \cup Others : g # "tasks" => t[g] = s[g]
  <1>1. "tasks" \in Lists
    BY ListsAre
  <1> QED BY <1>1, ListPut

LEMMA ShapedRows ==
  ASSUME NEW s, Shaped(s)
  PROVE  /\ DOMAIN s = Lists \cup Others
         /\ Rows(s.records, RowFields.records) /\ Rows(s.quizzes, RowFields.quizzes)
         /\ Rows(s.mistakes, RowFields.mistakes) /\ Rows(s.tries, RowFields.tries)
         /\ Rows(s.props, RowFields.props) /\ Rows(s.tasks, RowFields.tasks)
  <1>1. DOMAIN s = Lists \cup Others /\ \A f \in Lists : Rows(s[f], RowFields[f])
    BY DEF Shaped, Lists, Others
  <1> QED BY <1>1, ListsAre

-----------------------------------------------------------------------------
(* What evidence may change                                                *)

\* It marks records and adds decisions that ask no question.
Keeps(s, t) ==
  /\ Shaped(t)
  /\ t.quizzes = s.quizzes /\ t.mistakes = s.mistakes /\ t.tries = s.tries /\ t.tasks = s.tasks
  /\ DOMAIN t.records = DOMAIN s.records
  /\ \A i \in DOMAIN s.records : /\ t.records[i].q = s.records[i].q
                                 /\ t.records[i].kind = s.records[i].kind
                                 /\ t.records[i].src = s.records[i].src
  /\ DOMAIN s.props \subseteq DOMAIN t.props
  /\ \A i \in DOMAIN s.props :
       /\ t.props[i].q = s.props[i].q /\ t.props[i].task = s.props[i].task
       /\ t.props[i].status = "pending_validation" => s.props[i].status = "pending_validation"
  /\ \A i \in DOMAIN t.props \ DOMAIN s.props : t.props[i].q = NoQuestion /\ t.props[i].task = 0

LEMMA KeepsSelf == ASSUME NEW s, Shaped(s) PROVE Keeps(s, s)
  BY DEF Keeps

LEMMA KeepsOn ==
  ASSUME NEW s, NEW t, NEW u, Keeps(s, t), Keeps(t, u)
  PROVE  Keeps(s, u)
  <1>1. /\ Shaped(u) /\ u.quizzes = s.quizzes /\ u.mistakes = s.mistakes /\ u.tries = s.tries
        /\ u.tasks = s.tasks
    BY DEF Keeps
  <1>2. /\ DOMAIN u.records = DOMAIN s.records
        /\ \A i \in DOMAIN s.records : /\ u.records[i].q = s.records[i].q
                                       /\ u.records[i].kind = s.records[i].kind
                                       /\ u.records[i].src = s.records[i].src
    BY DEF Keeps
  <1>3. /\ DOMAIN s.props \subseteq DOMAIN u.props
        /\ \A i \in DOMAIN s.props :
             /\ u.props[i].q = s.props[i].q /\ u.props[i].task = s.props[i].task
             /\ u.props[i].status = "pending_validation" => s.props[i].status = "pending_validation"
    BY DEF Keeps
  <1>4. \A i \in DOMAIN u.props \ DOMAIN s.props : u.props[i].q = NoQuestion /\ u.props[i].task = 0
    <2>1. SUFFICES ASSUME NEW i \in DOMAIN u.props, i \notin DOMAIN s.props
                   PROVE  u.props[i].q = NoQuestion /\ u.props[i].task = 0
      OBVIOUS
    <2>2. CASE i \in DOMAIN t.props
      BY <2>1, <2>2 DEF Keeps
    <2>3. CASE i \notin DOMAIN t.props
      BY <2>1, <2>3 DEF Keeps
    <2> QED BY <2>2, <2>3
  <1> QED BY <1>1, <1>2, <1>3, <1>4 DEF Keeps

\* Any other table may change at will.
LEMMA OtherKeeps ==
  ASSUME NEW s, Shaped(s), NEW f \in Others, NEW x
  PROVE  Keeps(s, [s EXCEPT ![f] = x])
  <1> DEFINE t == [s EXCEPT ![f] = x]
  <1>1. Shaped(t) /\ \A g \in Lists : g # f => t[g] = s[g]
    BY OtherPut
  <1>2. \A g \in Lists : g # f
    BY ListsAre DEF Others
  <1> HIDE DEF t
  <1>3. /\ t.records = s.records /\ t.props = s.props /\ t.quizzes = s.quizzes
        /\ t.mistakes = s.mistakes /\ t.tries = s.tries /\ t.tasks = s.tasks
    BY <1>1, <1>2, ListsAre
  <1> QED BY <1>1, <1>3 DEF Keeps, t

RecordFields == RowFields.records
PropFields == RowFields.props

LEMMA MarkedKeeps ==
  ASSUME NEW s, Shaped(s), NEW y, y = [i \in DOMAIN s.records |-> y[i]],
         \A i \in DOMAIN s.records :
           /\ DOMAIN y[i] = RecordFields
           /\ y[i].q = s.records[i].q /\ y[i].kind = s.records[i].kind
           /\ y[i].src = s.records[i].src
  PROVE  Keeps(s, [s EXCEPT !.records = y])
  <1> DEFINE t == [s EXCEPT !.records = y]
  <1>1. Rows(s.records, RecordFields)
    BY ShapedRows DEF RecordFields
  <1>2. Rows(y, RecordFields) /\ DOMAIN y = DOMAIN s.records
    <2> DEFINE x == s.records
               F == RecordFields
    <2>1. Rows(x, F) /\ y = [i \in DOMAIN x |-> y[i]] /\ \A i \in DOMAIN x : DOMAIN y[i] = F
      BY <1>1
    <2> HIDE DEF x, F
    <2>2. Rows(y, F) /\ DOMAIN y = DOMAIN x
      BY <2>1, RowsMarked
    <2> QED BY <2>2 DEF x, F
  <1>3. Shaped(t) /\ t.records = y /\ \A g \in Lists : g # "records" => t[g] = s[g]
    BY <1>2, ListPut, ListsAre DEF RecordFields
  <1> HIDE DEF t
  <1>4. /\ t.props = s.props /\ t.quizzes = s.quizzes
        /\ t.mistakes = s.mistakes /\ t.tries = s.tries /\ t.tasks = s.tasks
    BY <1>3, ListsAre
  <1>5. Keeps(s, t)
    BY <1>2, <1>3, <1>4 DEF Keeps
  <1> QED BY <1>5 DEF t

LEMMA RecordRow ==
  ASSUME NEW s, Shaped(s), NEW i \in DOMAIN s.records
  PROVE  DOMAIN s.records[i] = {"q", "kind", "src", "ok", "gov", "by"}
  <1>1. Rows(s.records, RowFields.records)
    BY ShapedRows
  <1>2. DOMAIN s.records[i] = RowFields.records
    BY ONLY <1>1, i \in DOMAIN s.records DEF Rows
  <1> QED BY <1>2 DEF RowFields

LEMMA PropRow ==
  ASSUME NEW s, Shaped(s), NEW p \in DOMAIN s.props
  PROVE  DOMAIN s.props[p] = {"node", "row", "hypothesis", "q", "status", "match", "target",
                              "task"}
  <1>1. Rows(s.props, RowFields.props)
    BY ShapedRows
  <1>2. DOMAIN s.props[p] = RowFields.props
    BY ONLY <1>1, p \in DOMAIN s.props DEF Rows
  <1> QED BY <1>2 DEF RowFields

LEMMA GovernKeeps ==
  ASSUME NEW s, Shaped(s), NEW ids, NEW gov, NEW by
  PROVE  Keeps(s, Govern(s, ids, gov, by))
  <1> DEFINE y == [i \in DOMAIN s.records |->
                     IF i \in ids THEN [s.records[i] EXCEPT !.gov = gov, !.by = by] ELSE s.records[i]]
  <1>1. Govern(s, ids, gov, by) = [s EXCEPT !.records = y]
    BY DEF Govern
  <1>2. \A i \in DOMAIN s.records :
          /\ DOMAIN y[i] = RecordFields
          /\ y[i].q = s.records[i].q /\ y[i].kind = s.records[i].kind
          /\ y[i].src = s.records[i].src
    BY RecordRow DEF RecordFields, RowFields
  <1>3. y = [i \in DOMAIN s.records |-> y[i]]
    OBVIOUS
  <1> HIDE DEF y
  <1>4. Keeps(s, [s EXCEPT !.records = y])
    BY <1>2, <1>3, MarkedKeeps
  <1> QED BY <1>1, <1>4

\* A decision is rewritten where it stands.
LEMMA PropPut ==
  ASSUME NEW s, Shaped(s), NEW p \in DOMAIN s.props, NEW x, DOMAIN x = PropFields
  PROVE  LET t == [s EXCEPT !.props[p] = x]
         IN /\ Shaped(t) /\ DOMAIN t.props = DOMAIN s.props /\ t.props[p] = x
            /\ \A i \in DOMAIN s.props : i # p => t.props[i] = s.props[i]
            /\ \A g \in Lists \cup Others : g # "props" => t[g] = s[g]
  <1> DEFINE z == s.props
             y == [z EXCEPT ![p] = x]
             t == [s EXCEPT !.props = y]
             F == PropFields
  <1>1. [s EXCEPT !.props[p] = x] = t
    OBVIOUS
  <1>2. Rows(z, F) /\ p \in DOMAIN z /\ DOMAIN x = F
    BY ShapedRows DEF PropFields
  <1> HIDE DEF z, F
  <1>3. /\ Rows(y, F) /\ DOMAIN y = DOMAIN z /\ y[p] = x
        /\ \A i \in DOMAIN z : i # p => y[i] = z[i]
    BY <1>2, RowsPut
  <1> HIDE DEF y
  <1>4. Shaped(t) /\ t.props = y /\ \A g \in Lists \cup Others : g # "props" => t[g] = s[g]
    <2>1. Rows(y, RowFields.props)
      BY <1>3 DEF F, PropFields
    <2> QED BY <2>1, PropsPut
  <1> HIDE DEF t
  <1> QED BY <1>1, <1>3, <1>4 DEF z

LEMMA PropWritten ==
  ASSUME NEW s, Shaped(s), NEW p \in DOMAIN s.props, NEW x, DOMAIN x = PropFields,
         x.q = s.props[p].q, x.task = s.props[p].task,
         x.status = "pending_validation" => s.props[p].status = "pending_validation"
  PROVE  Keeps(s, [s EXCEPT !.props[p] = x])
  <1> DEFINE t == [s EXCEPT !.props[p] = x]
  <1>1. /\ Shaped(t) /\ DOMAIN t.props = DOMAIN s.props /\ t.props[p] = x
        /\ \A i \in DOMAIN s.props : i # p => t.props[i] = s.props[i]
        /\ \A g \in Lists \cup Others : g # "props" => t[g] = s[g]
    BY PropPut
  <1> HIDE DEF t
  <1>2. /\ t.records = s.records /\ t.quizzes = s.quizzes
        /\ t.mistakes = s.mistakes /\ t.tries = s.tries /\ t.tasks = s.tasks
    BY <1>1, ListsAre
  <1>3. Keeps(s, t)
    BY <1>1, <1>2 DEF Keeps
  <1> QED BY <1>3 DEF t

\* A decision is added.
LEMMA PropAdded ==
  ASSUME NEW s, Shaped(s), NEW x, DOMAIN x = PropFields,
         NEW t, t = [s EXCEPT !.props = Append(@, x)]
  PROVE  LET n == Len(s.props) + 1
         IN /\ Shaped(t) /\ DOMAIN t.props = DOMAIN s.props \cup {n} /\ t.props[n] = x
            /\ n \notin DOMAIN s.props /\ \A i \in DOMAIN s.props : t.props[i] = s.props[i]
            /\ \A g \in Lists \cup Others : g # "props" => t[g] = s[g]
            /\ Len(t.props) = n
  <1> DEFINE z == s.props
             y == Append(z, x)
             n == Len(z) + 1
             F == PropFields
  <1>1. t = [s EXCEPT !.props = y]
    OBVIOUS
  <1>2. Rows(z, F) /\ DOMAIN x = F
    BY ShapedRows DEF PropFields
  <1>3. Len(z) \in Nat /\ DOMAIN z = 1..Len(z)
    BY <1>2, RowsAre
  <1> HIDE DEF z, F
  <1>4. /\ Rows(y, F) /\ DOMAIN y = DOMAIN z \cup {n} /\ y[n] = x /\ n \notin DOMAIN z
        /\ \A i \in DOMAIN z : y[i] = z[i]
    BY <1>2, RowsAppend
  <1> HIDE DEF y
  <1>5. Len(y) = n
    <2>1. Len(y) \in Nat /\ DOMAIN y = 1..Len(y)
      BY <1>4, RowsAre
    <2> QED BY <1>3, <1>4, <2>1
  <1>6. Shaped(t) /\ t.props = y /\ \A g \in Lists \cup Others : g # "props" => t[g] = s[g]
    <2>1. Rows(y, RowFields.props)
      BY <1>4 DEF F, PropFields
    <2> QED BY ONLY Shaped(s), <1>1, <2>1, PropsPut
  <1> QED BY <1>1, <1>4, <1>5, <1>6 DEF z

LEMMA AddedKeeps ==
  ASSUME NEW s, Shaped(s), NEW x, DOMAIN x = PropFields, x.q = NoQuestion, x.task = 0
  PROVE  LET t == [s EXCEPT !.props = Append(@, x)]
         IN Keeps(s, t) /\ Len(s.props) + 1 \in DOMAIN t.props /\ Len(t.props) = Len(s.props) + 1
  <1> DEFINE t == [s EXCEPT !.props = Append(@, x)]
             n == Len(s.props) + 1
  <1>1. /\ Shaped(t) /\ DOMAIN t.props = DOMAIN s.props \cup {n} /\ t.props[n] = x
        /\ n \notin DOMAIN s.props /\ \A i \in DOMAIN s.props : t.props[i] = s.props[i]
        /\ \A g \in Lists \cup Others : g # "props" => t[g] = s[g]
        /\ Len(t.props) = n
    BY PropAdded
  <1> HIDE DEF t, n
  <1>2. /\ t.records = s.records /\ t.quizzes = s.quizzes
        /\ t.mistakes = s.mistakes /\ t.tries = s.tries /\ t.tasks = s.tasks
    BY <1>1, ListsAre
  <1>3. Keeps(s, t)
    BY <1>1, <1>2 DEF Keeps
  <1> QED BY <1>1, <1>3 DEF t, n

LEMMA RecommendKeeps ==
  ASSUME NEW s, Shaped(s), NEW p \in DOMAIN s.props, NEW path, NEW affected, NEW advanced
  PROVE  LET t == Recommend(s, p, path, affected, advanced)
         IN Keeps(s, t) /\ t.props[p].status # "pending_validation"
  <1> DEFINE match  == Matching(path, affected, s.props[p].hypothesis, advanced)
             status == IF match \in Confirmable THEN "resource_pending" ELSE "evidence_recorded"
             x == [s.props[p] EXCEPT !.match = match, !.target = CurrentIds(path), !.status = status]
  <1>1. Recommend(s, p, path, affected, advanced) = [s EXCEPT !.props[p] = x]
    BY DEF Recommend
  <1>2. status # "pending_validation"
    OBVIOUS
  <1> HIDE DEF match, status
  <1>3. DOMAIN s.props[p] = {"node", "row", "hypothesis", "q", "status", "match", "target", "task"}
    BY PropRow
  <1>4. /\ DOMAIN x = PropFields /\ x.q = s.props[p].q /\ x.task = s.props[p].task
        /\ x.status = status
    BY <1>3 DEF PropFields, RowFields
  <1> HIDE DEF x
  <1>5. Keeps(s, [s EXCEPT !.props[p] = x])
    BY <1>2, <1>4, PropWritten
  <1>6. [s EXCEPT !.props[p] = x].props[p] = x
    BY <1>4, PropPut
  <1> QED BY <1>1, <1>2, <1>4, <1>5, <1>6

LEMMA AnalyzeKeeps ==
  ASSUME NEW s, Shaped(s), NEW v, NEW t, NEW p, NEW evidence, NEW revised
  PROVE  Keeps(s, Analyze(s, v, t, p, evidence, revised))
  <1> DEFINE accepted == Fresh(t, t.profiles[p].counted, evidence)
             counted  == t.profiles[p].counted \o Picked([i \in DOMAIN t.records |-> i], accepted)
             new      == Len(s.profiles) + 1
             y == [i \in DOMAIN s.records |->
                     IF i \in accepted THEN [s.records[i] EXCEPT !.by = new] ELSE s.records[i]]
             profiles == Append(s.profiles, [prev |-> p, counted |-> counted])
             less == [s.profiles EXCEPT ![p].counted = counted]
             path == Rehome(s, v, p, new)
             a == [s EXCEPT !.records = y]
             b == [a EXCEPT !["profiles"] = profiles]
             c == [b EXCEPT !["path"] = path]
  <1>0. DOMAIN s = Lists \cup Others
    BY ShapedRows
  <1>1. Analyze(s, v, t, p, evidence, revised)
          = IF revised THEN c ELSE [s EXCEPT !["profiles"] = less]
    <2>1. Analyze(s, v, t, p, evidence, revised) =
            IF revised THEN [s EXCEPT !.profiles = profiles, !.records = y, !.path = path]
            ELSE [s EXCEPT !.profiles = less]
      BY DEF Analyze
    <2> HIDE DEF profiles, y, path, less
    <2>2. [s EXCEPT !.profiles = profiles, !.records = y, !.path = path] = c
      BY <1>0, ListsAre DEF Others
    <2> QED BY <2>1, <2>2
  <1>2. \A i \in DOMAIN s.records :
          /\ DOMAIN y[i] = RecordFields
          /\ y[i].q = s.records[i].q /\ y[i].kind = s.records[i].kind
          /\ y[i].src = s.records[i].src
    BY RecordRow DEF RecordFields, RowFields
  <1>3. y = [i \in DOMAIN s.records |-> y[i]]
    OBVIOUS
  <1> HIDE DEF y, profiles, path, less
  <1>4. Keeps(s, a)
    BY <1>2, <1>3, MarkedKeeps
  <1> HIDE DEF a
  <1>o. "profiles" \in Others /\ "path" \in Others
    BY DEF Others
  <1>5. Keeps(a, b)
    BY <1>4, <1>o, OtherKeeps DEF Keeps
  <1> HIDE DEF b
  <1>6. Keeps(b, c)
    BY <1>5, <1>o, OtherKeeps DEF Keeps
  <1> HIDE DEF c
  <1>7. Keeps(s, c)
    BY <1>4, <1>5, <1>6, KeepsOn
  <1>8. Keeps(s, [s EXCEPT !["profiles"] = less])
    BY <1>o, OtherKeeps
  <1> QED BY <1>1, <1>7, <1>8

LEMMA ProposalIs ==
  ASSUME NEW t, NEW hypothesis, NEW q, NEW status
  PROVE  LET x == Proposal(t, hypothesis, q, status)
         IN DOMAIN x = PropFields /\ x.q = q /\ x.status = status /\ x.task = 0
  BY DEF Proposal, PropFields, RowFields

LEMMA TryAdvanceKeeps ==
  ASSUME NEW s, Shaped(s), NEW stored, NEW r
  PROVE  Keeps(s, TryAdvance(s, stored, r))
  <1> DEFINE ids == CurrentIds(s.path)
             p   == Len(s.props) + 1
             x   == Proposal(s, "mastery_up", NoQuestion, "resource_pending")
             path == Advance(s.path, ids, s.rel)
             a   == [s EXCEPT !.props = Append(@, x)]
             t   == [a EXCEPT !["path"] = path]
             u   == Recommend(t, p, t.path, {}, TRUE)
  <1>0. DOMAIN s = Lists \cup Others
    BY ShapedRows
  <1>o. "path" \in Others
    BY DEF Others
  <1>1. \/ TryAdvance(s, stored, r) = Govern(u, {r}, "consumed", 0)
        \/ TryAdvance(s, stored, r) = Govern(s, {r}, "pending", 0)
    <2>1. [s EXCEPT !.props = Append(@, x), !.path = Advance(@, ids, s.rel)] = t
      <3> HIDE DEF x
      <3> QED BY <1>0, ListsAre DEF Others
    <2> HIDE DEF t
    <2> QED BY <2>1 DEF TryAdvance
  <1>2. DOMAIN x = PropFields /\ x.q = NoQuestion /\ x.task = 0
    BY ProposalIs
  <1> HIDE DEF x, path
  <1>3. Keeps(s, a) /\ p \in DOMAIN a.props
    BY <1>2, AddedKeeps
  <1> HIDE DEF a
  <1>4. Keeps(a, t) /\ p \in DOMAIN t.props
    <2>1. Shaped(a)
      BY <1>3 DEF Keeps
    <2>2. Keeps(a, t)
      BY <2>1, <1>o, OtherKeeps
    <2> HIDE DEF t
    <2> QED BY <1>3, <2>2 DEF Keeps
  <1> HIDE DEF t
  <1>5. Keeps(t, u)
    <2>1. Shaped(t)
      BY <1>4 DEF Keeps
    <2> QED BY <1>4, <2>1, RecommendKeeps
  <1> HIDE DEF u
  <1>6. Keeps(s, u)
    BY <1>3, <1>4, <1>5, KeepsOn
  <1>7. Keeps(s, Govern(u, {r}, "consumed", 0))
    <2>1. Keeps(u, Govern(u, {r}, "consumed", 0))
      BY <1>6, GovernKeeps DEF Keeps
    <2> QED BY <1>6, <2>1, KeepsOn
  <1>8. Keeps(s, Govern(s, {r}, "pending", 0))
    BY GovernKeeps
  <1> QED BY <1>1, <1>7, <1>8

LEMMA JudgedKeeps ==
  ASSUME NEW s, Shaped(s), NEW n \in DOMAIN s.props, NEW r, NEW cands, NEW revised
  PROVE  Keeps(s, Judged(s, n, r, cands, revised))
  <1>o. "path" \in Others
    BY DEF Others
  <1> DEFINE ids  == CurrentIds(s.path)
             go   == s.records[r].ok /\ GateOpen(s, ids)
             path == IF go THEN Advance(s.path, ids, s.rel) ELSE s.path
             affected == {KnowledgeOf[s.records[r].q]} \cup Unmastered(s, ids)
             gov == IF revised THEN "consumed" ELSE "no_change"
             by  == IF revised THEN Latest(s) ELSE 0
             a   == Recommend(s, n, path, affected, go)
             b   == Rearranged(a, n, path, affected)
             x   == [s.props[n] EXCEPT !.status = "no_change"]
             c   == [s EXCEPT !.props[n] = x]
  <1>1. \/ Judged(s, n, r, cands, revised) = Govern(b, cands, gov, by)
        \/ Judged(s, n, r, cands, revised) = Govern(c, cands, gov, by)
    <2>1. [s EXCEPT !.props[n].status = "no_change"] = c
      OBVIOUS
    <2> HIDE DEF c, b, gov, by
    <2>2. Judged(s, n, r, cands, revised) = Govern(IF revised \/ go THEN b ELSE c, cands, gov, by)
      BY <2>1 DEF Judged, b, gov, by
    <2> QED BY <2>2
  <1> HIDE DEF go, path, affected, gov, by
  <1>2. Keeps(s, a)
    BY RecommendKeeps
  <1> HIDE DEF a
  <1>3. Keeps(a, b)
    <2>1. b = [a EXCEPT !["path"] = Reordered(path, affected, a.props[n].match)]
      BY DEF Rearranged
    <2>2. Shaped(a)
      BY <1>2 DEF Keeps
    <2>3. Keeps(a, [a EXCEPT !["path"] = Reordered(path, affected, a.props[n].match)])
      BY <2>2, <1>o, OtherKeeps
    <2> QED BY <2>1, <2>3
  <1> HIDE DEF b
  <1>4. Keeps(s, c)
    <2>1. DOMAIN s.props[n] = {"node", "row", "hypothesis", "q", "status", "match", "target",
                               "task"}
      BY PropRow
    <2>2. /\ DOMAIN x = PropFields /\ x.q = s.props[n].q /\ x.task = s.props[n].task
          /\ x.status = "no_change"
      BY <2>1 DEF PropFields, RowFields
    <2> HIDE DEF x
    <2> QED BY <2>2, PropWritten
  <1> HIDE DEF c
  <1>5. Keeps(s, b)
    BY <1>2, <1>3, KeepsOn
  <1>6. Keeps(b, Govern(b, cands, gov, by)) /\ Keeps(c, Govern(c, cands, gov, by))
    BY <1>4, <1>5, GovernKeeps DEF Keeps
  <1>7. Keeps(s, Govern(b, cands, gov, by)) /\ Keeps(s, Govern(c, cands, gov, by))
    BY <1>4, <1>5, <1>6, KeepsOn
  <1> QED BY <1>1, <1>7

LEMMA EvaluateKeeps ==
  ASSUME NEW s, Shaped(s), NEW stored, NEW r, NEW outcome
  PROVE  Keeps(s, Evaluate(s, stored, r, outcome))
  <1> DEFINE cands == Candidates(s, r)
             p     == Latest(s)
             up    == IF s.records[r].ok THEN "mastery_up" ELSE "support_down"
             revised == /\ outcome = "revised"
                        /\ MayRevise(s, Fresh(s, s.profiles[p].counted, cands))
             x == Proposal(s, up, NoQuestion, "confirmed")
             raised  == [s EXCEPT !.props = Append(@, x)]
             n == Len(raised.props)
             analysed == Analyze(raised, s, s, p, cands, revised)
             judged == Judged(analysed, n, r, cands, revised)
  <1>1. \/ Evaluate(s, stored, r, outcome) = s
        \/ Evaluate(s, stored, r, outcome) = TryAdvance(s, stored, r)
        \/ Evaluate(s, stored, r, outcome) = Govern(s, {r}, "pending", 0)
        \/ Evaluate(s, stored, r, outcome) = judged
    <2> HIDE DEF judged
    <2> DEFINE own == s.path.owner = p
               enough == Enough(s, cands)
               free == s.records[r].gov = "none"
               a == Govern(s, {r}, "pending", 0)
               b == TryAdvance(s, stored, r)
    <2>1. Evaluate(s, stored, r, outcome) =
            CASE s.records[r].gov # "none" -> s
              [] s.records[r].gov = "none" /\ ~enough -> IF own THEN b ELSE a
              [] s.records[r].gov = "none" /\ enough /\ (~own \/ outcome = "failed") -> a
              [] OTHER -> judged
      BY DEF Evaluate, judged
    <2> HIDE DEF a, b, own, enough
    <2>2. CASE s.records[r].gov # "none"
      BY <2>1, <2>2
    <2>3. CASE s.records[r].gov = "none" /\ ~enough
      BY <2>1, <2>3 DEF a, b
    <2>4. CASE s.records[r].gov = "none" /\ enough /\ (~own \/ outcome = "failed")
      BY <2>1, <2>4 DEF a
    <2>5. CASE s.records[r].gov = "none" /\ enough /\ ~(~own \/ outcome = "failed")
      BY <2>1, <2>5
    <2> QED BY <2>2, <2>3, <2>4, <2>5
  <1>2. DOMAIN x = PropFields /\ x.q = NoQuestion /\ x.task = 0
    BY ProposalIs
  <1> HIDE DEF cands, p, up, revised, x
  <1>3. Keeps(s, raised) /\ n \in DOMAIN raised.props
    <2>1. /\ Keeps(s, raised) /\ Len(s.props) + 1 \in DOMAIN raised.props
          /\ Len(raised.props) = Len(s.props) + 1
      BY <1>2, AddedKeeps
    <2> QED BY <2>1
  <1> HIDE DEF raised, n
  <1>4. Keeps(raised, analysed) /\ n \in DOMAIN analysed.props
    <2>1. Keeps(raised, analysed)
      BY <1>3, AnalyzeKeeps DEF Keeps
    <2> HIDE DEF analysed
    <2> QED BY <1>3, <2>1 DEF Keeps
  <1> HIDE DEF analysed
  <1>5. Keeps(analysed, judged)
    BY <1>4, JudgedKeeps DEF Keeps
  <1> HIDE DEF judged
  <1>6. Keeps(s, judged)
    BY <1>3, <1>4, <1>5, KeepsOn
  <1>7. /\ Keeps(s, s) /\ Keeps(s, TryAdvance(s, stored, r))
        /\ Keeps(s, Govern(s, {r}, "pending", 0))
    BY KeepsSelf, TryAdvanceKeeps, GovernKeeps
  <1> QED BY <1>1, <1>6, <1>7

-----------------------------------------------------------------------------
(* The invariant                                                           *)

Whole(t) == Shaped(t) /\ QuizRows(t) /\ CheckRows(t)

\* A decision keeps its question.
KeepsQuestions(s, t) == \A p \in DOMAIN s.props : p \in DOMAIN t.props /\ t.props[p].q = s.props[p].q

IInv ==
  /\ Whole(db)
  /\ "RequestMastery" \notin late => ChecksDiffer(db)
  /\ "Generate" \notin late => TasksNamed(db)
  /\ KeepsQuestions(before, db)

\* What every request and edit but the two of the history does.
Holds(s, t) ==
  /\ Whole(t) /\ KeepsQuestions(s, t)
  /\ ChecksDiffer(s) => ChecksDiffer(t)
  /\ TasksNamed(s) => TasksNamed(t)

LEMMA HoldsOn ==
  ASSUME NEW s, NEW t, NEW u, Holds(s, t), Holds(t, u)
  PROVE  Holds(s, u)
  <1>1. KeepsQuestions(s, u)
    BY DEF Holds, KeepsQuestions
  <1> QED BY <1>1 DEF Holds

\* The rows of decisions and tasks that a decision has.
LEMMA TasksHold ==
  ASSUME NEW s, NEW t, TasksNamed(s), t.tasks = s.tasks, DOMAIN s.props \subseteq DOMAIN t.props,
         \A i \in DOMAIN s.props : t.props[i].task = s.props[i].task
  PROVE  TasksNamed(t)
  BY DEF TasksNamed

LEMMA DifferHold ==
  ASSUME NEW s, NEW t, ChecksDiffer(s),
         \A i \in DOMAIN t.props : i \notin DOMAIN s.props => t.props[i].q = NoQuestion,
         \A i \in DOMAIN s.props : t.props[i].q = s.props[i].q
  PROVE  ChecksDiffer(t)
  <1>1. SUFFICES ASSUME NEW i \in DOMAIN t.props, NEW j \in DOMAIN t.props, i # j,
                        t.props[i].q # NoQuestion
                 PROVE  t.props[i].q # t.props[j].q
    BY DEF ChecksDiffer
  <1>2. i \in DOMAIN s.props /\ t.props[i].q = s.props[i].q
    BY <1>1
  <1>3. CASE j \in DOMAIN s.props
    BY <1>1, <1>2, <1>3 DEF ChecksDiffer
  <1>4. CASE j \notin DOMAIN s.props
    BY <1>1, <1>4
  <1> QED BY <1>3, <1>4

LEMMA ChecksHold ==
  ASSUME NEW s, Whole(s), NEW t, Keeps(s, t)
  PROVE  CheckRows(t)
  <1>1. \A p \in DOMAIN t.props : t.props[p].q \in CheckBank \cup {NoQuestion}
    <2>1. SUFFICES ASSUME NEW p \in DOMAIN t.props
                   PROVE  t.props[p].q \in CheckBank \cup {NoQuestion}
      OBVIOUS
    <2>2. CASE p \in DOMAIN s.props
      <3>1. s.props[p].q \in CheckBank \cup {NoQuestion}
        BY <2>2 DEF Whole, CheckRows
      <3> QED BY <2>2, <3>1 DEF Keeps
    <2>3. CASE p \notin DOMAIN s.props
      BY <2>3 DEF Keeps
    <2> QED BY <2>2, <2>3
  <1>2. ASSUME NEW i \in DOMAIN t.records
        PROVE  IF t.records[i].kind = "path_validation"
               THEN /\ t.records[i].src \in DOMAIN t.props
                    /\ t.records[i].q = t.props[t.records[i].src].q
                    /\ t.records[i].q \in CheckBank
                    /\ t.props[t.records[i].src].status # "pending_validation"
               ELSE t.records[i].q \in QuizBank
    <2>1. /\ i \in DOMAIN s.records /\ t.records[i].q = s.records[i].q
          /\ t.records[i].kind = s.records[i].kind /\ t.records[i].src = s.records[i].src
      BY <1>2 DEF Keeps
    <2>2. CASE s.records[i].kind = "path_validation"
      <3>1. /\ s.records[i].src \in DOMAIN s.props
            /\ s.records[i].q = s.props[s.records[i].src].q
            /\ s.records[i].q \in CheckBank
            /\ s.props[s.records[i].src].status # "pending_validation"
        BY <2>1, <2>2 DEF Whole, CheckRows
      <3>2. /\ s.records[i].src \in DOMAIN t.props
            /\ t.props[s.records[i].src].q = s.props[s.records[i].src].q
            /\ t.props[s.records[i].src].status # "pending_validation"
        BY <3>1 DEF Keeps
      <3> QED BY <2>1, <2>2, <3>1, <3>2
    <2>3. CASE s.records[i].kind # "path_validation"
      <3>1. s.records[i].q \in QuizBank
        BY <2>1, <2>3 DEF Whole, CheckRows
      <3> QED BY <2>1, <2>3, <3>1
    <2> QED BY <2>2, <2>3
  <1>3. \A i, j \in DOMAIN t.records :
          i < j /\ t.records[i].kind = "path_validation"
                /\ t.records[j].kind = "path_validation" => t.records[i].src # t.records[j].src
    <2>1. \A i, j \in DOMAIN s.records :
          i < j /\ s.records[i].kind = "path_validation"
                /\ s.records[j].kind = "path_validation" => s.records[i].src # s.records[j].src
      BY DEF Whole, CheckRows
    <2>2. /\ DOMAIN t.records = DOMAIN s.records
          /\ \A i \in DOMAIN s.records : /\ t.records[i].kind = s.records[i].kind
                                         /\ t.records[i].src = s.records[i].src
      BY DEF Keeps
    <2> QED BY <2>1, <2>2
  <1> QED BY <1>1, <1>2, <1>3 DEF CheckRows

LEMMA KeepsHolds ==
  ASSUME NEW s, Whole(s), NEW t, Keeps(s, t)
  PROVE  Holds(s, t)
  <1>1. Shaped(t) /\ QuizRows(t)
    BY DEF Keeps, Whole, QuizRows
  <1>2. KeepsQuestions(s, t)
    BY DEF Keeps, KeepsQuestions
  <1>3. ChecksDiffer(s) => ChecksDiffer(t)
    BY DifferHold DEF Keeps
  <1>4. TasksNamed(s) => TasksNamed(t)
    BY TasksHold DEF Keeps
  <1> QED BY <1>1, <1>2, <1>3, <1>4, ChecksHold DEF Holds, Whole

\* Nothing changes but the quizzes, their mistakes and the corrections.
LEMMA QuizHolds ==
  ASSUME NEW s, Whole(s), NEW t, Shaped(t), QuizRows(t),
         t.records = s.records, t.props = s.props, t.tasks = s.tasks
  PROVE  Holds(s, t)
  BY DEF Holds, Whole, KeepsQuestions, CheckRows, ChecksDiffer, TasksNamed

LEMMA SideHolds ==
  ASSUME NEW s, Whole(s), NEW t, Shaped(t), NEW f \in {"quizzes", "mistakes", "tries"},
         \A g \in Lists \cup Others : g # f => t[g] = s[g], QuizRows(t)
  PROVE  Holds(s, t)
  <1>1. t.records = s.records /\ t.props = s.props /\ t.tasks = s.tasks
    BY ListsAre
  <1> QED BY <1>1, QuizHolds

LEMMA QuizzesPut ==
  ASSUME NEW s, Whole(s), NEW y, Rows(y, RowFields.quizzes),
         \A a \in DOMAIN y : DOMAIN y[a].answers \subseteq QuizBank,
         NEW t, t = [s EXCEPT !.quizzes = y]
  PROVE  /\ Holds(s, t) /\ t.quizzes = y
         /\ \A g \in Lists \cup Others : g # "quizzes" => t[g] = s[g]
  <1>1. /\ Shaped(t) /\ t.quizzes = y
        /\ \A g \in Lists \cup Others : g # "quizzes" => t[g] = s[g]
    <2>1. "quizzes" \in Lists /\ Shaped(s)
      BY ListsAre DEF Whole
    <2> QED BY <2>1, ListPut
  <1>2. t.mistakes = s.mistakes /\ t.tries = s.tries /\ t.tasks = s.tasks
    BY <1>1, ListsAre
  <1>3. QuizRows(t)
    BY <1>1, <1>2 DEF QuizRows, Whole
  <1> QED BY <1>1, <1>3, SideHolds

LEMMA MistakesPut ==
  ASSUME NEW s, Whole(s), NEW y, Rows(y, RowFields.mistakes), \A i \in DOMAIN y : y[i].q \in QuizBank,
         DOMAIN s.mistakes \subseteq DOMAIN y, NEW t, t = [s EXCEPT !.mistakes = y]
  PROVE  /\ Holds(s, t) /\ t.mistakes = y
         /\ \A g \in Lists \cup Others : g # "mistakes" => t[g] = s[g]
  <1>1. /\ Shaped(t) /\ t.mistakes = y
        /\ \A g \in Lists \cup Others : g # "mistakes" => t[g] = s[g]
    <2>1. "mistakes" \in Lists /\ Shaped(s)
      BY ListsAre DEF Whole
    <2> QED BY <2>1, ListPut
  <1>2. t.quizzes = s.quizzes /\ t.tries = s.tries /\ t.tasks = s.tasks
    BY <1>1, ListsAre
  <1>3. QuizRows(t)
    BY <1>1, <1>2 DEF QuizRows, Whole
  <1> QED BY <1>1, <1>3, SideHolds

LEMMA TriesPut ==
  ASSUME NEW s, Whole(s), NEW y, Rows(y, RowFields.tries),
         \A j \in DOMAIN y : y[j].item \in DOMAIN s.mistakes,
         NEW t, t = [s EXCEPT !.tries = y]
  PROVE  /\ Holds(s, t) /\ t.tries = y
         /\ \A g \in Lists \cup Others : g # "tries" => t[g] = s[g]
  <1>1. /\ Shaped(t) /\ t.tries = y
        /\ \A g \in Lists \cup Others : g # "tries" => t[g] = s[g]
    <2>1. "tries" \in Lists /\ Shaped(s)
      BY ListsAre DEF Whole
    <2> QED BY <2>1, ListPut
  <1>2. t.quizzes = s.quizzes /\ t.mistakes = s.mistakes /\ t.tasks = s.tasks
    BY <1>1, ListsAre
  <1>3. QuizRows(t)
    BY <1>1, <1>2 DEF QuizRows, Whole
  <1> QED BY <1>1, <1>3, SideHolds

\* Rows are as wide as their table.
LEMMA SideRows ==
  ASSUME NEW s, Whole(s)
  PROVE  /\ \A a \in DOMAIN s.quizzes : /\ DOMAIN s.quizzes[a] = {"task", "status", "answers"}
                                        /\ DOMAIN s.quizzes[a].answers \subseteq QuizBank
         /\ \A i \in DOMAIN s.mistakes : /\ DOMAIN s.mistakes[i] = {"src", "q", "status", "try"}
                                         /\ s.mistakes[i].q \in QuizBank
         /\ \A j \in DOMAIN s.tries : /\ DOMAIN s.tries[j] = {"item", "status"}
                                      /\ s.tries[j].item \in DOMAIN s.mistakes
         /\ \A k \in DOMAIN s.tasks : /\ DOMAIN s.tasks[k] = {"node", "row", "prop", "status", "quiz"}
                                      /\ s.tasks[k].quiz \subseteq QuizBank
  <1>1. /\ Rows(s.quizzes, RowFields.quizzes) /\ Rows(s.mistakes, RowFields.mistakes)
        /\ Rows(s.tries, RowFields.tries) /\ Rows(s.tasks, RowFields.tasks)
    BY ShapedRows DEF Whole
  <1>2. /\ \A a \in DOMAIN s.quizzes : DOMAIN s.quizzes[a] = RowFields.quizzes
        /\ \A i \in DOMAIN s.mistakes : DOMAIN s.mistakes[i] = RowFields.mistakes
        /\ \A j \in DOMAIN s.tries : DOMAIN s.tries[j] = RowFields.tries
        /\ \A k \in DOMAIN s.tasks : DOMAIN s.tasks[k] = RowFields.tasks
    BY ONLY <1>1 DEF Rows
  <1>3. QuizRows(s)
    BY DEF Whole
  <1> QED BY <1>2, <1>3 DEF RowFields, QuizRows

LEMMA OtherHolds ==
  ASSUME NEW s, Whole(s), NEW f \in Others, NEW x, NEW t, t = [s EXCEPT ![f] = x]
  PROVE  Holds(s, t)
  BY OtherKeeps, KeepsHolds DEF Whole

-----------------------------------------------------------------------------
(* Quizzes                                                                 *)

LEMMA InvalidatedHolds ==
  ASSUME NEW s, Whole(s), NEW a \in DOMAIN s.quizzes
  PROVE  Holds(s, Invalidated(s, a))
  <1> DEFINE row == [s.quizzes[a] EXCEPT !.status = "invalidated"]
             x == s.quizzes
             y == [x EXCEPT ![a] = row]
             m == s.mistakes
             z == [i \in DOMAIN m |->
                     IF m[i].src = a /\ m[i].status # "consolidated"
                       THEN [m[i] EXCEPT !.status = "retired"] ELSE m[i]]
             t == [s EXCEPT !.quizzes = y]
             u == [t EXCEPT !.mistakes = z]
  <1>1. Invalidated(s, a) = u
    <2>1. Invalidated(s, a) = [s EXCEPT !.quizzes = y, !.mistakes = z]
      BY DEF Invalidated
    <2>2. DOMAIN s = Lists \cup Others
      BY ShapedRows DEF Whole
    <2> HIDE DEF y, z
    <2> QED BY <2>1, <2>2, ListsAre
  <1>2. /\ DOMAIN row = RowFields.quizzes /\ DOMAIN row.answers \subseteq QuizBank
        /\ \A b \in DOMAIN x : DOMAIN x[b].answers \subseteq QuizBank
    BY SideRows DEF RowFields
  <1>3. Rows(x, RowFields.quizzes) /\ Rows(m, RowFields.mistakes)
    BY ShapedRows DEF Whole
  <1>4. /\ DOMAIN z = DOMAIN m /\ z = [i \in DOMAIN m |-> z[i]]
        /\ \A i \in DOMAIN m : DOMAIN z[i] = RowFields.mistakes /\ z[i].q \in QuizBank
    BY SideRows DEF RowFields
  <1> HIDE DEF row, x, z, m
  <1>5. /\ Rows(y, RowFields.quizzes) /\ \A b \in DOMAIN y : DOMAIN y[b].answers \subseteq QuizBank
    <2>1. /\ Rows(y, RowFields.quizzes) /\ DOMAIN y = DOMAIN x /\ y[a] = row
          /\ \A b \in DOMAIN x : b # a => y[b] = x[b]
      BY <1>2, <1>3, RowsPut DEF x
    <2> QED BY <1>2, <2>1
  <1>6. Rows(z, RowFields.mistakes)
    BY <1>3, <1>4, RowsMarked
  <1> HIDE DEF y
  <1>7. Holds(s, t) /\ t.mistakes = m
    <2>1. Holds(s, t) /\ \A g \in Lists \cup Others : g # "quizzes" => t[g] = s[g]
      BY <1>5, QuizzesPut
    <2> HIDE DEF t
    <2> QED BY <2>1, ListsAre DEF m
  <1> HIDE DEF t
  <1>8. Holds(t, u)
    <2>1. Whole(t) /\ DOMAIN t.mistakes \subseteq DOMAIN z /\ \A i \in DOMAIN z : z[i].q \in QuizBank
      BY <1>4, <1>7 DEF Holds
    <2> QED BY <1>6, <2>1, MistakesPut
  <1> QED BY <1>1, <1>7, <1>8, HoldsOn

LEMMA OpenQuizHolds ==
  ASSUME Whole(db), NEW k \in DOMAIN db.tasks, OpenQuiz(k)
  PROVE  Holds(db, db')
  <1> DEFINE x == db.quizzes
             e == NewQuiz(db, k)
             y == Append(x, e)
             t == [db EXCEPT !.quizzes = y]
             n == Len(t.quizzes)
  <1>1. db' = IF Unusable(db, db.tasks[k].quiz) THEN Invalidated(t, n) ELSE t
    <2>1. t = [db EXCEPT !.quizzes = Append(@, NewQuiz(db, k))]
      OBVIOUS
    <2> HIDE DEF t
    <2> QED BY <2>1 DEF OpenQuiz, Commit, CommitOn, n
  <1>2. DOMAIN e = RowFields.quizzes /\ DOMAIN e.answers \subseteq QuizBank
    BY SideRows DEF NewQuiz, RowFields
  <1>3. /\ Rows(x, RowFields.quizzes) /\ \A b \in DOMAIN x : DOMAIN x[b].answers \subseteq QuizBank
    BY ShapedRows, SideRows DEF Whole
  <1> HIDE DEF x, e
  <1>4. /\ Rows(y, RowFields.quizzes) /\ DOMAIN y = DOMAIN x \cup {Len(x) + 1} /\ y[Len(x) + 1] = e
        /\ \A b \in DOMAIN x : y[b] = x[b]
    BY <1>2, <1>3, RowsAppend
  <1> HIDE DEF y
  <1>5. \A b \in DOMAIN y : DOMAIN y[b].answers \subseteq QuizBank
    BY <1>2, <1>3, <1>4
  <1>6. Holds(db, t) /\ t.quizzes = y
    BY <1>4, <1>5, QuizzesPut
  <1> HIDE DEF t
  <1>7. n \in DOMAIN t.quizzes
    <2>1. Len(y) \in Nat /\ DOMAIN y = 1..Len(y)
      BY <1>4, RowsAre
    <2>2. Len(y) \in DOMAIN y
      BY <1>4, <2>1
    <2> QED BY <1>6, <2>2
  <1> HIDE DEF n
  <1>8. Holds(t, Invalidated(t, n))
    BY <1>6, <1>7, InvalidatedHolds DEF Holds
  <1>9. Holds(db, Invalidated(t, n))
    BY <1>6, <1>8, HoldsOn
  <1> QED BY <1>1, <1>6, <1>9

LEMMA UpsertIs ==
  ASSUME NEW m, Rows(m, RowFields.mistakes), \A i \in DOMAIN m : m[i].q \in QuizBank,
         NEW a, NEW q \in QuizBank
  PROVE  LET y == Upsert(m, a, q)
         IN /\ Rows(y, RowFields.mistakes) /\ DOMAIN m \subseteq DOMAIN y
            /\ \A i \in DOMAIN y : y[i].q \in QuizBank
  <1> DEFINE e == NewMistake(a, q)
             y == Append(m, e)
  <1>1. DOMAIN e = RowFields.mistakes /\ e.q \in QuizBank
    BY DEF NewMistake, RowFields
  <1> HIDE DEF e
  <1>2. /\ Rows(y, RowFields.mistakes) /\ DOMAIN y = DOMAIN m \cup {Len(m) + 1} /\ y[Len(m) + 1] = e
        /\ \A b \in DOMAIN m : y[b] = m[b]
    BY <1>1, RowsAppend
  <1> HIDE DEF y
  <1>3. Rows(y, RowFields.mistakes) /\ DOMAIN m \subseteq DOMAIN y /\ \A i \in DOMAIN y : y[i].q \in QuizBank
    BY <1>1, <1>2
  <1>4. Upsert(m, a, q) = m \/ Upsert(m, a, q) = y
    BY DEF Upsert, y, e
  <1> QED BY <1>3, <1>4

LEMMA SaveAnswerHolds ==
  ASSUME Whole(db), NEW a \in DOMAIN db.quizzes, NEW q, NEW ok, SaveAnswer(a, q, ok)
  PROVE  Holds(db, db')
  <1> DEFINE row == [db.quizzes[a] EXCEPT !.answers = [@ EXCEPT ![q] = IF ok THEN "right" ELSE "wrong"]]
             x == db.quizzes
             y == [x EXCEPT ![a] = row]
             m == db.mistakes
             z == IF ok THEN m ELSE Upsert(m, a, q)
             t == [db EXCEPT !.quizzes = y]
             u == [t EXCEPT !.mistakes = z]
  <1>1. db' = u /\ q \in DOMAIN db.quizzes[a].answers
    <2>1. /\ db' = [db EXCEPT !.quizzes[a].answers[q] = IF ok THEN "right" ELSE "wrong",
                              !.mistakes = IF ok THEN @ ELSE Upsert(@, a, q)]
          /\ q \in DOMAIN db.quizzes[a].answers
      BY DEF SaveAnswer, Commit, CommitOn
    <2>2. db' = [db EXCEPT !.quizzes = y, !.mistakes = z]
      BY <2>1
    <2>3. DOMAIN db = Lists \cup Others
      BY ShapedRows DEF Whole
    <2>4. [db EXCEPT !.quizzes = y, !.mistakes = z] = u
      <3> HIDE DEF y, z
      <3> QED BY <2>3, ListsAre
    <2> QED BY <2>1, <2>2, <2>4
  <1>2. /\ DOMAIN row = RowFields.quizzes /\ DOMAIN row.answers \subseteq QuizBank /\ q \in QuizBank
        /\ \A b \in DOMAIN x : DOMAIN x[b].answers \subseteq QuizBank
        /\ \A i \in DOMAIN m : m[i].q \in QuizBank
    BY <1>1, SideRows DEF RowFields
  <1>3. Rows(x, RowFields.quizzes) /\ Rows(m, RowFields.mistakes)
    BY ShapedRows DEF Whole
  <1> HIDE DEF row, x, m
  <1>4. /\ Rows(z, RowFields.mistakes) /\ DOMAIN m \subseteq DOMAIN z
        /\ \A i \in DOMAIN z : z[i].q \in QuizBank
    BY <1>2, <1>3, UpsertIs
  <1>5. /\ Rows(y, RowFields.quizzes) /\ \A b \in DOMAIN y : DOMAIN y[b].answers \subseteq QuizBank
    <2>1. /\ Rows(y, RowFields.quizzes) /\ DOMAIN y = DOMAIN x /\ y[a] = row
          /\ \A b \in DOMAIN x : b # a => y[b] = x[b]
      BY <1>2, <1>3, RowsPut DEF x
    <2> QED BY <1>2, <2>1
  <1> HIDE DEF y, z
  <1>6. Holds(db, t) /\ t.mistakes = m
    <2>1. Holds(db, t) /\ \A g \in Lists \cup Others : g # "quizzes" => t[g] = db[g]
      BY <1>5, QuizzesPut
    <2> HIDE DEF t
    <2> QED BY <2>1, ListsAre DEF m
  <1> HIDE DEF t
  <1>7. Holds(t, u)
    <2>1. Whole(t) /\ DOMAIN t.mistakes \subseteq DOMAIN z
      BY <1>4, <1>6 DEF Holds
    <2> QED BY <1>4, <2>1, MistakesPut
  <1> QED BY <1>1, <1>6, <1>7, HoldsOn

LEMMA ToSeqIs ==
  ASSUME NEW S, IsFiniteSet(S)
  PROVE  LET f == SetToSeq(S) IN f \in Seq(S)
  <1>1. Cardinality(S) \in Nat
    BY FS_CardinalityType
  <1>2. ExistsBijection(1..Cardinality(S), S)
    BY FS_CardinalityType
  <1>3. PICK f \in Bijection(1..Cardinality(S), S) : TRUE
    BY <1>2 DEF ExistsBijection
  <1>4. f \in [1..Cardinality(S) -> S] /\ IsInjective(f)
    BY <1>3 DEF Bijection, Injection, Surjection, IsInjective
  <1>5. SetToSeq(S) \in [1..Cardinality(S) -> S]
    BY <1>4 DEF SetToSeq
  <1> QED BY <1>1, <1>5, SeqDef

\* Answers to the quiz are recorded after all other records.
LEMMA RecordsJoin ==
  ASSUME NEW s, Whole(s), NEW z, Rows(z, RowFields.records),
         \A i \in DOMAIN z : z[i].kind # "path_validation" /\ z[i].q \in QuizBank,
         NEW t, t = [s EXCEPT !.records = s.records \o z]
  PROVE  Holds(s, t)
  <1> DEFINE x == s.records
             y == x \o z
             F == RowFields.records
             S == {x[i] : i \in DOMAIN x} \cup {z[i] : i \in DOMAIN z}
             m == Len(x)
             n == Len(z)
  <1>1. Rows(x, F) /\ Rows(z, F)
    BY ShapedRows DEF Whole
  <1>2. /\ m \in Nat /\ DOMAIN x = 1..m /\ n \in Nat /\ DOMAIN z = 1..n
        /\ \A i \in DOMAIN x : DOMAIN x[i] = F
        /\ \A i \in DOMAIN z : DOMAIN z[i] = F
    <2> HIDE DEF x, F
    <2> QED BY <1>1, RowsAre DEF Rows
  <1>3. x \in Seq(S) /\ z \in Seq(S)
    <2> HIDE DEF x, F
    <2> DEFINE A == {x[i] : i \in DOMAIN x}
               B == {z[i] : i \in DOMAIN z}
    <2>1. x \in Seq(A) /\ z \in Seq(B)
      BY <1>1, RowsInSeq
    <2>2. A \subseteq S /\ B \subseteq S
      OBVIOUS
    <2> HIDE DEF A, B, S
    <2> QED BY <2>1, <2>2, SeqMonotonic
  <1> HIDE DEF x, F, S
  <1>4. /\ y \in Seq(S) /\ Len(y) = m + n
        /\ \A i \in 1..(m + n) : y[i] = IF i <= m THEN x[i] ELSE z[i - m]
    BY <1>3, ConcatProperties
  <1> HIDE DEF y
  <1>5. y = [i \in 1..(m + n) |-> y[i]] /\ m + n \in Nat
    BY <1>2, <1>4, LenProperties
  <1>6. \A i \in 1..(m + n) : IF i <= m THEN i \in DOMAIN x /\ y[i] = x[i]
                              ELSE i - m \in DOMAIN z /\ y[i] = z[i - m]
    BY <1>2, <1>4
  <1>7. \A i \in 1..(m + n) : DOMAIN y[i] = F
    BY <1>2, <1>6
  <1>8. Rows(y, F) /\ DOMAIN y = 1..(m + n)
    BY <1>5, <1>7, RowsFrom
  <1>9. /\ Shaped(t) /\ t.records = y
        /\ \A g \in Lists \cup Others : g # "records" => t[g] = s[g]
    <2>1. Shaped(s) /\ Rows(y, RowFields.records)
      BY <1>8 DEF Whole, F
    <2>2. t = [s EXCEPT !.records = y]
      BY DEF y, x
    <2> QED BY ONLY <2>1, <2>2, RecordsPut
  <1>10. /\ t.quizzes = s.quizzes /\ t.mistakes = s.mistakes /\ t.tries = s.tries
         /\ t.tasks = s.tasks /\ t.props = s.props
    BY <1>9, ListsAre
  <1>11. QuizRows(t)
    BY <1>10 DEF QuizRows, Whole
  <1>12. CheckRows(t)
    <2>1. \A p \in DOMAIN t.props : t.props[p].q \in CheckBank \cup {NoQuestion}
      BY <1>10 DEF Whole, CheckRows
    <2>2. ASSUME NEW i \in DOMAIN y
          PROVE  IF y[i].kind = "path_validation"
                 THEN /\ y[i].src \in DOMAIN s.props
                      /\ y[i].q = s.props[y[i].src].q
                      /\ y[i].q \in CheckBank
                      /\ s.props[y[i].src].status # "pending_validation"
                      /\ i \in DOMAIN x /\ y[i] = x[i]
                 ELSE y[i].q \in QuizBank
      <3>1. i \in 1..(m + n)
        BY <1>8, <2>2
      <3>2. CASE i <= m
        <4>1. i \in DOMAIN s.records /\ y[i] = s.records[i]
          BY <1>6, <3>1, <3>2 DEF x
        <4> QED BY <4>1 DEF Whole, CheckRows, x
      <3>3. CASE ~(i <= m)
        <4>1. i - m \in DOMAIN z /\ y[i] = z[i - m]
          BY <1>6, <3>1, <3>3
        <4> QED BY <4>1
      <3> QED BY <3>2, <3>3
    <2>3. \A i, j \in DOMAIN y :
            i < j /\ y[i].kind = "path_validation"
                  /\ y[j].kind = "path_validation" => y[i].src # y[j].src
      <3>1. \A i, j \in DOMAIN x :
              i < j /\ x[i].kind = "path_validation"
                    /\ x[j].kind = "path_validation" => x[i].src # x[j].src
        BY DEF Whole, CheckRows, x
      <3> QED BY <2>2, <3>1
    <2> QED BY <1>9, <1>10, <2>1, <2>2, <2>3 DEF CheckRows
  <1> QED BY <1>9, <1>10, <1>11, <1>12 DEF Holds, Whole, KeepsQuestions, ChecksDiffer, TasksNamed

\* The records z are added for the answers of quiz a.
Graded(s, a, z) ==
  /\ Rows(z, RowFields.records)
  /\ \A i \in DOMAIN z : z[i].kind # "path_validation" /\ z[i].q \in QuizBank
  /\ Materialized(s, a) = [s EXCEPT !.records = s.records \o z]

LEMMA MaterializedIs ==
  ASSUME NEW s, Whole(s), NEW a \in DOMAIN s.quizzes
  PROVE  \E z : Graded(s, a, z)
  <1> DEFINE answers == s.quizzes[a].answers
             known   == {s.records[i].q : i \in {j \in DOMAIN s.records :
                           s.records[j].kind = "graded_quiz" /\ s.records[j].src = a}}
             new     == SetToSeq(DOMAIN answers \ known)
             z == [i \in DOMAIN new |-> Record(new[i], "graded_quiz", a, answers[new[i]] = "right")]
             x == s.records
  <1>1. Materialized(s, a) = [s EXCEPT !.records = x \o z]
    BY DEF Materialized
  <1>2. DOMAIN answers \subseteq QuizBank
    BY SideRows
  <1>3. IsFiniteSet(DOMAIN answers \ known)
    <2>1. DOMAIN answers \ known \subseteq Questions
      BY <1>2, BankAssumption
    <2> HIDE DEF answers, known
    <2> QED BY <2>1, BankAssumption, FS_Subset
  <1>4. /\ Len(new) \in Nat /\ DOMAIN new = 1..Len(new)
        /\ \A i \in DOMAIN new : new[i] \in QuizBank
    <2> DEFINE S == DOMAIN answers \ known
    <2> HIDE DEF S
    <2>1. new \in Seq(S)
      BY <1>3, ToSeqIs DEF S
    <2>2. S \subseteq QuizBank
      BY <1>2 DEF S
    <2> HIDE DEF new
    <2> QED BY <2>1, <2>2, LenProperties, ElementOfSeq
  <1> HIDE DEF answers, known, new, x
  <1>5. \A i \in DOMAIN new : /\ DOMAIN z[i] = RowFields.records
                              /\ z[i].kind = "graded_quiz" /\ z[i].q \in QuizBank
    BY <1>4 DEF Record, RowFields
  <1>6. z = [i \in 1..Len(new) |-> z[i]]
    BY <1>4
  <1> HIDE DEF z
  <1>7. Rows(z, RowFields.records) /\ DOMAIN z = DOMAIN new
    BY <1>4, <1>5, <1>6, RowsFrom
  <1>8. Materialized(s, a) = [s EXCEPT !.records = s.records \o z]
    BY <1>1 DEF x
  <1>9. \A i \in DOMAIN z : z[i].kind # "path_validation" /\ z[i].q \in QuizBank
    BY <1>5, <1>7
  <1> QED BY <1>7, <1>8, <1>9 DEF Graded

LEMMA MaterializedHolds ==
  ASSUME NEW s, Whole(s), NEW a \in DOMAIN s.quizzes
  PROVE  Holds(s, Materialized(s, a))
  <1>1. PICK z : Graded(s, a, z)
    BY MaterializedIs
  <1> QED BY <1>1, RecordsJoin DEF Graded

-----------------------------------------------------------------------------
(* Induction over the natural numbers, for sets                            *)

LEMMA LeastNumber ==
  ASSUME NEW T \in SUBSET Nat, T # {}
  PROVE  \E x \in T : \A y \in T : x <= y
  <1> DEFINE R == {ss \in Nat \X Nat : ss[1] < ss[2]}
  <1>1. IsWellFoundedOn(R, Nat)
    BY ONLY NatLessThanWellFounded, Zenon DEF OpToRel
  <1>2. \A x, y \in Nat : y < x => <<y, x>> \in R
    OBVIOUS
  <1> HIDE DEF R
  <1>3. PICK x \in T : \A y \in T : ~(<<y, x>> \in R)
    BY <1>1, WFMin
  <1>4. \A y \in T : ~(y < x)
    BY <1>2, <1>3
  <1> QED BY <1>4

LEMMA SetInduction ==
  ASSUME NEW S \in SUBSET Nat, 0 \in S, \A n \in S : n + 1 \in S
  PROVE  S = Nat
  <1>1. SUFFICES ASSUME Nat \ S # {}
                 PROVE  FALSE
    OBVIOUS
  <1>2. PICK x \in Nat \ S : \A y \in Nat \ S : x <= y
    BY <1>1, LeastNumber
  <1>3. x - 1 \in S /\ x - 1 + 1 = x
    BY <1>2
  <1> QED BY <1>2, <1>3

-----------------------------------------------------------------------------
(* The answers of a quiz, judged one after another                         *)

\* u goes from t through n records, some of which are judged.
Successive(t, u, n, outcome) ==
  /\ u[0] = t
  /\ \A m \in Nat : m + 1 <= n =>
       u[m + 1] = u[m] \/ u[m + 1] = Evaluate(u[m], u[m].mistakes, m + 1, outcome)

LEMMA EvaluatedIs ==
  ASSUME NEW t, Shaped(t), NEW mine, NEW outcome
  PROVE  /\ Len(t.records) \in Nat
         /\ \E u : /\ Successive(t, u, Len(t.records), outcome)
                  /\ Evaluated(t, mine, outcome) = u[Len(t.records)]
  <1> DEFINE n == Len(t.records)
             HasMistake(i) == \E m \in DOMAIN t.mistakes :
                                KnowledgeOf[t.mistakes[m].q] = KnowledgeOf[t.records[i].q]
             After(s, i) == IF i \in mine /\ HasMistake(i) THEN Evaluate(s, s.mistakes, i, outcome)
                                                           ELSE s
             IsUpTo(g, m) == g = [i \in 0..m |-> IF i = 0 THEN t ELSE After(g[i - 1], i)]
             Defined == {m \in Nat : \E g : IsUpTo(g, m)}
  <1>1. n \in Nat
    BY ShapedRows, RowsAre
  <1>2. 0 \in Defined
    <2>1. IsUpTo([i \in 0..0 |-> t], 0)
      <3> HIDE DEF After
      <3> QED OBVIOUS
    <2> HIDE DEF IsUpTo
    <2> QED BY <2>1
  <1> HIDE DEF After
  <1>3. ASSUME NEW m \in Defined
        PROVE  m + 1 \in Defined
    <2>1. PICK g : IsUpTo(g, m)
      OBVIOUS
    <2> DEFINE h == [i \in 0..(m + 1) |-> IF i = m + 1 THEN After(g[m], m + 1) ELSE g[i]]
    <2>2. IsUpTo(h, m + 1)
      <3>1. \A i \in 0..(m + 1) : h[i] = IF i = 0 THEN t ELSE After(h[i - 1], i)
        <4>1. TAKE i \in 0..(m + 1)
        <4>2. CASE i = m + 1
          <5>1. h[i] = After(g[m], i) /\ i # 0 /\ h[i - 1] = g[m]
            BY <4>2
          <5> QED BY <5>1
        <4>3. CASE i # m + 1
          <5>1. i \in 0..m /\ h[i] = g[i] /\ (i # 0 => i - 1 \in 0..m /\ h[i - 1] = g[i - 1])
            BY <4>3
          <5>2. g[i] = IF i = 0 THEN t ELSE After(g[i - 1], i)
            BY <2>1, <5>1
          <5> QED BY <5>1, <5>2
        <4> QED BY <4>2, <4>3
      <3> QED BY <3>1
    <2> HIDE DEF h
    <2>3. m + 1 \in Nat
      OBVIOUS
    <2>4. \E g1 : IsUpTo(g1, m + 1)
      <3> HIDE DEF IsUpTo
      <3> QED BY <2>2
    <2> QED BY <2>3, <2>4
  <1>4. Defined = Nat
    <2> HIDE DEF Defined
    <2> QED BY <1>2, <1>3, SetInduction DEF Defined
  <1> DEFINE upTo == CHOOSE g : g = [i \in 0..n |-> IF i = 0 THEN t ELSE After(g[i - 1], i)]
  <1>5. IsUpTo(upTo, n)
    <2>1. \E g : IsUpTo(g, n)
      BY <1>1, <1>4
    <2> QED BY <2>1
  <1>6. Evaluated(t, mine, outcome) = upTo[n]
    BY DEF Evaluated, After
  <1>7. \A m \in 0..n : upTo[m] = IF m = 0 THEN t ELSE After(upTo[m - 1], m)
    <2> HIDE DEF upTo
    <2> QED BY <1>1, <1>5
  <1> HIDE DEF upTo
  <1>8. Successive(t, upTo, n, outcome)
    <2>1. upTo[0] = t
      BY <1>1, <1>7
    <2>2. ASSUME NEW m \in Nat, m + 1 <= n
          PROVE  upTo[m + 1] = upTo[m]
                 \/ upTo[m + 1] = Evaluate(upTo[m], upTo[m].mistakes, m + 1, outcome)
      <3>1. m + 1 - 1 = m /\ m + 1 \in 0..n /\ m + 1 # 0
        BY <1>1, <2>2
      <3>2. upTo[m + 1] = After(upTo[m], m + 1)
        BY <1>7, <3>1
      <3> HIDE DEF HasMistake
      <3> QED BY <3>2 DEF After
    <2> HIDE DEF n
    <2> QED BY <2>1, <2>2 DEF Successive
  <1> HIDE DEF n
  <1>9. n \in Nat /\ Evaluated(t, mine, outcome) = upTo[n]
    BY <1>1, <1>6
  <1> QED BY <1>8, <1>9 DEF n

LEMMA EvaluatedKeeps ==
  ASSUME NEW t, Shaped(t), NEW mine, NEW outcome
  PROVE  Keeps(t, Evaluated(t, mine, outcome))
  <1> DEFINE n == Len(t.records)
  <1>1. PICK u : n \in Nat /\ Successive(t, u, n, outcome) /\ Evaluated(t, mine, outcome) = u[n]
    BY EvaluatedIs
  <1> HIDE DEF n
  <1> DEFINE Undisturbed == {m \in Nat : m <= n => Keeps(t, u[m])}
  <1>2. 0 \in Undisturbed
    BY <1>1, KeepsSelf DEF Successive
  <1>3. ASSUME NEW m \in Undisturbed
        PROVE  m + 1 \in Undisturbed
    <2>1. SUFFICES ASSUME m + 1 <= n
                   PROVE  Keeps(t, u[m + 1])
      OBVIOUS
    <2>2. Keeps(t, u[m])
      BY <1>1, <2>1
    <2> DEFINE s == u[m]
    <2>3. u[m + 1] = s \/ u[m + 1] = Evaluate(s, s.mistakes, m + 1, outcome)
      BY <1>1, <2>1 DEF Successive
    <2> HIDE DEF s
    <2>4. Keeps(t, s) /\ Shaped(s)
      BY <2>2 DEF Keeps, s
    <2>5. Keeps(s, Evaluate(s, s.mistakes, m + 1, outcome))
      BY <2>4, EvaluateKeeps
    <2> QED BY <2>3, <2>4, <2>5, KeepsOn
  <1>4. Undisturbed = Nat
    <2> HIDE DEF Undisturbed
    <2> QED BY <1>2, <1>3, SetInduction DEF Undisturbed
  <1> QED BY <1>1, <1>4

LEMMA CompleteQuizHolds ==
  ASSUME Whole(db), NEW a \in DOMAIN db.quizzes, NEW outcome, CompleteQuiz(a, outcome)
  PROVE  Holds(db, db')
  <1> DEFINE x == db.quizzes
             row == [db.quizzes[a] EXCEPT !.status = "completed"]
             y == [x EXCEPT ![a] = row]
             b == [db EXCEPT !.quizzes = y]
             t == Materialized(b, a)
             mine == {i \in DOMAIN t.records : /\ t.records[i].kind = "graded_quiz"
                                               /\ t.records[i].src = a}
             u == Evaluated(t, mine, outcome)
  <1>1. db' = Invalidated(db, a) \/ db' = u
    <2>1. b = [db EXCEPT !.quizzes[a].status = "completed"]
      OBVIOUS
    <2> HIDE DEF b
    <2> QED BY <2>1 DEF CompleteQuiz, Commit, CommitOn
  <1>2. /\ DOMAIN row = RowFields.quizzes /\ DOMAIN row.answers \subseteq QuizBank
        /\ \A c \in DOMAIN x : DOMAIN x[c].answers \subseteq QuizBank
    BY SideRows DEF RowFields
  <1>3. Rows(x, RowFields.quizzes)
    BY ShapedRows DEF Whole
  <1> HIDE DEF row, x
  <1>4. /\ Rows(y, RowFields.quizzes) /\ DOMAIN y = DOMAIN x
        /\ \A c \in DOMAIN y : DOMAIN y[c].answers \subseteq QuizBank
    <2>1. /\ Rows(y, RowFields.quizzes) /\ DOMAIN y = DOMAIN x /\ y[a] = row
          /\ \A c \in DOMAIN x : c # a => y[c] = x[c]
      BY <1>2, <1>3, RowsPut DEF x
    <2> QED BY <1>2, <2>1
  <1> HIDE DEF y
  <1>5. Holds(db, b) /\ b.quizzes = y
    BY <1>4, QuizzesPut
  <1> HIDE DEF b
  <1>6. Holds(b, t)
    <2>1. Whole(b) /\ a \in DOMAIN b.quizzes
      BY <1>4, <1>5 DEF Holds, x
    <2> QED BY <2>1, MaterializedHolds
  <1> HIDE DEF t, mine
  <1>7. Holds(t, u)
    <2>1. Whole(t) /\ Shaped(t)
      BY <1>6 DEF Holds, Whole
    <2>2. Keeps(t, u)
      BY <2>1, EvaluatedKeeps
    <2> HIDE DEF u
    <2> QED BY <2>1, <2>2, KeepsHolds
  <1> HIDE DEF u
  <1>8. Holds(db, u)
    BY <1>5, <1>6, <1>7, HoldsOn
  <1>9. Holds(db, Invalidated(db, a))
    BY InvalidatedHolds
  <1> QED BY <1>1, <1>8, <1>9

-----------------------------------------------------------------------------
(* The bank and the catalog                                                *)

LEMMA TwoOthers ==
  ASSUME NEW s, Whole(s), NEW f \in Others, NEW g \in Others, NEW x, NEW y,
         NEW t, t = [[s EXCEPT ![f] = x] EXCEPT ![g] = y]
  PROVE  Holds(s, t)
  <1> DEFINE a == [s EXCEPT ![f] = x]
  <1>1. Holds(s, a)
    BY OtherHolds
  <1> HIDE DEF a
  <1>2. t = [a EXCEPT ![g] = y]
    BY DEF a
  <1>3. Whole(a)
    BY <1>1 DEF Holds
  <1>4. Holds(a, t)
    BY <1>2, <1>3, OtherHolds
  <1> QED BY <1>1, <1>4, HoldsOn

LEMMA EditsHold ==
  ASSUME Whole(db),
         \/ \E q \in Questions : DisableQuestion(q)
         \/ \E d \in Documents : PublishDocument(d)
         \/ \E w \in Rewrites : RewriteItem(w.item, w.needs)
  PROVE  Holds(db, db') /\ before' = db /\ late' = late
  <1>1. "rel" \in Others /\ "bank" \in Others
    BY DEF Others
  <1>2. DOMAIN db = Lists \cup Others
    BY ShapedRows DEF Whole
  <1>3. \A x, y : [db EXCEPT !.rel = x, !.bank = y] = [[db EXCEPT !["rel"] = x] EXCEPT !["bank"] = y]
    BY <1>2 DEF Others
  <1>4. ASSUME NEW q \in Questions, DisableQuestion(q)
        PROVE  Holds(db, db') /\ before' = db /\ late' = late
    <2>1. db' = [db EXCEPT !["bank"] = db.bank \ {q}] /\ before' = db /\ late' = late
      BY <1>4 DEF DisableQuestion, Edit
    <2> QED BY <1>1, <2>1, OtherHolds
  <1>5. ASSUME NEW d \in Documents, PublishDocument(d)
        PROVE  Holds(db, db') /\ before' = db /\ late' = late
    <2>1. PICK g \in ProposalsOf[d] : Edit([db EXCEPT !.rel = @ \cup g.pairs, !.bank = Kept(@, Items(d))])
      BY <1>5 DEF PublishDocument
    <2> DEFINE x == db.rel \cup g.pairs
               y == Kept(db.bank, Items(d))
    <2>2. db' = [db EXCEPT !.rel = x, !.bank = y] /\ before' = db /\ late' = late
      BY <2>1 DEF Edit
    <2> HIDE DEF x, y
    <2>3. db' = [[db EXCEPT !["rel"] = x] EXCEPT !["bank"] = y]
      BY <1>3, <2>2
    <2> QED BY <1>1, <2>2, <2>3, TwoOthers
  <1>6. ASSUME NEW w \in Rewrites, RewriteItem(w.item, w.needs)
        PROVE  Holds(db, db') /\ before' = db /\ late' = late
    <2> DEFINE x == {r \in db.rel : r[2] # w.item} \cup {<<k, w.item>> : k \in w.needs}
               y == Kept(db.bank, {w.item})
    <2>2. db' = [db EXCEPT !.rel = x, !.bank = y] /\ before' = db /\ late' = late
      BY <1>6 DEF RewriteItem, Edit
    <2> HIDE DEF x, y
    <2>3. db' = [[db EXCEPT !["rel"] = x] EXCEPT !["bank"] = y]
      BY <1>3, <2>2
    <2> QED BY <1>1, <2>2, <2>3, TwoOthers
  <1> QED BY <1>4, <1>5, <1>6

-----------------------------------------------------------------------------
(* Mastery checks                                                          *)

LEMMA CheckAdded ==
  ASSUME NEW s, Whole(s), NEW x, DOMAIN x = PropFields, x.q \in CheckBank \cup {NoQuestion},
         NEW t, t = [s EXCEPT !.props = Append(@, x)]
  PROVE  /\ Whole(t) /\ KeepsQuestions(s, t) /\ (TasksNamed(s) => TasksNamed(t))
         /\ \/ x.q = NoQuestion
            \/ \A i \in DOMAIN s.props : x.q # s.props[i].q
            => (ChecksDiffer(s) => ChecksDiffer(t))
  <1> DEFINE n == Len(s.props) + 1
  <1>1. /\ Shaped(t) /\ DOMAIN t.props = DOMAIN s.props \cup {n} /\ t.props[n] = x
        /\ n \notin DOMAIN s.props /\ \A i \in DOMAIN s.props : t.props[i] = s.props[i]
        /\ \A g \in Lists \cup Others : g # "props" => t[g] = s[g]
    BY PropAdded DEF Whole
  <1> HIDE DEF n
  <1>2. /\ t.records = s.records /\ t.quizzes = s.quizzes
        /\ t.mistakes = s.mistakes /\ t.tries = s.tries /\ t.tasks = s.tasks
    BY <1>1, ListsAre
  <1>3. QuizRows(t)
    BY <1>2 DEF Whole, QuizRows
  <1>4. CheckRows(t)
    BY <1>1, <1>2 DEF Whole, CheckRows
  <1>5. KeepsQuestions(s, t)
    BY <1>1 DEF KeepsQuestions
  <1>6. TasksNamed(s) => TasksNamed(t)
    <2>1. /\ DOMAIN s.props \subseteq DOMAIN t.props
          /\ \A i \in DOMAIN s.props : t.props[i].task = s.props[i].task
      BY <1>1
    <2>2. t.tasks = s.tasks
      BY <1>2
    <2> QED BY ONLY <2>1, <2>2, TasksHold
  <1>7. ASSUME x.q = NoQuestion \/ \A i \in DOMAIN s.props : x.q # s.props[i].q,
               ChecksDiffer(s)
        PROVE  ChecksDiffer(t)
    <2>1. SUFFICES ASSUME NEW i \in DOMAIN t.props, NEW j \in DOMAIN t.props, i # j,
                          t.props[i].q # NoQuestion
                   PROVE  t.props[i].q # t.props[j].q
      BY DEF ChecksDiffer
    <2>2. CASE i = n
      BY <1>1, <1>7, <2>1, <2>2
    <2>3. CASE j = n
      BY <1>1, <1>7, <2>1, <2>3
    <2>4. CASE i # n /\ j # n
      BY <1>1, <1>7, <2>1, <2>4 DEF ChecksDiffer
    <2> QED BY <2>2, <2>3, <2>4
  <1> QED BY <1>1, <1>3, <1>4, <1>5, <1>6, <1>7 DEF Whole

LEMMA CheckableIs ==
  ASSUME NEW t, NEW k, NEW ids, NEW q \in Checkable(t, k, ids)
  PROVE  q \in CheckBank /\ \A i \in DOMAIN t.props : q # t.props[i].q
  BY DEF Checkable, SeenQuestions

LEMMA RequestMasteryStep ==
  ASSUME Whole(db), NEW v, NEW k, NEW q, RequestMastery(v, k, q)
  PROVE  /\ Whole(db') /\ KeepsQuestions(db, db') /\ (TasksNamed(db) => TasksNamed(db'))
         /\ v = db => Holds(db, db')
  <1> DEFINE x == Assessment(v, "mastery_up", q)
  <1>1. db' = [db EXCEPT !.props = Append(@, x)] /\ q \in Checkable(v, k, CurrentIds(v.path))
    BY DEF RequestMastery, CommitOn
  <1>2. DOMAIN x = PropFields /\ x.q = q
    BY ProposalIs DEF Assessment
  <1> HIDE DEF x
  <1>3. q \in CheckBank /\ \A i \in DOMAIN v.props : q # v.props[i].q
    BY <1>1, CheckableIs
  <1>4. /\ Whole(db') /\ KeepsQuestions(db, db') /\ (TasksNamed(db) => TasksNamed(db'))
        /\ (\A i \in DOMAIN db.props : x.q # db.props[i].q) => (ChecksDiffer(db) => ChecksDiffer(db'))
    BY <1>1, <1>2, <1>3, CheckAdded
  <1> QED BY <1>2, <1>3, <1>4 DEF Holds

LEMMA TutorHolds ==
  ASSUME Whole(db), NEW k, NEW intent, Tutor(k, intent)
  PROVE  Holds(db, db')
  <1> DEFINE sig  == Append(db.signals, intent)
             last == Len(sig)
             hypothesis == IF intent = "too_easy" THEN "mastery_up" ELSE "support_down"
             New(q) == IF q = NoQuestion THEN Proposal(db, hypothesis, q, "collecting")
                                         ELSE Assessment(db, hypothesis, q)
             Raise(q) == [db EXCEPT !.signals = SubSeq(sig, 1, last - 2), !.props = Append(@, New(q))]
             found == Checkable(db, k, CurrentIds(db.path))
  <1>o. "signals" \in Others /\ DOMAIN db = Lists \cup Others
    BY ShapedRows DEF Others, Whole
  <1>1. \/ \E x : db' = [db EXCEPT !.signals = x]
        \/ \E q \in IF found = {} THEN {NoQuestion} ELSE found : db' = Raise(q)
    <2> HIDE DEF found
    <2>1. CASE Pending(db) # {} \/ last < 2
      BY <2>1 DEF Tutor, Commit, CommitOn
    <2>2. CASE ~(Pending(db) # {} \/ last < 2) /\ sig[last - 1] # intent
      BY <2>2 DEF Tutor, Commit, CommitOn
    <2>3. CASE ~(Pending(db) # {} \/ last < 2) /\ sig[last - 1] = intent
      BY <2>3 DEF Tutor, Commit, CommitOn, found
    <2> QED BY <2>1, <2>2, <2>3
  <1> HIDE DEF Raise, found
  <1>2. ASSUME NEW x, db' = [db EXCEPT !.signals = x]
        PROVE  Holds(db, db')
    BY <1>o, <1>2, OtherHolds
  <1>3. ASSUME NEW q \in IF found = {} THEN {NoQuestion} ELSE found, db' = Raise(q)
        PROVE  Holds(db, db')
    <2> DEFINE x == New(q)
               y == SubSeq(sig, 1, last - 2)
               a == [db EXCEPT !["signals"] = y]
    <2>1. DOMAIN x = PropFields /\ x.q = q
      BY ProposalIs DEF Assessment
    <2>2. \/ q = NoQuestion
          \/ q \in CheckBank /\ \A i \in DOMAIN db.props : q # db.props[i].q
      BY <1>3, CheckableIs DEF found
    <2>3. db' = [a EXCEPT !.props = Append(@, x)]
      <3>1. db' = [db EXCEPT !.signals = y, !.props = Append(@, x)]
        BY <1>3 DEF Raise
      <3> HIDE DEF x, y
      <3> QED BY <1>o, <3>1, ListsAre DEF Others
    <2> HIDE DEF x, y
    <2>4. Holds(db, a) /\ a.props = db.props
      <3>1. Holds(db, a)
        BY <1>o, OtherHolds
      <3> QED BY <1>o, <3>1, ListsAre
    <2> HIDE DEF a
    <2>5. Holds(a, db')
      <3>1. Whole(a) /\ x.q \in CheckBank \cup {NoQuestion}
        BY <2>1, <2>2, <2>4 DEF Holds
      <3>2. /\ Whole(db') /\ KeepsQuestions(a, db') /\ (TasksNamed(a) => TasksNamed(db'))
            /\ \/ x.q = NoQuestion
               \/ \A i \in DOMAIN a.props : x.q # a.props[i].q
               => (ChecksDiffer(a) => ChecksDiffer(db'))
        BY <2>1, <2>3, <3>1, CheckAdded
      <3> QED BY <2>1, <2>2, <2>4, <3>2 DEF Holds
    <2> QED BY <2>4, <2>5, HoldsOn
  <1> QED BY <1>1, <1>2, <1>3

\* A record is added.
LEMMA RecordAdded ==
  ASSUME NEW s, Shaped(s), NEW e, DOMAIN e = RecordFields,
         NEW t, t = [s EXCEPT !.records = Append(@, e)]
  PROVE  LET n == Len(s.records) + 1
         IN /\ Shaped(t) /\ DOMAIN t.records = DOMAIN s.records \cup {n} /\ t.records[n] = e
            /\ \A i \in DOMAIN s.records : t.records[i] = s.records[i] /\ i < n
            /\ \A g \in Lists \cup Others : g # "records" => t[g] = s[g]
  <1> DEFINE z == s.records
             y == Append(z, e)
             n == Len(z) + 1
             F == RecordFields
  <1>1. t = [s EXCEPT !.records = y]
    OBVIOUS
  <1>2. Rows(z, F) /\ DOMAIN e = F
    BY ShapedRows DEF RecordFields
  <1>3. Len(z) \in Nat /\ DOMAIN z = 1..Len(z)
    BY <1>2, RowsAre
  <1> HIDE DEF z, F
  <1>4. /\ Rows(y, F) /\ DOMAIN y = DOMAIN z \cup {n} /\ y[n] = e
        /\ \A i \in DOMAIN z : y[i] = z[i]
    BY <1>2, RowsAppend
  <1>5. \A i \in DOMAIN z : i < n
    BY <1>3
  <1> HIDE DEF y
  <1>6. Shaped(t) /\ t.records = y /\ \A g \in Lists \cup Others : g # "records" => t[g] = s[g]
    <2>1. Rows(y, RowFields.records)
      BY <1>4 DEF F, RecordFields
    <2> QED BY ONLY Shaped(s), <1>1, <2>1, RecordsPut
  <1> QED BY <1>4, <1>5, <1>6 DEF z

\* A check that waited for its answer gets it, and evidence is judged.
LEMMA AnsweredHolds ==
  ASSUME NEW s, Whole(s), NEW p \in DOMAIN s.props, s.props[p].status = "pending_validation",
         s.props[p].q # NoQuestion, NEW a, NEW n,
         DOMAIN a.records = DOMAIN s.records \cup {n},
         a.records[n].q = s.props[p].q, a.records[n].kind = "path_validation", a.records[n].src = p,
         \A i \in DOMAIN s.records : a.records[i] = s.records[i] /\ i < n,
         a.props = s.props, a.quizzes = s.quizzes, a.mistakes = s.mistakes, a.tries = s.tries,
         a.tasks = s.tasks, NEW t, Keeps(a, t), t.props[p].status # "pending_validation"
  PROVE  Holds(s, t)
  <1>1. Shaped(t) /\ QuizRows(t)
    BY DEF Keeps, Whole, QuizRows
  <1>2. KeepsQuestions(s, t)
    BY DEF Keeps, KeepsQuestions
  <1>3. ChecksDiffer(s) => ChecksDiffer(t)
    BY DifferHold DEF Keeps
  <1>4. TasksNamed(s) => TasksNamed(t)
    BY TasksHold DEF Keeps
  <1>5. \A i \in DOMAIN t.props : t.props[i].q \in CheckBank \cup {NoQuestion}
    <2>1. SUFFICES ASSUME NEW i \in DOMAIN t.props
                   PROVE  t.props[i].q \in CheckBank \cup {NoQuestion}
      OBVIOUS
    <2>2. CASE i \in DOMAIN s.props
      <3>1. s.props[i].q \in CheckBank \cup {NoQuestion}
        BY <2>2 DEF Whole, CheckRows
      <3> QED BY <2>2, <3>1 DEF Keeps
    <2>3. CASE i \notin DOMAIN s.props
      BY <2>3 DEF Keeps
    <2> QED BY <2>2, <2>3
  <1>6. /\ DOMAIN t.records = DOMAIN s.records \cup {n}
        /\ \A i \in DOMAIN s.records : /\ i < n /\ t.records[i].q = s.records[i].q
                                       /\ t.records[i].kind = s.records[i].kind
                                       /\ t.records[i].src = s.records[i].src
        /\ t.records[n].q = s.props[p].q /\ t.records[n].kind = "path_validation"
        /\ t.records[n].src = p
    BY DEF Keeps
  <1>7. \A i \in DOMAIN s.props :
          /\ i \in DOMAIN t.props /\ t.props[i].q = s.props[i].q
          /\ t.props[i].status = "pending_validation" => s.props[i].status = "pending_validation"
    BY DEF Keeps
  <1>8. ASSUME NEW i \in DOMAIN t.records
        PROVE  IF t.records[i].kind = "path_validation"
               THEN /\ t.records[i].src \in DOMAIN t.props
                    /\ t.records[i].q = t.props[t.records[i].src].q
                    /\ t.records[i].q \in CheckBank
                    /\ t.props[t.records[i].src].status # "pending_validation"
               ELSE t.records[i].q \in QuizBank
    <2>1. CASE i = n
      <3>1. s.props[p].q \in CheckBank
        BY DEF Whole, CheckRows
      <3> QED BY <1>6, <1>7, <2>1, <3>1
    <2>2. CASE i \in DOMAIN s.records /\ s.records[i].kind = "path_validation"
      <3>1. /\ s.records[i].src \in DOMAIN s.props
            /\ s.records[i].q = s.props[s.records[i].src].q
            /\ s.records[i].q \in CheckBank
            /\ s.props[s.records[i].src].status # "pending_validation"
        BY <2>2 DEF Whole, CheckRows
      <3> QED BY <1>6, <1>7, <2>2, <3>1
    <2>3. CASE i \in DOMAIN s.records /\ s.records[i].kind # "path_validation"
      <3>1. s.records[i].q \in QuizBank
        BY <2>3 DEF Whole, CheckRows
      <3> QED BY <1>6, <2>3, <3>1
    <2> QED BY <1>6, <2>1, <2>2, <2>3
  <1>9. \A i, j \in DOMAIN t.records :
          i < j /\ t.records[i].kind = "path_validation"
                /\ t.records[j].kind = "path_validation" => t.records[i].src # t.records[j].src
    <2>1. SUFFICES ASSUME NEW i \in DOMAIN t.records, NEW j \in DOMAIN t.records, i < j,
                          t.records[i].kind = "path_validation",
                          t.records[j].kind = "path_validation"
                   PROVE  t.records[i].src # t.records[j].src
      OBVIOUS
    <2>2. CASE j \in DOMAIN s.records /\ i \in DOMAIN s.records
      <3>1. s.records[i].kind = "path_validation" /\ s.records[j].kind = "path_validation"
        BY <1>6, <2>1, <2>2
      <3>2. s.records[i].src # s.records[j].src
        BY <2>1, <2>2, <3>1 DEF Whole, CheckRows
      <3> QED BY <1>6, <2>2, <3>2
    <2>3. CASE j = n /\ i \in DOMAIN s.records
      <3>1. s.records[i].kind = "path_validation"
        BY <1>6, <2>1, <2>3
      <3>2. s.props[s.records[i].src].status # "pending_validation"
        BY <2>3, <3>1 DEF Whole, CheckRows
      <3> QED BY <1>6, <2>3, <3>2
    <2>4. CASE i = n
      <3>1. DOMAIN t.records \subseteq Nat /\ (j \in DOMAIN s.records => j < n)
        <4>1. Rows(t.records, RowFields.records)
          BY <1>1, ShapedRows
        <4> DEFINE x == t.records
        <4>2. DOMAIN x = 1..Len(x) /\ Len(x) \in Nat
          <5>1. Rows(x, RowFields.records)
            BY <4>1
          <5> HIDE DEF x
          <5> QED BY <5>1, RowsAre
        <4> QED BY <1>6, <4>2
      <3>2. j = n \/ j < n
        BY <1>6, <3>1
      <3> QED BY <2>1, <2>4, <3>1, <3>2
    <2> QED BY <1>6, <2>2, <2>3, <2>4
  <1> QED BY <1>1, <1>2, <1>3, <1>4, <1>5, <1>8, <1>9 DEF CheckRows, Holds, Whole

LEMMA WrittenKeeps ==
  ASSUME NEW s, Shaped(s), NEW p \in DOMAIN s.props, NEW path, NEW next, NEW affected
  PROVE  LET t == Written(s, p, path, next, affected)
         IN Keeps(s, t) /\ t.props = s.props
  <1> DEFINE placed == Reordered(next, affected, s.props[p].match)
             t == [s EXCEPT !["path"] = placed]
  <1>1. Written(s, p, path, next, affected) = s \/ Written(s, p, path, next, affected) = t
    <2> HIDE DEF t
    <2>1. t = [s EXCEPT !.path = placed]
      BY DEF t
    <2> HIDE DEF placed
    <2>2. Written(s, p, path, next, affected)
            = IF placed # path /\ placed.row = s.path.row THEN t ELSE s
      BY <2>1 DEF Written, placed
    <2> QED BY <2>2
  <1>2. "path" \in Others /\ DOMAIN s = Lists \cup Others
    BY ShapedRows DEF Others
  <1> HIDE DEF placed
  <1>3. Keeps(s, t) /\ t.props = s.props
    BY <1>2, OtherKeeps, ListsAre
  <1> QED BY <1>1, <1>3, KeepsSelf

LEMMA SettledKeeps ==
  ASSUME NEW s, Shaped(s), NEW t, NEW p \in DOMAIN s.props, NEW k, NEW revise
  PROVE  LET u == Settled(s, t, p, k, revise)
         IN Keeps(s, u) /\ u.props[p].status # "pending_validation"
  <1> DEFINE ids  == CurrentIds(t.path)
             go   == Leaves(t, p)
             next == IF go THEN Advance(t.path, ids, t.rel) ELSE t.path
             affected == {k} \cup Unmastered(t, ids)
             x == [s.props[p] EXCEPT !.status = "evidence_recorded"]
             a == Recommend(s, p, next, affected, go)
             b == [s EXCEPT !.props[p] = x]
             c == IF revise THEN a ELSE b
  <1>1. Settled(s, t, p, k, revise) = Written(c, p, t.path, next, affected)
    <2>1. [s EXCEPT !.props[p].status = "evidence_recorded"] = b
      OBVIOUS
    <2> HIDE DEF b
    <2> QED BY <2>1 DEF Settled
  <1> HIDE DEF go, next, affected
  <1>2. Keeps(s, a) /\ a.props[p].status # "pending_validation"
    BY RecommendKeeps
  <1> HIDE DEF a
  <1>3. Keeps(s, b) /\ b.props[p].status # "pending_validation"
    <2>1. DOMAIN s.props[p] = {"node", "row", "hypothesis", "q", "status", "match", "target",
                               "task"}
      BY PropRow
    <2>2. /\ DOMAIN x = PropFields /\ x.q = s.props[p].q /\ x.task = s.props[p].task
          /\ x.status = "evidence_recorded"
      BY <2>1 DEF PropFields, RowFields
    <2> HIDE DEF x
    <2>3. Keeps(s, b)
      BY <2>2, PropWritten
    <2>4. b.props[p] = x
      BY <2>2, PropPut
    <2> QED BY <2>2, <2>3, <2>4
  <1> HIDE DEF b
  <1>4. Keeps(s, c) /\ c.props[p].status # "pending_validation"
    BY <1>2, <1>3
  <1> HIDE DEF c
  <1>5. Shaped(c) /\ p \in DOMAIN c.props
    BY <1>4 DEF Keeps
  <1> DEFINE w == Written(c, p, t.path, next, affected)
  <1>6. Keeps(c, w) /\ w.props = c.props
    BY <1>5, WrittenKeeps
  <1> HIDE DEF w
  <1>7. Keeps(s, w) /\ w.props[p].status # "pending_validation"
    BY <1>4, <1>6, KeepsOn
  <1> QED BY <1>1, <1>7 DEF w

LEMMA AnswerAssessmentHolds ==
  ASSUME IInv, NEW v \in {db, before}, NEW p \in DOMAIN db.props, NEW ok, NEW revise,
         AnswerAssessment(v, p, ok, revise)
  PROVE  Holds(db, db')
  <1> DEFINE q    == v.props[p].q
             k    == KnowledgeOf[q]
             e    == Record(q, "path_validation", p, ok)
             b    == [db EXCEPT !.records = Append(@, e)]
             s0   == [db EXCEPT !.records = Append(@, e), !.signals = <<>>]
             t0   == Reading(v, s0)
             confirmed == Confirms(t0, CurrentIds(v.path), v.props[p].hypothesis, k, ok)
             used == IF v.props[p].hypothesis = "mastery_up" THEN Evidence(t0, k)
                                                             ELSE {Len(s0.records)}
             base == Basis(v, p)
             s1   == Analyze(s0, v, t0, base, used, revise)
             t1   == Seen(v, s1)
             x    == [s0.props[p] EXCEPT !.status = IF ok THEN "evidence_recorded" ELSE "rejected"]
             c    == [s0 EXCEPT !.props[p] = x]
  <1>1. db' = IF confirmed THEN Settled(s1, t1, p, k, revise) ELSE c
    <2>1. [s0 EXCEPT !.props[p].status = IF ok THEN "evidence_recorded" ELSE "rejected"] = c
      <3> HIDE DEF s0
      <3> QED OBVIOUS
    <2>2. db' = IF confirmed THEN Settled(s1, t1, p, k, revise)
                ELSE [s0 EXCEPT !.props[p].status = IF ok THEN "evidence_recorded" ELSE "rejected"]
      BY DEF AnswerAssessment, CommitOn
    <2> HIDE DEF s0, c, s1, t1, confirmed
    <2> QED BY <2>1, <2>2
  <1>b. s0 = [b EXCEPT !["signals"] = <<>>]
    <2>1. DOMAIN db = Lists \cup Others
      BY ShapedRows DEF IInv, Whole
    <2> HIDE DEF e
    <2> QED BY <2>1, ListsAre DEF Others
  <1>2. /\ q # NoQuestion /\ db.props[p].status = "pending_validation" /\ q = db.props[p].q
    BY DEF AnswerAssessment, Answerable, IInv, KeepsQuestions
  <1>3. DOMAIN e = RecordFields /\ e.q = q /\ e.kind = "path_validation" /\ e.src = p
    BY DEF Record, RecordFields, RowFields
  <1> HIDE DEF q, e, confirmed
  <1> DEFINE n == Len(db.records) + 1
  <1>4. /\ Shaped(b) /\ DOMAIN b.records = DOMAIN db.records \cup {n} /\ b.records[n] = e
        /\ \A i \in DOMAIN db.records : b.records[i] = db.records[i] /\ i < n
        /\ \A g \in Lists \cup Others : g # "records" => b[g] = db[g]
    <2>1. Shaped(db)
      BY DEF IInv, Whole
    <2> QED BY <1>3, <2>1, RecordAdded
  <1> HIDE DEF b, n
  <1>5. Keeps(b, s0) /\ Shaped(s0) /\ p \in DOMAIN s0.props
    <2>1. "signals" \in Others
      BY DEF Others
    <2>2. Keeps(b, [b EXCEPT !["signals"] = <<>>])
      BY <1>4, <2>1, OtherKeeps
    <2> HIDE DEF s0
    <2>3. Keeps(b, s0)
      BY <1>b, <2>2
    <2>4. b.props = db.props
      BY <1>4, ListsAre
    <2> QED BY <2>3, <2>4 DEF Keeps
  <1> HIDE DEF s0
  <1>6. ASSUME NEW t, Keeps(s0, t), t.props[p].status # "pending_validation"
        PROVE  Holds(db, t)
    <2>1. Whole(db)
      BY DEF IInv
    <2>2. /\ b.props = db.props /\ b.quizzes = db.quizzes /\ b.mistakes = db.mistakes
          /\ b.tries = db.tries /\ b.tasks = db.tasks
      BY <1>4, ListsAre
    <2>3. Keeps(b, t)
      BY <1>5, <1>6, KeepsOn
    <2> QED BY <1>2, <1>3, <1>4, <1>6, <2>1, <2>2, <2>3, AnsweredHolds
  <1>7. Keeps(s0, c) /\ c.props[p].status # "pending_validation"
    <2>1. DOMAIN s0.props[p] = {"node", "row", "hypothesis", "q", "status", "match", "target",
                                "task"}
      BY <1>5, PropRow
    <2>2. /\ DOMAIN x = PropFields /\ x.q = s0.props[p].q /\ x.task = s0.props[p].task
          /\ x.status # "pending_validation"
      BY <2>1 DEF PropFields, RowFields
    <2> HIDE DEF x
    <2>3. Keeps(s0, c)
      BY <1>5, <2>2, PropWritten
    <2>4. c.props[p] = x
      BY <1>5, <2>2, PropPut
    <2> QED BY <2>2, <2>3, <2>4
  <1> HIDE DEF c, t0, used, base
  <1>8. Keeps(s0, s1)
    BY <1>5, AnalyzeKeeps
  <1> HIDE DEF s1, t1
  <1> DEFINE u == Settled(s1, t1, p, k, revise)
  <1>9. Keeps(s0, u) /\ u.props[p].status # "pending_validation"
    <2>1. Shaped(s1) /\ p \in DOMAIN s1.props
      BY <1>5, <1>8 DEF Keeps
    <2>2. Keeps(s1, u) /\ u.props[p].status # "pending_validation"
      BY <2>1, SettledKeeps
    <2> HIDE DEF u
    <2> QED BY <1>8, <2>2, KeepsOn
  <1> HIDE DEF u
  <1>10. db' = u \/ db' = c
    BY <1>1 DEF u
  <1> QED BY <1>6, <1>7, <1>9, <1>10

-----------------------------------------------------------------------------
(* Corrections                                                             *)

LEMMA SweptHolds ==
  ASSUME NEW s, Whole(s)
  PROVE  LET t == Swept(s)
         IN Holds(s, t) /\ DOMAIN t.mistakes = DOMAIN s.mistakes /\ DOMAIN t.tries = DOMAIN s.tries
  <1> DEFINE m == s.mistakes
             r == s.tries
             gone == {i \in DOMAIN m : m[i].status \in Unresolved /\ m[i].q \notin s.bank}
             z == [i \in DOMAIN m |-> IF i \in gone THEN [m[i] EXCEPT !.status = "retired"] ELSE m[i]]
             w == [j \in DOMAIN r |->
                     IF r[j].status = "created" /\ r[j].item \in gone /\ m[r[j].item].try = j
                       THEN [r[j] EXCEPT !.status = "retired"] ELSE r[j]]
             a == [s EXCEPT !.mistakes = z]
             t == [a EXCEPT !.tries = w]
  <1>1. Swept(s) = t
    <2>1. Swept(s) = [s EXCEPT !.mistakes = z, !.tries = w]
      BY DEF Swept
    <2>2. DOMAIN s = Lists \cup Others
      BY ShapedRows DEF Whole
    <2> HIDE DEF z, w
    <2> QED BY <2>1, <2>2, ListsAre
  <1>2. Rows(m, RowFields.mistakes) /\ Rows(r, RowFields.tries)
    BY ShapedRows DEF Whole
  <1>3. /\ DOMAIN z = DOMAIN m /\ z = [i \in DOMAIN m |-> z[i]]
        /\ \A i \in DOMAIN m : DOMAIN z[i] = RowFields.mistakes /\ z[i].q \in QuizBank
    <2>1. \A i \in DOMAIN m : DOMAIN m[i] = {"src", "q", "status", "try"} /\ m[i].q \in QuizBank
      BY SideRows
    <2> HIDE DEF m, gone
    <2>2. \A i \in DOMAIN m : DOMAIN z[i] = {"src", "q", "status", "try"} /\ z[i].q \in QuizBank
      BY <2>1
    <2> QED BY <2>2 DEF RowFields
  <1>4. /\ DOMAIN w = DOMAIN r /\ w = [j \in DOMAIN r |-> w[j]]
        /\ \A j \in DOMAIN r : DOMAIN w[j] = RowFields.tries /\ w[j].item \in DOMAIN m
    <2>1. \A j \in DOMAIN r : DOMAIN r[j] = {"item", "status"} /\ r[j].item \in DOMAIN m
      BY SideRows
    <2> HIDE DEF r, m, gone
    <2>2. \A j \in DOMAIN r : DOMAIN w[j] = {"item", "status"} /\ w[j].item \in DOMAIN m
      BY <2>1
    <2> QED BY <2>2 DEF RowFields
  <1> HIDE DEF m, r, z, w
  <1>5. Rows(z, RowFields.mistakes) /\ Rows(w, RowFields.tries)
    BY <1>2, <1>3, <1>4, RowsMarked
  <1>6. Holds(s, a) /\ a.mistakes = z /\ a.tries = r
    <2>1. DOMAIN s.mistakes \subseteq DOMAIN z /\ \A i \in DOMAIN z : z[i].q \in QuizBank
      BY <1>3 DEF m
    <2>2. /\ Holds(s, a) /\ a.mistakes = z
          /\ \A g \in Lists \cup Others : g # "mistakes" => a[g] = s[g]
      BY <1>5, <2>1, MistakesPut
    <2> HIDE DEF a
    <2> QED BY <2>2, ListsAre DEF r
  <1> HIDE DEF a
  <1>7. Holds(a, t) /\ t.tries = w /\ t.mistakes = z
    <2>1. Whole(a) /\ \A j \in DOMAIN w : w[j].item \in DOMAIN a.mistakes
      BY <1>3, <1>4, <1>6 DEF Holds
    <2>2. /\ Holds(a, t) /\ t.tries = w
          /\ \A g \in Lists \cup Others : g # "tries" => t[g] = a[g]
      BY <1>5, <2>1, TriesPut
    <2> HIDE DEF t
    <2> QED BY <1>6, <2>2, ListsAre
  <1> HIDE DEF t
  <1>8. Holds(s, t)
    BY <1>6, <1>7, HoldsOn
  <1> QED BY <1>1, <1>3, <1>4, <1>7, <1>8 DEF m, r

LEMMA ListMistakesHolds ==
  ASSUME Whole(db), ListMistakes
  PROVE  Holds(db, db')
  BY SweptHolds DEF ListMistakes, Commit, CommitOn

LEMMA MistakeMarked ==
  ASSUME NEW s, Whole(s), NEW i \in DOMAIN s.mistakes, NEW x, DOMAIN x = RowFields.mistakes,
         x.q = s.mistakes[i].q, NEW t, t = [s EXCEPT !.mistakes = [s.mistakes EXCEPT ![i] = x]]
  PROVE  Holds(s, t)
  <1> DEFINE m == s.mistakes
             y == [m EXCEPT ![i] = x]
  <1>1. /\ Rows(m, RowFields.mistakes) /\ i \in DOMAIN m /\ x.q = m[i].q
        /\ \A j \in DOMAIN m : m[j].q \in QuizBank
    BY ShapedRows, SideRows DEF Whole
  <1>2. t = [s EXCEPT !.mistakes = y]
    OBVIOUS
  <1> HIDE DEF m
  <1>3. Rows(y, RowFields.mistakes) /\ DOMAIN y = DOMAIN m /\ \A j \in DOMAIN y : y[j].q \in QuizBank
    <2>1. /\ Rows(y, RowFields.mistakes) /\ DOMAIN y = DOMAIN m /\ y[i] = x
          /\ \A j \in DOMAIN m : j # i => y[j] = m[j]
      BY <1>1, RowsPut
    <2> QED BY <1>1, <2>1
  <1> HIDE DEF y
  <1>4. DOMAIN s.mistakes \subseteq DOMAIN y
    BY <1>3 DEF m
  <1> QED BY ONLY Whole(s), <1>2, <1>3, <1>4, MistakesPut

LEMMA StartCorrectionHolds ==
  ASSUME Whole(db), NEW i \in DOMAIN db.mistakes, StartCorrection(i)
  PROVE  Holds(db, db')
  <1> DEFINE t == Swept(db)
             e == NewTry(i)
             r == t.tries
             y == Append(r, e)
             x == [t.mistakes[i] EXCEPT !.try = Len(t.tries) + 1, !.status = "reviewing"]
             a == [t EXCEPT !.tries = y]
             u == [a EXCEPT !.mistakes = [a.mistakes EXCEPT ![i] = x]]
  <1>1. /\ Holds(db, t) /\ DOMAIN t.mistakes = DOMAIN db.mistakes /\ Whole(t)
    BY SweptHolds DEF Holds
  <1>2. db' = [t EXCEPT !.tries = Append(@, NewTry(i)), !.mistakes[i].try = Len(t.tries) + 1,
                        !.mistakes[i].status = "reviewing"]
    BY DEF StartCorrection, Commit, CommitOn
  <1> HIDE DEF t
  <1>3. /\ DOMAIN t = Lists \cup Others /\ i \in DOMAIN t.mistakes
        /\ DOMAIN t.mistakes[i] = {"src", "q", "status", "try"}
    BY <1>1, ShapedRows, SideRows DEF Whole
  <1>4. db' = u
    <2>1. db' = [t EXCEPT !.tries = y, !.mistakes = [t.mistakes EXCEPT ![i] = x]]
      <3>1. db' = [t EXCEPT !.tries = y,
                            !.mistakes = [[t.mistakes EXCEPT ![i] = [@ EXCEPT !.try = Len(t.tries) + 1]]
                                            EXCEPT ![i] = [@ EXCEPT !.status = "reviewing"]]]
        <4> DEFINE n == Len(t.tries) + 1
        <4> HIDE DEF n
        <4>1. db' = [t EXCEPT !.tries = Append(@, NewTry(i)), !.mistakes[i].try = n,
                              !.mistakes[i].status = "reviewing"]
          BY <1>2 DEF n
        <4>2. db' = [t EXCEPT !.tries = y,
                              !.mistakes = [[t.mistakes EXCEPT ![i] = [@ EXCEPT !.try = n]]
                                              EXCEPT ![i] = [@ EXCEPT !.status = "reviewing"]]]
          <5> HIDE DEF e
          <5> QED BY <1>3, <4>1, ListsAre DEF e
        <4> QED BY <4>2 DEF n
      <3> DEFINE n == Len(t.tries) + 1
                 m == t.mistakes
      <3>2. [[m EXCEPT ![i] = [@ EXCEPT !.try = n]] EXCEPT ![i] = [@ EXCEPT !.status = "reviewing"]]
              = [m EXCEPT ![i] = x]
        <4>1. i \in DOMAIN m /\ x = [m[i] EXCEPT !.try = n, !.status = "reviewing"]
          BY <1>3
        <4> HIDE DEF m, n, x
        <4> QED BY <4>1
      <3> HIDE DEF y
      <3> QED BY <3>1, <3>2
    <2>2. a.mistakes = t.mistakes
      <3> HIDE DEF y
      <3> QED BY <1>3, ListsAre
    <2> HIDE DEF x, y
    <2> QED BY <1>3, <2>1, <2>2, ListsAre
  <1>5. /\ Rows(r, RowFields.tries) /\ DOMAIN e = RowFields.tries /\ e.item = i
        /\ \A j \in DOMAIN r : r[j].item \in DOMAIN t.mistakes
    BY <1>1, ShapedRows, SideRows DEF Whole, NewTry, RowFields
  <1>6. DOMAIN x = RowFields.mistakes /\ x.q = t.mistakes[i].q
    BY <1>3 DEF RowFields
  <1> HIDE DEF e, r, x
  <1>7. Rows(y, RowFields.tries) /\ \A j \in DOMAIN y : y[j].item \in DOMAIN t.mistakes
    <2>1. /\ Rows(y, RowFields.tries) /\ DOMAIN y = DOMAIN r \cup {Len(r) + 1} /\ y[Len(r) + 1] = e
          /\ \A j \in DOMAIN r : y[j] = r[j]
      BY <1>5, RowsAppend
    <2> HIDE DEF y
    <2> QED BY <1>3, <1>5, <2>1
  <1> HIDE DEF y
  <1>8. Holds(t, a) /\ a.mistakes = t.mistakes
    <2>1. Holds(t, a) /\ \A g \in Lists \cup Others : g # "tries" => a[g] = t[g]
      BY <1>1, <1>7, TriesPut
    <2> HIDE DEF a
    <2> QED BY <2>1, ListsAre
  <1> HIDE DEF a
  <1>9. Holds(a, u)
    <2>1. Whole(a) /\ i \in DOMAIN a.mistakes /\ x.q = a.mistakes[i].q
      BY <1>3, <1>6, <1>8 DEF Holds
    <2> QED BY <1>6, <2>1, MistakeMarked
  <1> QED BY <1>1, <1>4, <1>8, <1>9, HoldsOn

LEMMA CorrectionRecorded ==
  ASSUME NEW s, Whole(s), NEW e, DOMAIN e = RecordFields, e.kind # "path_validation",
         e.q \in QuizBank, NEW t, t = [s EXCEPT !.records = Append(@, e)]
  PROVE  Holds(s, t) /\ \A g \in Lists : g # "records" => t[g] = s[g]
  <1> DEFINE n == Len(s.records) + 1
  <1>1. /\ Shaped(t) /\ DOMAIN t.records = DOMAIN s.records \cup {n} /\ t.records[n] = e
        /\ \A i \in DOMAIN s.records : t.records[i] = s.records[i] /\ i < n
        /\ \A g \in Lists \cup Others : g # "records" => t[g] = s[g]
    BY RecordAdded DEF Whole
  <1> HIDE DEF n
  <1>2. /\ t.quizzes = s.quizzes /\ t.mistakes = s.mistakes /\ t.tries = s.tries
        /\ t.tasks = s.tasks /\ t.props = s.props
    BY <1>1, ListsAre
  <1>3. QuizRows(t)
    BY <1>2 DEF QuizRows, Whole
  <1>4. CheckRows(t)
    <2>1. \A p \in DOMAIN t.props : t.props[p].q \in CheckBank \cup {NoQuestion}
      BY <1>2 DEF Whole, CheckRows
    <2>2. ASSUME NEW i \in DOMAIN t.records
          PROVE  IF t.records[i].kind = "path_validation"
                 THEN /\ t.records[i].src \in DOMAIN s.props
                      /\ t.records[i].q = s.props[t.records[i].src].q
                      /\ t.records[i].q \in CheckBank
                      /\ s.props[t.records[i].src].status # "pending_validation"
                      /\ i \in DOMAIN s.records /\ t.records[i] = s.records[i]
                 ELSE t.records[i].q \in QuizBank
      <3>1. CASE i = n
        BY <1>1, <3>1
      <3>2. CASE i \in DOMAIN s.records
        <4>1. t.records[i] = s.records[i]
          BY <1>1, <3>2
        <4> QED BY <3>2, <4>1 DEF Whole, CheckRows
      <3> QED BY <1>1, <3>1, <3>2
    <2>3. \A i, j \in DOMAIN t.records :
            i < j /\ t.records[i].kind = "path_validation"
                  /\ t.records[j].kind = "path_validation" => t.records[i].src # t.records[j].src
      <3>1. \A i, j \in DOMAIN s.records :
              i < j /\ s.records[i].kind = "path_validation"
                    /\ s.records[j].kind = "path_validation" => s.records[i].src # s.records[j].src
        BY DEF Whole, CheckRows
      <3> QED BY <2>2, <3>1
    <2> QED BY <1>2, <2>1, <2>2, <2>3 DEF CheckRows
  <1>5. Holds(s, t)
    BY <1>1, <1>2, <1>3, <1>4 DEF Holds, Whole, KeepsQuestions, ChecksDiffer, TasksNamed
  <1>6. \A g \in Lists : g # "records" => t[g] = s[g]
    BY <1>1
  <1> QED BY <1>5, <1>6

\* The tables when a correction has been answered.
Corrected(t, j, ok) ==
  LET i == t.tries[j].item IN
  [t EXCEPT !.records = Append(@, Record(t.mistakes[i].q, "mistake_correction", j, ok)),
            !.tries[j].status = IF ok THEN "passed" ELSE "failed",
            !.mistakes[i].status = IF ok THEN "consolidated" ELSE "needs_more_practice"]

LEMMA CorrectedIs ==
  ASSUME NEW t, Whole(t), NEW j \in DOMAIN t.tries, NEW ok
  PROVE  LET s == Corrected(t, j, ok)
             i == t.tries[j].item
             e == Record(t.mistakes[i].q, "mistake_correction", j, ok)
             m == [t.mistakes[i] EXCEPT !.status = IF ok THEN "consolidated" ELSE "needs_more_practice"]
         IN /\ Holds(t, s) /\ Whole(s)
            /\ s.records = Append(t.records, e) /\ s.mistakes = [t.mistakes EXCEPT ![i] = m]
            /\ \A g \in {"path", "profiles", "rel", "bank", "tasks", "quizzes"} : s[g] = t[g]
  <1> DEFINE i == t.tries[j].item
             e == Record(t.mistakes[i].q, "mistake_correction", j, ok)
             x == [t.tries[j] EXCEPT !.status = IF ok THEN "passed" ELSE "failed"]
             m == [t.mistakes[i] EXCEPT !.status = IF ok THEN "consolidated" ELSE "needs_more_practice"]
             y == [t.tries EXCEPT ![j] = x]
             w == [t.mistakes EXCEPT ![i] = m]
             a == [t EXCEPT !.records = Append(@, e)]
             b == [a EXCEPT !.tries = y]
             c == [b EXCEPT !.mistakes = [b.mistakes EXCEPT ![i] = m]]
             s == Corrected(t, j, ok)
  <1>1. /\ DOMAIN t = Lists \cup Others /\ i \in DOMAIN t.mistakes
        /\ DOMAIN t.tries[j] = {"item", "status"}
        /\ DOMAIN t.mistakes[i] = {"src", "q", "status", "try"} /\ t.mistakes[i].q \in QuizBank
    BY ShapedRows, SideRows DEF Whole
  <1>2. s = [t EXCEPT !.records = Append(@, e), !.tries = y, !.mistakes = w]
    <2> HIDE DEF e
    <2> QED BY <1>1, ListsAre DEF e, Corrected
  <1> HIDE DEF i
  <1>3. /\ DOMAIN e = RecordFields /\ e.kind # "path_validation" /\ e.q \in QuizBank
        /\ DOMAIN x = RowFields.tries /\ x.item = t.tries[j].item
        /\ DOMAIN m = RowFields.mistakes /\ m.q = t.mistakes[i].q
    BY <1>1 DEF Record, RecordFields, RowFields
  <1> HIDE DEF e, x, m, s
  <1>4. s = c
    <2>1. b.mistakes = t.mistakes
      <3> HIDE DEF y
      <3> QED BY <1>1, ListsAre
    <2>2. c = [b EXCEPT !.mistakes = w]
      BY <2>1
    <2> HIDE DEF y, c, w
    <2> QED BY <1>1, <1>2, <2>2, ListsAre
  <1>5. /\ s.records = Append(t.records, e) /\ s.mistakes = w
        /\ \A g \in {"path", "profiles", "rel", "bank", "tasks", "quizzes"} : s[g] = t[g]
    <2> HIDE DEF y, w
    <2> QED BY <1>1, <1>2, ListsAre DEF Others
  <1>6. Holds(t, a) /\ a.tries = t.tries /\ a.mistakes = t.mistakes
    <2>1. Holds(t, a) /\ \A g \in Lists : g # "records" => a[g] = t[g]
      BY <1>3, CorrectionRecorded
    <2> HIDE DEF a
    <2> QED BY <2>1, ListsAre
  <1> HIDE DEF a, c, w
  <1>7. Rows(y, RowFields.tries) /\ \A n \in DOMAIN y : y[n].item \in DOMAIN a.mistakes
    <2> DEFINE r == t.tries
    <2>1. /\ Rows(r, RowFields.tries) /\ \A n \in DOMAIN r : r[n].item \in DOMAIN t.mistakes
          /\ j \in DOMAIN r /\ x.item = r[j].item
      BY <1>3, ShapedRows, SideRows DEF Whole
    <2> HIDE DEF r
    <2>2. LET z == [r EXCEPT ![j] = x]
          IN /\ Rows(z, RowFields.tries) /\ DOMAIN z = DOMAIN r /\ z[j] = x
             /\ \A n \in DOMAIN r : n # j => z[n] = r[n]
      BY <1>3, <2>1, RowsPut
    <2>3. y = [r EXCEPT ![j] = x]
      BY DEF r
    <2> HIDE DEF y
    <2>4. /\ Rows(y, RowFields.tries) /\ DOMAIN y = DOMAIN r /\ y[j] = x
          /\ \A n \in DOMAIN r : n # j => y[n] = r[n]
      BY <2>2, <2>3
    <2> QED BY <1>6, <2>1, <2>4
  <1> HIDE DEF y
  <1>8. Holds(a, b) /\ b.mistakes = t.mistakes
    <2>1. Holds(a, b) /\ \A g \in Lists \cup Others : g # "tries" => b[g] = a[g]
      BY <1>6, <1>7, TriesPut DEF Holds
    <2> HIDE DEF b
    <2> QED BY <1>6, <2>1, ListsAre
  <1> HIDE DEF b
  <1>9. Holds(b, c)
    <2>1. Whole(b) /\ i \in DOMAIN b.mistakes /\ m.q = b.mistakes[i].q
      BY <1>1, <1>3, <1>8 DEF Holds
    <2> QED BY <1>3, <2>1, MistakeMarked DEF c
  <1>10. Holds(t, s) /\ Whole(s)
    <2>1. Holds(t, b)
      BY <1>6, <1>8, HoldsOn
    <2> QED BY <1>4, <1>9, <2>1, HoldsOn DEF Holds
  <1> QED BY <1>5, <1>10 DEF s, w, i, e, m

LEMMA AnswerCorrectionHolds ==
  ASSUME Whole(db), NEW j \in DOMAIN db.tries, NEW ok, NEW outcome, AnswerCorrection(j, ok, outcome)
  PROVE  Holds(db, db')
  <1> DEFINE t == Swept(db)
             i == t.tries[j].item
             l == [t.mistakes[i] EXCEPT !.status = "retired"]
             d == [t EXCEPT !.mistakes = [t.mistakes EXCEPT ![i] = l]]
             s == Corrected(t, j, ok)
             u == Evaluate(s, t.mistakes, Len(s.records), outcome)
  <1>1. /\ Holds(db, t) /\ j \in DOMAIN t.tries /\ Whole(t)
    BY SweptHolds DEF Holds
  <1>2. db' = u \/ db' = d
    <2>1. db' = u \/ db' = [t EXCEPT !.mistakes[i].status = "retired"]
      <3> HIDE DEF t
      <3> USE DEF t
      <3> QED BY DEF AnswerCorrection, Corrected, Commit, CommitOn
    <2> HIDE DEF t
    <2>2. d = [t EXCEPT !.mistakes[i].status = "retired"]
      OBVIOUS
    <2> QED BY <2>1, <2>2
  <1> HIDE DEF t
  <1>3. Holds(db, d)
    <2>1. i \in DOMAIN t.mistakes /\ DOMAIN t.mistakes[i] = {"src", "q", "status", "try"}
      BY <1>1, SideRows
    <2> HIDE DEF i
    <2>2. DOMAIN l = RowFields.mistakes /\ l.q = t.mistakes[i].q
      BY <2>1 DEF RowFields
    <2> HIDE DEF l
    <2>3. Holds(t, d)
      BY <1>1, <2>1, <2>2, MistakeMarked
    <2> HIDE DEF d
    <2> QED BY <1>1, <2>3, HoldsOn
  <1>4. Holds(t, s) /\ Whole(s)
    BY <1>1, CorrectedIs
  <1> HIDE DEF s, d
  <1>5. Holds(s, u)
    <2>1. Keeps(s, u)
      BY <1>4, EvaluateKeeps DEF Whole
    <2> HIDE DEF u
    <2> QED BY <1>4, <2>1, KeepsHolds
  <1> HIDE DEF u
  <1>6. Holds(db, u)
    BY <1>1, <1>4, <1>5, HoldsOn
  <1> QED BY <1>2, <1>3, <1>6

-----------------------------------------------------------------------------
(* Paths, packages and decisions                                           *)

LEMMA PathHolds ==
  ASSUME NEW s, Whole(s), NEW x, NEW t, t = [s EXCEPT !.path = x]
  PROVE  Holds(s, t)
  <1>1. "path" \in Others
    BY DEF Others
  <1> QED BY <1>1, OtherHolds

LEMMA NodesHold ==
  ASSUME Whole(db), CompleteNode \/ VerifyNode
  PROVE  Holds(db, db')
  <1>1. CASE CompleteNode
    BY <1>1, PathHolds DEF CompleteNode, Commit, CommitOn
  <1>2. CASE VerifyNode
    BY <1>2, PathHolds DEF VerifyNode, Commit, CommitOn
  <1> QED BY <1>1, <1>2

LEMMA SkipHolds ==
  ASSUME Whole(db), NEW p \in DOMAIN db.props, Skip(p)
  PROVE  Holds(db, db')
  <1> DEFINE x == [db.props[p] EXCEPT !.status = "resource_skipped"]
  <1>1. db' = [db EXCEPT !.props[p] = x]
    BY DEF Skip, Commit, CommitOn
  <1>2. Shaped(db)
    BY DEF Whole
  <1>3. DOMAIN db.props[p] = {"node", "row", "hypothesis", "q", "status", "match", "target", "task"}
    BY <1>2, PropRow
  <1>4. /\ DOMAIN x = PropFields /\ x.q = db.props[p].q /\ x.task = db.props[p].task
        /\ x.status = "resource_skipped"
    BY <1>3 DEF PropFields, RowFields
  <1> HIDE DEF x
  <1>5. Keeps(db, db')
    BY <1>1, <1>2, <1>4, PropWritten
  <1> QED BY <1>5, KeepsHolds

\* Tasks are added or rewritten, decisions keep their questions.
LEMMA TaskRows ==
  ASSUME NEW s, Whole(s), NEW t, Shaped(t), \A k \in DOMAIN t.tasks : t.tasks[k].quiz \subseteq QuizBank,
         t.records = s.records, t.quizzes = s.quizzes, t.mistakes = s.mistakes, t.tries = s.tries,
         DOMAIN t.props = DOMAIN s.props,
         \A p \in DOMAIN s.props : /\ t.props[p].q = s.props[p].q
                                   /\ t.props[p].status = "pending_validation" =>
                                        s.props[p].status = "pending_validation"
  PROVE  /\ Whole(t) /\ KeepsQuestions(s, t)
         /\ ChecksDiffer(s) => ChecksDiffer(t)
  <1>1. QuizRows(t)
    BY DEF QuizRows, Whole
  <1>2. CheckRows(t)
    <2>1. \A p \in DOMAIN t.props : t.props[p].q \in CheckBank \cup {NoQuestion}
      BY DEF Whole, CheckRows
    <2>2. ASSUME NEW i \in DOMAIN t.records
          PROVE  IF t.records[i].kind = "path_validation"
                 THEN /\ t.records[i].src \in DOMAIN t.props
                      /\ t.records[i].q = t.props[t.records[i].src].q
                      /\ t.records[i].q \in CheckBank
                      /\ t.props[t.records[i].src].status # "pending_validation"
                 ELSE t.records[i].q \in QuizBank
      <3>1. CASE t.records[i].kind = "path_validation"
        <4>1. /\ s.records[i].src \in DOMAIN s.props
              /\ s.records[i].q = s.props[s.records[i].src].q
              /\ s.records[i].q \in CheckBank
              /\ s.props[s.records[i].src].status # "pending_validation"
          BY <2>2, <3>1 DEF Whole, CheckRows
        <4> QED BY <3>1, <4>1
      <3>2. CASE t.records[i].kind # "path_validation"
        BY <2>2, <3>2 DEF Whole, CheckRows
      <3> QED BY <3>1, <3>2
    <2>3. \A i, j \in DOMAIN t.records :
            i < j /\ t.records[i].kind = "path_validation"
                  /\ t.records[j].kind = "path_validation" => t.records[i].src # t.records[j].src
      BY DEF Whole, CheckRows
    <2> QED BY <2>1, <2>2, <2>3 DEF CheckRows
  <1> QED BY <1>1, <1>2 DEF Whole, KeepsQuestions, ChecksDiffer

LEMMA TaskAdded ==
  ASSUME NEW s, Shaped(s), NEW e, DOMAIN e = RowFields.tasks,
         NEW t, t = [s EXCEPT !.tasks = Append(@, e)]
  PROVE  LET n == Len(s.tasks) + 1
         IN /\ Shaped(t) /\ DOMAIN t.tasks = DOMAIN s.tasks \cup {n} /\ t.tasks[n] = e
            /\ n \notin DOMAIN s.tasks /\ \A i \in DOMAIN s.tasks : t.tasks[i] = s.tasks[i]
            /\ \A g \in Lists \cup Others : g # "tasks" => t[g] = s[g]
  <1> DEFINE z == s.tasks
             y == Append(z, e)
             n == Len(z) + 1
             F == RowFields.tasks
  <1>1. t = [s EXCEPT !.tasks = y]
    OBVIOUS
  <1>2. Rows(z, F) /\ DOMAIN e = F
    BY ShapedRows
  <1> HIDE DEF z, F
  <1>3. /\ Rows(y, F) /\ DOMAIN y = DOMAIN z \cup {n} /\ y[n] = e /\ n \notin DOMAIN z
        /\ \A i \in DOMAIN z : y[i] = z[i]
    BY <1>2, RowsAppend
  <1> HIDE DEF y
  <1>4. Shaped(t) /\ t.tasks = y /\ \A g \in Lists \cup Others : g # "tasks" => t[g] = s[g]
    <2>1. Rows(y, RowFields.tasks)
      BY <1>3 DEF F
    <2> QED BY ONLY Shaped(s), <1>1, <2>1, TasksPut
  <1> QED BY <1>3, <1>4 DEF z

LEMMA CreateTaskHolds ==
  ASSUME Whole(db), CreateTask
  PROVE  Holds(db, db')
  <1> DEFINE path == Normalize(db.path, db.rel)
             e == NewTask(path, 0)
             a == [db EXCEPT !["path"] = path]
             n == Len(a.tasks) + 1
  <1>1. db' = [db EXCEPT !.path = path, !.tasks = Append(@, e)]
    BY DEF CreateTask, Commit, CommitOn
  <1>2. DOMAIN e = RowFields.tasks /\ e.quiz = {} /\ e.prop = 0
    BY DEF NewTask, RowFields
  <1> HIDE DEF path, e
  <1>3. db' = [a EXCEPT !.tasks = Append(@, e)]
    <2>1. DOMAIN db = Lists \cup Others
      BY ShapedRows DEF Whole
    <2> QED BY <1>1, <2>1, ListsAre DEF Others
  <1>4. Holds(db, a)
    BY PathHolds
  <1> HIDE DEF a, n
  <1>5. Whole(a) /\ Shaped(a)
    BY <1>4 DEF Holds, Whole
  <1>6. /\ Shaped(db') /\ DOMAIN db'.tasks = DOMAIN a.tasks \cup {n} /\ db'.tasks[n] = e
        /\ n \notin DOMAIN a.tasks /\ \A i \in DOMAIN a.tasks : db'.tasks[i] = a.tasks[i]
        /\ \A g \in Lists \cup Others : g # "tasks" => db'[g] = a[g]
    BY <1>2, <1>3, <1>5, TaskAdded DEF n
  <1>7. /\ db'.records = a.records /\ db'.quizzes = a.quizzes /\ db'.mistakes = a.mistakes
        /\ db'.tries = a.tries /\ db'.props = a.props
    BY <1>6, ListsAre
  <1>8. \A k \in DOMAIN db'.tasks : db'.tasks[k].quiz \subseteq QuizBank
    BY <1>2, <1>5, <1>6, SideRows
  <1>9. Whole(db') /\ KeepsQuestions(a, db') /\ (ChecksDiffer(a) => ChecksDiffer(db'))
    BY <1>5, <1>6, <1>7, <1>8, TaskRows
  <1>10. TasksNamed(a) => TasksNamed(db')
    <2>1. SUFFICES ASSUME TasksNamed(a), NEW k \in DOMAIN db'.tasks, db'.tasks[k].prop # 0
                   PROVE  /\ db'.tasks[k].prop \in DOMAIN db'.props
                          /\ \/ k = db'.props[db'.tasks[k].prop].task
                             \/ db'.tasks[k].status = "failed"
      BY DEF TasksNamed
    <2>2. k \in DOMAIN a.tasks /\ db'.tasks[k] = a.tasks[k]
      BY <1>2, <1>6, <2>1
    <2> QED BY <1>7, <2>1, <2>2 DEF TasksNamed
  <1>11. Holds(a, db')
    BY <1>9, <1>10 DEF Holds
  <1> QED BY <1>4, <1>11, HoldsOn

LEMMA FinishTaskHolds ==
  ASSUME Whole(db), NEW k \in DOMAIN db.tasks, NEW ok, FinishTask(k, ok)
  PROVE  Holds(db, db')
  <1> DEFINE quiz == {q \in QuizBank \cap db.bank : KnowledgeOf[q] \in ToSet(db.tasks[k].node)}
             status == IF ok THEN "completed" ELSE "failed"
             own == IF ok THEN quiz ELSE {}
             z == db.tasks
             x == [z[k] EXCEPT !.status = status, !.quiz = own]
             y == [z EXCEPT ![k] = x]
             F == RowFields.tasks
  <1>1. db' = [db EXCEPT !.tasks = y] /\ db.tasks[k].status = "pending"
    <2>1. /\ db' = [db EXCEPT !.tasks[k].status = status, !.tasks[k].quiz = own]
          /\ db.tasks[k].status = "pending"
      BY DEF FinishTask, Commit, CommitOn
    <2> HIDE DEF status, own
    <2> QED BY <2>1
  <1>2. own \subseteq QuizBank
    OBVIOUS
  <1> HIDE DEF status, own
  <1>3. /\ Rows(z, F) /\ DOMAIN x = F /\ k \in DOMAIN z /\ x.quiz \subseteq QuizBank
        /\ x.prop = z[k].prop /\ \A i \in DOMAIN z : z[i].quiz \subseteq QuizBank
    BY <1>2, ShapedRows, SideRows DEF Whole, RowFields
  <1> HIDE DEF z, F, x
  <1>4. /\ Rows(y, F) /\ DOMAIN y = DOMAIN z /\ y[k] = x
        /\ \A i \in DOMAIN z : i # k => y[i] = z[i]
    BY <1>3, RowsPut
  <1> HIDE DEF y
  <1>5. /\ Shaped(db') /\ db'.tasks = y
        /\ \A g \in Lists \cup Others : g # "tasks" => db'[g] = db[g]
    <2>1. Shaped(db) /\ Rows(y, RowFields.tasks)
      BY <1>4 DEF Whole, F
    <2> QED BY ONLY <1>1, <2>1, TasksPut
  <1>6. /\ db'.records = db.records /\ db'.quizzes = db.quizzes /\ db'.mistakes = db.mistakes
        /\ db'.tries = db.tries /\ db'.props = db.props
    BY <1>5, ListsAre
  <1>7. \A i \in DOMAIN db'.tasks : db'.tasks[i].quiz \subseteq QuizBank
    BY <1>3, <1>4, <1>5
  <1>8. Whole(db') /\ KeepsQuestions(db, db') /\ (ChecksDiffer(db) => ChecksDiffer(db'))
    BY <1>5, <1>6, <1>7, TaskRows
  <1>9. TasksNamed(db) => TasksNamed(db')
    <2>1. SUFFICES ASSUME TasksNamed(db), NEW i \in DOMAIN db'.tasks, db'.tasks[i].prop # 0
                   PROVE  /\ db'.tasks[i].prop \in DOMAIN db'.props
                          /\ \/ i = db'.props[db'.tasks[i].prop].task
                             \/ db'.tasks[i].status = "failed"
      BY DEF TasksNamed
    <2>2. i \in DOMAIN db.tasks /\ db'.tasks[i].prop = db.tasks[i].prop
      BY <1>3, <1>4, <1>5, <2>1 DEF z
    <2>3. /\ db.tasks[i].prop \in DOMAIN db.props
          /\ i = db.props[db.tasks[i].prop].task \/ db.tasks[i].status = "failed"
      BY <2>1, <2>2 DEF TasksNamed
    <2>4. db.tasks[i].status = "failed" => db'.tasks[i].status = "failed"
      BY <1>1, <1>4, <1>5, <2>2 DEF z
    <2> QED BY <1>6, <2>2, <2>3, <2>4
  <1> QED BY <1>8, <1>9 DEF Holds

LEMMA GenerateStep ==
  ASSUME Whole(db), NEW v, NEW p \in DOMAIN db.props, Generate(v, p)
  PROVE  /\ Whole(db') /\ KeepsQuestions(db, db') /\ (ChecksDiffer(db) => ChecksDiffer(db'))
         /\ v = db => Holds(db, db')
  <1>1. Shaped(db)
    BY DEF Whole
  <1>2. DOMAIN db.props[p] = {"node", "row", "hypothesis", "q", "status", "match", "target", "task"}
    BY <1>1, PropRow
  <1>3. CASE v.path.status # "active" \/ CurrentIds(v.path) # db.props[p].target
    <2> DEFINE x == [db.props[p] EXCEPT !.status = "stale"]
    <2>1. db' = [db EXCEPT !.props[p] = x]
      BY <1>3 DEF Generate, CommitOn
    <2>2. /\ DOMAIN x = PropFields /\ x.q = db.props[p].q /\ x.task = db.props[p].task
          /\ x.status = "stale"
      BY <1>2 DEF PropFields, RowFields
    <2> HIDE DEF x
    <2>3. Keeps(db, db')
      BY <1>1, <2>1, <2>2, PropWritten
    <2>4. Holds(db, db')
      BY <2>3, KeepsHolds
    <2> QED BY <2>4 DEF Holds
  <1>4. CASE ~(v.path.status # "active" \/ CurrentIds(v.path) # db.props[p].target)
    <2> DEFINE e == NewTask(v.path, p)
               n == Len(db.tasks) + 1
               a == [db EXCEPT !.tasks = Append(@, e)]
               x == [db.props[p] EXCEPT !.task = n, !.status = "resource_started"]
               b == [a EXCEPT !.props[p] = x]
    <2>1. db' = b /\ ~Answered(v, db.props[p])
      <3>1. /\ ~Answered(v, db.props[p])
            /\ db' = [db EXCEPT !.tasks = Append(@, e), !.props[p].task = n,
                                !.props[p].status = "resource_started"]
        BY <1>4 DEF Generate, CommitOn
      <3> HIDE DEF e, n
      <3>2. [db EXCEPT !.tasks = Append(@, e), !.props[p].task = n,
                       !.props[p].status = "resource_started"] = b
        OBVIOUS
      <3> QED BY <3>1, <3>2
    <2>2. DOMAIN e = RowFields.tasks /\ e.quiz = {} /\ e.prop = p
      BY DEF NewTask, RowFields
    <2>3. /\ DOMAIN x = PropFields /\ x.q = db.props[p].q /\ x.task = n
          /\ x.status = "resource_started"
      BY <1>2 DEF PropFields, RowFields
    <2> HIDE DEF e, x
    <2>4. /\ Shaped(a) /\ DOMAIN a.tasks = DOMAIN db.tasks \cup {n} /\ a.tasks[n] = e
          /\ n \notin DOMAIN db.tasks /\ \A i \in DOMAIN db.tasks : a.tasks[i] = db.tasks[i]
          /\ \A g \in Lists \cup Others : g # "tasks" => a[g] = db[g]
      BY <1>1, <2>2, TaskAdded
    <2> HIDE DEF a, n
    <2>5. a.props = db.props
      BY <2>4, ListsAre
    <2>6. /\ Shaped(b) /\ DOMAIN b.props = DOMAIN a.props /\ b.props[p] = x
          /\ \A i \in DOMAIN a.props : i # p => b.props[i] = a.props[i]
          /\ \A g \in Lists \cup Others : g # "props" => b[g] = a[g]
      BY <2>3, <2>4, <2>5, PropPut
    <2> HIDE DEF b
    <2>7. /\ db'.records = db.records /\ db'.quizzes = db.quizzes /\ db'.mistakes = db.mistakes
          /\ db'.tries = db.tries /\ db'.tasks = a.tasks
      BY <2>1, <2>4, <2>6, ListsAre
    <2>8. \A k \in DOMAIN db'.tasks : db'.tasks[k].quiz \subseteq QuizBank
      <3>1. \A k \in DOMAIN db.tasks : db.tasks[k].quiz \subseteq QuizBank
        BY DEF Whole, QuizRows
      <3> QED BY <2>2, <2>4, <2>7, <3>1
    <2>9. /\ DOMAIN db'.props = DOMAIN db.props
          /\ \A i \in DOMAIN db.props : i # p => db'.props[i] = db.props[i]
          /\ db'.props[p] = x
      BY <2>1, <2>5, <2>6
    <2>10. \A i \in DOMAIN db.props : /\ db'.props[i].q = db.props[i].q
                                      /\ db'.props[i].status = "pending_validation" =>
                                           db.props[i].status = "pending_validation"
      BY <2>3, <2>9
    <2>11. Shaped(db')
      BY <2>1, <2>6
    <2>12. Whole(db') /\ KeepsQuestions(db, db') /\ (ChecksDiffer(db) => ChecksDiffer(db'))
      BY <2>7, <2>8, <2>9, <2>10, <2>11, TaskRows
    <2>13. ASSUME v = db, TasksNamed(db), NEW k \in DOMAIN db'.tasks, db'.tasks[k].prop # 0
           PROVE  /\ db'.tasks[k].prop \in DOMAIN db'.props
                  /\ \/ k = db'.props[db'.tasks[k].prop].task
                     \/ db'.tasks[k].status = "failed"
      <3>1. CASE k = n
        BY <2>2, <2>3, <2>4, <2>7, <2>9, <3>1
      <3>2. CASE k # n
        <4>1. k \in DOMAIN db.tasks /\ db'.tasks[k] = db.tasks[k]
          BY <2>4, <2>7, <2>13, <3>2
        <4>2. /\ db.tasks[k].prop \in DOMAIN db.props
              /\ k = db.props[db.tasks[k].prop].task \/ db.tasks[k].status = "failed"
          BY <2>13, <4>1 DEF TasksNamed
        <4>3. CASE db.tasks[k].prop = p
          <5>1. k = db.props[p].task => db.tasks[k].status = "failed"
            BY <2>1, <2>13, <4>1 DEF Answered
          <5> QED BY <2>9, <4>1, <4>2, <4>3, <5>1
        <4>4. CASE db.tasks[k].prop # p
          BY <2>9, <4>1, <4>2, <4>4
        <4> QED BY <4>3, <4>4
      <3> QED BY <3>1, <3>2
    <2>14. v = db => (TasksNamed(db) => TasksNamed(db'))
      BY <2>13 DEF TasksNamed
    <2> QED BY <2>12, <2>14 DEF Holds
  <1> QED BY <1>3, <1>4

-----------------------------------------------------------------------------
(* Every step                                                              *)

\* A request on the committed tables, an edit, or one of the two on an old view.
LEMMA HeldNext ==
  ASSUME IInv, Holds(db, db'), before' = db, late \subseteq late'
  PROVE  IInv'
  BY DEF IInv, Holds

LEMMA ViewsAre ==
  ASSUME NEW v \in Views
  PROVE  v \in {db, before}
  BY DEF Views

LEMMA RequestStep ==
  ASSUME IInv, Request
  PROVE  IInv'
  <1>1. Whole(db)
    BY DEF IInv
  <1>2. ASSUME NEW t, Commit(t)
        PROVE  before' = db /\ late \subseteq late'
    BY <1>2 DEF Commit, CommitOn
  <1>3. ASSUME NEW t, NEW v, NEW r, CommitOn(t, v, r)
        PROVE  before' = db /\ late \subseteq late' /\ (v # db => r \in late')
    BY <1>3 DEF CommitOn
  <1>4. ASSUME NEW k \in DOMAIN db.tasks, OpenQuiz(k)
        PROVE  IInv'
    BY <1>1, <1>2, <1>4, OpenQuizHolds, HeldNext DEF OpenQuiz
  <1>5. ASSUME NEW a \in DOMAIN db.quizzes, NEW q \in QuizBank, NEW ok \in BOOLEAN, SaveAnswer(a, q, ok)
        PROVE  IInv'
    BY <1>1, <1>2, <1>5, SaveAnswerHolds, HeldNext DEF SaveAnswer
  <1>6. ASSUME NEW a \in DOMAIN db.quizzes, NEW o \in Outcomes, CompleteQuiz(a, o)
        PROVE  IInv'
    <2>1. \E t : Commit(t)
      BY <1>6 DEF CompleteQuiz
    <2> QED BY <1>1, <1>2, <1>6, <2>1, CompleteQuizHolds, HeldNext
  <1>7. ASSUME NEW v \in Views, NEW k \in DOMAIN db.tasks, NEW q \in CheckBank, RequestMastery(v, k, q)
        PROVE  IInv'
    <2>1. before' = db /\ late \subseteq late' /\ (v # db => "RequestMastery" \in late')
      BY <1>3, <1>7 DEF RequestMastery
    <2>2. /\ Whole(db') /\ KeepsQuestions(db, db') /\ (TasksNamed(db) => TasksNamed(db'))
          /\ v = db => Holds(db, db')
      BY <1>1, <1>7, RequestMasteryStep
    <2>3. CASE v = db
      BY <2>1, <2>2, <2>3, HeldNext
    <2>4. CASE v # db
      BY <2>1, <2>2, <2>4 DEF IInv
    <2> QED BY <2>3, <2>4
  <1>8. ASSUME NEW k \in DOMAIN db.tasks, NEW i \in {"too_easy", "too_hard"}, Tutor(k, i)
        PROVE  IInv'
    <2>1. \E t : Commit(t)
      BY <1>8 DEF Tutor
    <2> QED BY <1>1, <1>2, <1>8, <2>1, TutorHolds, HeldNext
  <1>9. ASSUME NEW v \in Views, NEW p \in DOMAIN db.props, NEW ok \in BOOLEAN, NEW r \in BOOLEAN,
               AnswerAssessment(v, p, ok, r)
        PROVE  IInv'
    <2>1. \E t : CommitOn(t, v, "AnswerAssessment")
      BY <1>9 DEF AnswerAssessment
    <2>2. Holds(db, db')
      BY <1>9, ViewsAre, AnswerAssessmentHolds
    <2> QED BY <1>3, <2>1, <2>2, HeldNext
  <1>10. CASE ListMistakes
    BY <1>1, <1>2, <1>10, ListMistakesHolds, HeldNext DEF ListMistakes
  <1>11. ASSUME NEW i \in DOMAIN db.mistakes, StartCorrection(i)
         PROVE  IInv'
    <2>1. \E t : Commit(t)
      BY <1>11 DEF StartCorrection
    <2> QED BY <1>1, <1>2, <1>11, <2>1, StartCorrectionHolds, HeldNext
  <1>12. ASSUME NEW j \in DOMAIN db.tries, NEW ok \in BOOLEAN, NEW o \in Outcomes,
                AnswerCorrection(j, ok, o)
         PROVE  IInv'
    <2>1. \E t : Commit(t)
      BY <1>12 DEF AnswerCorrection
    <2> QED BY <1>1, <1>2, <1>12, <2>1, AnswerCorrectionHolds, HeldNext
  <1>13. CASE VerifyNode \/ CompleteNode
    <2>1. \E t : Commit(t)
      BY <1>13 DEF VerifyNode, CompleteNode
    <2> QED BY <1>1, <1>2, <1>13, <2>1, NodesHold, HeldNext
  <1>14. ASSUME NEW p \in DOMAIN db.props, Skip(p)
         PROVE  IInv'
    BY <1>1, <1>2, <1>14, SkipHolds, HeldNext DEF Skip
  <1>15. ASSUME NEW v \in Views, NEW p \in DOMAIN db.props, Generate(v, p)
         PROVE  IInv'
    <2>1. \E t : CommitOn(t, v, "Generate")
      BY <1>15 DEF Generate
    <2>2. before' = db /\ late \subseteq late' /\ (v # db => "Generate" \in late')
      BY <1>3, <2>1
    <2>3. /\ Whole(db') /\ KeepsQuestions(db, db') /\ (ChecksDiffer(db) => ChecksDiffer(db'))
          /\ v = db => Holds(db, db')
      BY <1>1, <1>15, GenerateStep
    <2>4. CASE v = db
      BY <2>2, <2>3, <2>4, HeldNext
    <2>5. CASE v # db
      BY <2>2, <2>3, <2>5 DEF IInv
    <2> QED BY <2>4, <2>5
  <1>16. CASE CreateTask
    <2>1. \E t : Commit(t)
      BY <1>16 DEF CreateTask
    <2> QED BY <1>1, <1>2, <1>16, <2>1, CreateTaskHolds, HeldNext
  <1>17. ASSUME NEW k \in DOMAIN db.tasks, NEW ok \in BOOLEAN, FinishTask(k, ok)
         PROVE  IInv'
    <2>1. \E t : Commit(t)
      BY <1>17 DEF FinishTask
    <2> QED BY <1>1, <1>2, <1>17, <2>1, FinishTaskHolds, HeldNext
  <1> QED BY <1>4, <1>5, <1>6, <1>7, <1>8, <1>9, <1>10, <1>11, <1>12, <1>13, <1>14, <1>15, <1>16,
             <1>17 DEF Request

LEMMA RowsOfOne ==
  ASSUME NEW F, NEW e, DOMAIN e = F
  PROVE  /\ Rows(<<>>, F) /\ DOMAIN (<<>>) = {}
         /\ Rows(<<e>>, F) /\ DOMAIN (<<e>>) = {1} /\ (<<e>>)[1] = e
  <1>1. Rows(<<>>, F) /\ DOMAIN (<<>>) = {}
    <2>1. DOMAIN (<<>>) = {} /\ <<>> = [i \in 1..0 |-> (<<>>)[i]] /\ \A i \in 1..0 : DOMAIN (<<>>)[i] = F
      OBVIOUS
    <2> QED BY <2>1, RowsFrom
  <1>2. Rows(<<e>>, F) /\ DOMAIN (<<e>>) = {1} /\ (<<e>>)[1] = e
    <2>1. <<e>> = [i \in 1..1 |-> (<<e>>)[i]] /\ (<<e>>)[1] = e
      OBVIOUS
    <2>2. \A i \in 1..1 : DOMAIN (<<e>>)[i] = F
      BY <2>1
    <2>3. Rows(<<e>>, F) /\ DOMAIN (<<e>>) = 1..1
      BY <2>1, <2>2, RowsFrom
    <2> QED BY <2>1, <2>3
  <1> QED BY <1>1, <1>2

LEMMA BegunIs == Consistent(Begun)
  <1> DEFINE path == NewPath(Recommended, Relations, 1)
             quiz == {q \in QuizBank : KnowledgeOf[q] \in ToSet(CurrentIds(path))}
             e == [node |-> CurrentIds(path), row |-> 1, prop |-> 0, status |-> "completed", quiz |-> quiz]
             one == <<e>>
             profiles == <<[prev |-> 0, counted |-> <<>>]>>
             none == <<>>
  <1>1. Begun = [rel |-> Relations, bank |-> Questions, path |-> path, profiles |-> profiles,
                 records |-> none, quizzes |-> none, mistakes |-> none, tries |-> none,
                 props |-> none, signals |-> none, tasks |-> one]
    BY DEF Begun, Diagnosed
  <1>2. DOMAIN e = RowFields.tasks /\ e.quiz \subseteq QuizBank /\ e.prop = 0
    BY DEF RowFields
  <1> HIDE DEF e, path, profiles
  <1>3. /\ Rows(one, RowFields.tasks) /\ DOMAIN one = {1} /\ one[1] = e
    BY <1>2, RowsOfOne
  <1>4. DOMAIN none = {} /\ \A F : Rows(none, F)
    <2>1. ASSUME NEW F
          PROVE  Rows(none, F) /\ DOMAIN none = {}
      <3>1. DOMAIN none = {} /\ none = [i \in 1..0 |-> none[i]] /\ \A i \in 1..0 : DOMAIN none[i] = F
        OBVIOUS
      <3> QED BY <3>1, RowsFrom
    <2> QED BY <2>1
  <1> HIDE DEF one, none
  <1>5. /\ Begun.records = none /\ Begun.quizzes = none /\ Begun.mistakes = none
        /\ Begun.tries = none /\ Begun.props = none /\ Begun.tasks = one
        /\ DOMAIN Begun = Lists \cup Others
    BY <1>1, ListsAre DEF Others
  <1>6. Shaped(Begun)
    <2>1. \A f \in Lists : Rows(Begun[f], RowFields[f])
      BY <1>3, <1>4, <1>5, ListsAre
    <2> QED BY <1>5, <2>1 DEF Shaped, Lists, Others
  <1>7. QuizRows(Begun)
    BY <1>2, <1>3, <1>4, <1>5 DEF QuizRows
  <1>8. CheckRows(Begun)
    BY <1>4, <1>5 DEF CheckRows
  <1>9. ChecksDiffer(Begun)
    BY <1>4, <1>5 DEF ChecksDiffer
  <1>10. TasksNamed(Begun)
    BY <1>2, <1>3, <1>5 DEF TasksNamed
  <1> QED BY <1>6, <1>7, <1>8, <1>9, <1>10 DEF Consistent

LEMMA Start == Init => IInv
  <1> SUFFICES ASSUME Init PROVE IInv
    OBVIOUS
  <1>1. Consistent(db) /\ before = db
    BY BegunIs, LaterAssumption DEF Init
  <1> QED BY <1>1 DEF IInv, Consistent, Whole, KeepsQuestions

LEMMA Step == IInv /\ [Next]_vars => IInv'
  <1> SUFFICES ASSUME IInv, [Next]_vars PROVE IInv'
    OBVIOUS
  <1>1. CASE Request
    BY <1>1, RequestStep
  <1>2. CASE \/ \E q \in Questions : DisableQuestion(q)
             \/ \E d \in Documents : PublishDocument(d)
             \/ \E w \in Rewrites : RewriteItem(w.item, w.needs)
    <2>1. Whole(db)
      BY DEF IInv
    <2>2. Holds(db, db') /\ before' = db /\ late' = late
      BY <1>2, <2>1, EditsHold
    <2> QED BY <2>2, HeldNext
  <1>3. CASE UNCHANGED vars
    BY <1>3 DEF vars, IInv, Whole, Shaped, QuizRows, CheckRows, ChecksDiffer, TasksNamed, KeepsQuestions
  <1> QED BY <1>1, <1>2, <1>3 DEF Next

THEOREM ProgressHolds == Spec => []IInv
  BY Start, Step, PTL DEF Spec

LEMMA SeenOnce == IInv => UnseenChecks
  <1> SUFFICES ASSUME IInv, "RequestMastery" \notin late
               PROVE  /\ ChecksDiffer(db)
                      /\ \A i, j \in DOMAIN db.records :
                           i < j /\ db.records[j].kind = "path_validation" =>
                             db.records[i].q # db.records[j].q
    BY DEF UnseenChecks, ChecksDiffer
  <1>1. ChecksDiffer(db) /\ CheckRows(db)
    BY DEF IInv, Whole
  <1>2. SUFFICES ASSUME NEW i \in DOMAIN db.records, NEW j \in DOMAIN db.records, i < j,
                        db.records[j].kind = "path_validation"
                 PROVE  db.records[i].q # db.records[j].q
    BY <1>1
  <1>3. /\ db.records[j].src \in DOMAIN db.props /\ db.records[j].q = db.props[db.records[j].src].q
        /\ db.records[j].q \in CheckBank
    BY <1>1, <1>2 DEF CheckRows
  <1>4. CASE db.records[i].kind = "path_validation"
    <2>1. /\ db.records[i].src \in DOMAIN db.props /\ db.records[i].q = db.props[db.records[i].src].q
          /\ db.records[i].q \in CheckBank
      BY <1>1, <1>2, <1>4 DEF CheckRows
    <2>2. db.records[i].src # db.records[j].src
      BY <1>1, <1>2, <1>4 DEF CheckRows
    <2>3. db.records[i].q # NoQuestion
      BY <2>1, BankAssumption
    <2> QED BY <1>1, <1>3, <2>1, <2>2, <2>3 DEF ChecksDiffer
  <1>5. CASE db.records[i].kind # "path_validation"
    <2>1. db.records[i].q \in QuizBank
      BY <1>1, <1>2, <1>5 DEF CheckRows
    <2> QED BY <1>3, <2>1, BankAssumption
  <1> QED BY <1>4, <1>5

LEMMA NamedOnce == IInv => OneTaskPerDecision
  BY DEF IInv, TasksNamed, OneTaskPerDecision

\* No mastery check asks what the learner has met in an answer or another check, when
\* none was requested on an old view (select_mastery_question).
THEOREM ChecksAreUnseen == Spec => []UnseenChecks
  BY ProgressHolds, SeenOnce, PTL

\* A decision has one task that has not failed (decide_proposal_resource).
THEOREM DecisionsHaveOneTask == Spec => []OneTaskPerDecision
  BY ProgressHolds, NamedOnce, PTL

-----------------------------------------------------------------------------
(* Lists that are built step by step                                       *)

BuiltBy(u, n, base, F) ==
  u = [i \in 0..n |-> IF i = 0 THEN base ELSE F[<<u[i - 1], i>>]]

\* What is built one step after another stays in the sets D[i] if every step does.
LEMMA Iterated ==
  ASSUME NEW n \in Nat, NEW D, NEW base, base \in D[0], NEW F,
         \A i \in 1..n : \A x \in D[i - 1] : F[<<x, i>>] \in D[i]
  PROVE  \E u : BuiltBy(u, n, base, F) /\ \A i \in 0..n : u[i] \in D[i]
  <1> DEFINE Built(u, m) == BuiltBy(u, m, base, F) /\ \A i \in 0..m : u[i] \in D[i]
             Defined == {m \in Nat : m <= n => \E u : Built(u, m)}
  <1>1. 0 \in Defined
    <2>1. Built([i \in 0..0 |-> base], 0)
      BY DEF BuiltBy
    <2> HIDE DEF Built
    <2> QED BY <2>1
  <1>2. ASSUME NEW m \in Defined
        PROVE  m + 1 \in Defined
    <2>1. SUFFICES ASSUME m + 1 <= n
                   PROVE  \E u : Built(u, m + 1)
      OBVIOUS
    <2>2. PICK g : Built(g, m)
      <3>1. m <= n
        BY <2>1
      <3> QED BY <3>1
    <2> DEFINE next == F[<<g[m], m + 1>>]
               h == [i \in 0..(m + 1) |-> IF i = m + 1 THEN next ELSE g[i]]
    <2>3. next \in D[m + 1]
      <3>1. m + 1 \in 1..n /\ m + 1 - 1 = m /\ g[m] \in D[m]
        BY <2>1, <2>2
      <3> QED BY <3>1
    <2>4. \A i \in 0..(m + 1) : /\ h[i] = IF i = 0 THEN base ELSE F[<<h[i - 1], i>>]
                                /\ h[i] \in D[i]
      <3>1. TAKE i \in 0..(m + 1)
      <3>2. CASE i = m + 1
        <4>1. h[i] = next /\ i # 0 /\ h[i - 1] = g[m]
          BY <3>2
        <4> QED BY <2>3, <3>2, <4>1
      <3>3. CASE i # m + 1
        <4>1. i \in 0..m /\ h[i] = g[i] /\ (i # 0 => i - 1 \in 0..m /\ h[i - 1] = g[i - 1])
          BY <3>3
        <4>2. g[i] = IF i = 0 THEN base ELSE F[<<g[i - 1], i>>]
          BY <2>2, <4>1 DEF BuiltBy
        <4>3. g[i] \in D[i]
          BY <2>2, <4>1
        <4> QED BY <4>1, <4>2, <4>3
      <3> QED BY <3>2, <3>3
    <2> HIDE DEF next
    <2>5. Built(h, m + 1)
      <3>1. \A i \in 0..(m + 1) : h[i] \in D[i]
        BY <2>4
      <3>2. h = [i \in 0..(m + 1) |-> h[i]]
        OBVIOUS
      <3> HIDE DEF h
      <3>3. h = [i \in 0..(m + 1) |-> IF i = 0 THEN base ELSE F[<<h[i - 1], i>>]]
        BY <2>4, <3>2
      <3> QED BY <3>1, <3>3 DEF BuiltBy
    <2> HIDE DEF Built, h
    <2> QED BY <2>5
  <1>3. Defined = Nat
    <2> HIDE DEF Defined
    <2> QED BY <1>1, <1>2, SetInduction DEF Defined
  <1>4. \E u : Built(u, n)
    <2> HIDE DEF Built
    <2>1. n \in Defined
      BY <1>3
    <2> QED BY <2>1
  <1> QED BY <1>4

LEMMA StaysIn ==
  ASSUME NEW n \in Nat, NEW D, NEW u, u[0] \in D[0],
         \A i \in 1..n : u[i - 1] \in D[i - 1] => u[i] \in D[i]
  PROVE  \A i \in 0..n : u[i] \in D[i]
  <1> DEFINE Good == {m \in Nat : m <= n => u[m] \in D[m]}
  <1>1. 0 \in Good
    OBVIOUS
  <1>2. ASSUME NEW m \in Good
        PROVE  m + 1 \in Good
    <2>1. SUFFICES ASSUME m + 1 <= n
                   PROVE  u[m + 1] \in D[m + 1]
      OBVIOUS
    <2>2. m + 1 \in 1..n /\ m + 1 - 1 = m /\ u[m] \in D[m]
      BY <2>1
    <2> QED BY <2>2
  <1>3. Good = Nat
    <2> HIDE DEF Good
    <2> QED BY <1>1, <1>2, SetInduction DEF Good
  <1> QED BY <1>3

\* q lists s at the positions P in increasing order: at[n] is the position of q[n].
Selects(q, s, P) ==
  \E at : /\ at \in [1..Len(q) -> P]
          /\ \A a, b \in 1..Len(q) : a < b => at[a] < at[b]
          /\ \A x \in P : \E a \in 1..Len(q) : at[a] = x
          /\ \A a \in 1..Len(q) : q[a] = s[at[a]]

LEMMA SelectsNext ==
  ASSUME NEW T, NEW s, NEW n \in Nat, NEW P \in SUBSET (1..n), NEW q \in Seq(T), Selects(q, s, P),
         s[n + 1] \in T
  PROVE  LET r == Append(q, s[n + 1]) IN r \in Seq(T) /\ Selects(r, s, P \cup {n + 1})
  <1> DEFINE r == Append(q, s[n + 1])
             m == Len(q)
  <1>1. PICK at : /\ at \in [1..m -> P]
                  /\ \A a, b \in 1..m : a < b => at[a] < at[b]
                  /\ \A x \in P : \E a \in 1..m : at[a] = x
                  /\ \A a \in 1..m : q[a] = s[at[a]]
    BY DEF Selects
  <1>2. /\ m \in Nat /\ r \in Seq(T) /\ Len(r) = m + 1 /\ r[m + 1] = s[n + 1]
        /\ \A a \in 1..m : r[a] = q[a]
    BY AppendProperties, LenProperties
  <1> HIDE DEF r, m
  <1> DEFINE to == [a \in 1..(m + 1) |-> IF a = m + 1 THEN n + 1 ELSE at[a]]
  <1>3. \A a \in 1..m : to[a] = at[a] /\ at[a] \in P /\ at[a] \in 1..n
    <2>1. \A a \in 1..m : a \in 1..(m + 1) /\ a # m + 1
      BY <1>2
    <2> QED BY <1>1, <2>1
  <1>4. to[m + 1] = n + 1
    BY <1>2
  <1>5. \A a \in 1..(m + 1) : a = m + 1 \/ a \in 1..m
    BY <1>2
  <1>6. to \in [1..(m + 1) -> P \cup {n + 1}]
    BY <1>3, <1>5
  <1> HIDE DEF to
  <1>7. \A a, b \in 1..(m + 1) : a < b => to[a] < to[b]
    <2>1. SUFFICES ASSUME NEW a \in 1..(m + 1), NEW b \in 1..(m + 1), a < b
                   PROVE  to[a] < to[b]
      OBVIOUS
    <2>2. a \in 1..m
      BY <1>2, <2>1
    <2>3. CASE b = m + 1
      BY <1>3, <1>4, <2>2, <2>3
    <2>4. CASE b # m + 1
      BY <1>1, <1>3, <1>5, <2>1, <2>2, <2>4
    <2> QED BY <2>3, <2>4
  <1>8. \A x \in P \cup {n + 1} : \E a \in 1..(m + 1) : to[a] = x
    <2>1. SUFFICES ASSUME NEW x \in P \cup {n + 1}
                   PROVE  \E a \in 1..(m + 1) : to[a] = x
      OBVIOUS
    <2>2. CASE x = n + 1
      BY <1>2, <1>4, <2>2
    <2>3. CASE x # n + 1
      <3>1. PICK a \in 1..m : at[a] = x
        BY <1>1, <2>1, <2>3
      <3> QED BY <1>2, <1>3, <3>1
    <2> QED BY <2>2, <2>3
  <1>9. \A a \in 1..(m + 1) : r[a] = s[to[a]]
    BY <1>1, <1>2, <1>3, <1>4, <1>5
  <1>10. Selects(r, s, P \cup {n + 1})
    <2> DEFINE k == Len(r)
    <2>1. k = m + 1
      BY <1>2
    <2> HIDE DEF k
    <2>2. /\ to \in [1..k -> P \cup {n + 1}]
          /\ \A a, b \in 1..k : a < b => to[a] < to[b]
          /\ \A x \in P \cup {n + 1} : \E a \in 1..k : to[a] = x
          /\ \A a \in 1..k : r[a] = s[to[a]]
      BY <1>6, <1>7, <1>8, <1>9, <2>1
    <2> QED BY <2>2 DEF Selects, k
  <1> QED BY <1>2, <1>10 DEF r

LEMMA PickedIs ==
  ASSUME NEW T, NEW s \in Seq(T), NEW S
  PROVE  Picked(s, S) \in Seq(T) /\ Selects(Picked(s, S), s, S \cap (1..Len(s)))
  <1> DEFINE n == Len(s)
             After(q, i) == IF i \in S THEN Append(q, s[i]) ELSE q
             D == [i \in 0..n |-> {q \in Seq(T) : Selects(q, s, S \cap (1..i))}]
             All == UNION {D[i] : i \in 0..n}
             F == [p \in All \X (1..n) |-> After(p[1], p[2])]
  <1>1. n \in Nat /\ DOMAIN s = 1..n /\ \A i \in 1..n : s[i] \in T
    BY LenProperties, ElementOfSeq
  <1>2. <<>> \in D[0]
    <2>1. <<>> \in Seq(T) /\ Len(<<>>) = 0 /\ S \cap (1..0) = {} /\ 0 \in 0..n
      BY <1>1
    <2>2. Selects(<<>>, s, {})
      <3>1. <<>> \in [1..0 -> {}] /\ \A a \in 1..0 : FALSE
        OBVIOUS
      <3> QED BY <2>1, <3>1 DEF Selects
    <2> QED BY <2>1, <2>2
  <1>3. ASSUME NEW i \in 1..n, NEW q \in D[i - 1]
        PROVE  F[<<q, i>>] = After(q, i) /\ After(q, i) \in D[i]
    <2>1. i - 1 \in 0..n /\ i \in 0..n /\ i - 1 \in Nat /\ i - 1 + 1 = i
      BY <1>1
    <2>2. q \in Seq(T) /\ Selects(q, s, S \cap (1..(i - 1)))
      BY <1>3, <2>1
    <2>3. F[<<q, i>>] = After(q, i)
      <3>1. q \in All
        BY <1>3, <2>1
      <3> HIDE DEF All, D, n
      <3> QED BY <3>1
    <2>4. CASE i \in S
      <3>1. S \cap (1..i) = (S \cap (1..(i - 1))) \cup {i}
        BY <1>1, <2>4
      <3>2. After(q, i) \in Seq(T) /\ Selects(After(q, i), s, S \cap (1..i))
        <4> DEFINE P == S \cap (1..(i - 1))
                   j == i - 1
        <4>1. P \in SUBSET (1..j) /\ j \in Nat /\ j + 1 = i /\ s[j + 1] \in T /\ Selects(q, s, P)
          BY <1>1, <2>1, <2>2
        <4> HIDE DEF P, j
        <4>2. Append(q, s[j + 1]) \in Seq(T) /\ Selects(Append(q, s[j + 1]), s, P \cup {j + 1})
          BY <2>2, <4>1, SelectsNext
        <4> QED BY <2>4, <3>1, <4>1, <4>2 DEF P
      <3> QED BY <2>1, <2>3, <3>2
    <2>5. CASE i \notin S
      <3>1. S \cap (1..i) = S \cap (1..(i - 1))
        BY <1>1, <2>5
      <3> QED BY <2>1, <2>2, <2>3, <2>5, <3>1
    <2> QED BY <2>4, <2>5
  <1> HIDE DEF F, D
  <1>4. PICK u : /\ u = [i \in 0..n |-> IF i = 0 THEN <<>> ELSE F[<<u[i - 1], i>>]]
                 /\ \A i \in 0..n : u[i] \in D[i]
    <2> HIDE DEF n, After
    <2>1. \A i \in 1..n : \A q \in D[i - 1] : F[<<q, i>>] \in D[i]
      BY <1>3
    <2>2. n \in Nat
      BY <1>1
    <2> DEFINE base == <<>>
    <2>3. base \in D[0]
      BY <1>2
    <2> HIDE DEF base
    <2>4. \E u : BuiltBy(u, n, base, F) /\ \A i \in 0..n : u[i] \in D[i]
      BY ONLY <2>1, <2>2, <2>3, Iterated
    <2> QED BY <2>4 DEF base, BuiltBy
  <1> DEFINE IsUpTo(g) == g = [i \in 0..n |-> IF i = 0 THEN <<>>
                                              ELSE IF i \in S THEN Append(g[i - 1], s[i]) ELSE g[i - 1]]
             upTo == CHOOSE g : IsUpTo(g)
  <1>5. IsUpTo(u)
    <2>1. \A i \in 0..n : i # 0 => u[i - 1] \in D[i - 1] /\ i \in 1..n
      BY <1>1, <1>4
    <2>2. \A i \in 0..n : u[i] = IF i = 0 THEN <<>> ELSE F[<<u[i - 1], i>>]
      BY <1>4
    <2>3. \A i \in 0..n : u[i] = IF i = 0 THEN <<>> ELSE After(u[i - 1], i)
      <3> HIDE DEF After, n
      <3> QED BY <1>3, <2>1, <2>2
    <2>4. u = [i \in 0..n |-> u[i]]
      BY <1>4
    <2> HIDE DEF n
    <2> QED BY <2>3, <2>4
  <1>6. IsUpTo(upTo)
    <2> HIDE DEF IsUpTo
    <2> QED BY <1>5
  <1>7. Picked(s, S) = upTo[n]
    BY DEF Picked
  <1>8. \A i \in 0..n : upTo[i] = IF i = 0 THEN <<>> ELSE After(upTo[i - 1], i)
    <2> HIDE DEF upTo
    <2> QED BY <1>6
  <1> HIDE DEF upTo
  <1>9. upTo[0] \in D[0] /\ \A i \in 1..n : upTo[i - 1] \in D[i - 1] => upTo[i] \in D[i]
    <2>1. \A i \in 1..n : i \in 0..n /\ i # 0
      BY <1>1
    <2>2. 0 \in 0..n
      BY <1>1
    <2> HIDE DEF After, n
    <2> QED BY <1>2, <1>3, <1>8, <2>1, <2>2
  <1>10. upTo[n] \in D[n]
    <2>1. n \in 0..n
      BY <1>1
    <2> HIDE DEF n
    <2> QED BY <1>1, <1>9, <2>1, StaysIn
  <1>11. n \in 0..n
    BY <1>1
  <1> QED BY <1>7, <1>10, <1>11 DEF D

LEMMA ToSetIs ==
  ASSUME NEW T, NEW s \in Seq(T)
  PROVE  ToSet(s) = {s[i] : i \in 1..Len(s)} /\ ToSet(s) \subseteq T /\ s \in Seq(ToSet(s))
  <1>1. DOMAIN s = 1..Len(s) /\ Len(s) \in Nat /\ s \in [1..Len(s) -> T]
    BY LenProperties
  <1>2. ToSet(s) = {s[i] : i \in 1..Len(s)}
    BY <1>1 DEF ToSet
  <1>3. ToSet(s) \subseteq T /\ s \in [1..Len(s) -> ToSet(s)]
    BY <1>1, <1>2
  <1>4. s \in Seq(ToSet(s))
    BY <1>1, <1>3, SeqDef
  <1> QED BY <1>2, <1>3, <1>4

LEMMA ToSetJoin ==
  ASSUME NEW T, NEW a \in Seq(T), NEW b \in Seq(T)
  PROVE  a \o b \in Seq(T) /\ ToSet(a \o b) = ToSet(a) \cup ToSet(b)
  <1> DEFINE m == Len(a)
             n == Len(b)
             c == a \o b
  <1>1. /\ c \in Seq(T) /\ Len(c) = m + n /\ m \in Nat /\ n \in Nat
        /\ \A i \in 1..(m + n) : c[i] = IF i <= m THEN a[i] ELSE b[i - m]
    BY ConcatProperties, LenProperties
  <1>2. /\ ToSet(a) = {a[i] : i \in 1..m} /\ ToSet(b) = {b[i] : i \in 1..n}
        /\ ToSet(c) = {c[i] : i \in 1..(m + n)}
    <2> HIDE DEF c
    <2> QED BY <1>1, ToSetIs
  <1> HIDE DEF m, n, c
  <1>3. \A i \in 1..m : i \in 1..(m + n) /\ c[i] = a[i]
    BY <1>1
  <1>4. \A i \in 1..n : m + i \in 1..(m + n) /\ c[m + i] = b[i]
    BY <1>1
  <1>5. \A i \in 1..(m + n) : \/ i \in 1..m /\ c[i] = a[i]
                              \/ i - m \in 1..n /\ c[i] = b[i - m]
    BY <1>1
  <1>6. ToSet(c) \subseteq ToSet(a) \cup ToSet(b)
    BY <1>2, <1>5
  <1>7. ToSet(a) \subseteq ToSet(c) /\ ToSet(b) \subseteq ToSet(c)
    BY <1>2, <1>3, <1>4
  <1> QED BY <1>1, <1>6, <1>7 DEF c

LEMMA ToSetMore ==
  ASSUME NEW T, NEW q \in Seq(T), NEW e \in T
  PROVE  /\ Append(q, e) \in Seq(T) /\ ToSet(Append(q, e)) = ToSet(q) \cup {e}
         /\ Len(Append(q, e)) = Len(q) + 1
  <1> DEFINE r == Append(q, e)
             n == Len(q)
  <1>1. /\ r \in Seq(T) /\ n \in Nat /\ Len(r) = n + 1 /\ r[n + 1] = e
        /\ \A i \in 1..n : r[i] = q[i]
    BY AppendProperties, LenProperties
  <1>2. ToSet(q) = {q[i] : i \in 1..n} /\ ToSet(r) = {r[i] : i \in 1..(n + 1)}
    <2> HIDE DEF r
    <2> QED BY <1>1, ToSetIs
  <1> HIDE DEF r, n
  <1>3. \A i \in 1..(n + 1) : i = n + 1 \/ i \in 1..n
    BY <1>1
  <1>4. n + 1 \in 1..(n + 1) /\ \A i \in 1..n : i \in 1..(n + 1)
    BY <1>1
  <1>5. ToSet(r) \subseteq ToSet(q) \cup {e}
    BY <1>1, <1>2, <1>3
  <1>6. ToSet(q) \cup {e} \subseteq ToSet(r)
    BY <1>1, <1>2, <1>4
  <1> QED BY <1>1, <1>5, <1>6 DEF r, n

\* What Selects says of the elements.
LEMMA SelectedSet ==
  ASSUME NEW T, NEW q \in Seq(T), NEW s, NEW P, Selects(q, s, P)
  PROVE  ToSet(q) = {s[i] : i \in P}
  <1>1. ToSet(q) = {q[a] : a \in 1..Len(q)}
    BY ToSetIs
  <1> DEFINE m == Len(q)
  <1>2. PICK at : /\ at \in [1..m -> P]
                  /\ \A x \in P : \E a \in 1..m : at[a] = x
                  /\ \A a \in 1..m : q[a] = s[at[a]]
    BY DEF Selects
  <1> HIDE DEF m
  <1>3. {q[a] : a \in 1..m} = {s[i] : i \in P}
    BY <1>2
  <1> QED BY <1>1, <1>3 DEF m

LEMMA PickedSet ==
  ASSUME NEW T, NEW s \in Seq(T), NEW S
  PROVE  Picked(s, S) \in Seq(T) /\ ToSet(Picked(s, S)) = {s[i] : i \in S \cap DOMAIN s}
  <1>1. DOMAIN s = 1..Len(s)
    BY LenProperties
  <1>2. Picked(s, S) \in Seq(T) /\ Selects(Picked(s, S), s, S \cap (1..Len(s)))
    BY PickedIs
  <1> QED BY <1>1, <1>2, SelectedSet

LEMMA JoinedIs ==
  ASSUME NEW T, NEW lists \in Seq(Seq(T))
  PROVE  /\ Joined(lists) \in Seq(T)
         /\ ToSet(Joined(lists)) = UNION {ToSet(lists[i]) : i \in DOMAIN lists}
  <1> DEFINE n == Len(lists)
             D == [i \in 0..n |-> {q \in Seq(T) : ToSet(q) = UNION {ToSet(lists[j]) : j \in 1..i}}]
             All == UNION {D[i] : i \in 0..n}
             F == [p \in All \X (1..n) |-> p[1] \o lists[p[2]]]
  <1>1. n \in Nat /\ DOMAIN lists = 1..n /\ \A i \in 1..n : lists[i] \in Seq(T)
    BY LenProperties, ElementOfSeq
  <1>2. <<>> \in D[0]
    <2>1. <<>> \in Seq(T) /\ ToSet(<<>>) = {} /\ 1..0 = {} /\ 0 \in 0..n
      BY <1>1 DEF ToSet
    <2> QED BY <2>1
  <1>3. ASSUME NEW i \in 1..n, NEW q \in D[i - 1]
        PROVE  F[<<q, i>>] = q \o lists[i] /\ q \o lists[i] \in D[i]
    <2>1. i - 1 \in 0..n /\ i \in 0..n /\ 1..i = (1..(i - 1)) \cup {i}
      BY <1>1
    <2>2. q \in Seq(T) /\ ToSet(q) = UNION {ToSet(lists[j]) : j \in 1..(i - 1)}
      BY <1>3, <2>1
    <2>3. F[<<q, i>>] = q \o lists[i]
      <3>1. q \in All
        BY <1>3, <2>1
      <3> HIDE DEF All, D, n
      <3> QED BY <3>1
    <2> HIDE DEF n
    <2>4. q \o lists[i] \in Seq(T) /\ ToSet(q \o lists[i]) = ToSet(q) \cup ToSet(lists[i])
      BY <1>1, <2>2, ToSetJoin
    <2>5. ToSet(q \o lists[i]) = UNION {ToSet(lists[j]) : j \in 1..i}
      BY <2>1, <2>2, <2>4
    <2> QED BY <2>1, <2>3, <2>4, <2>5
  <1> HIDE DEF F, D
  <1>4. PICK u : u = [i \in 0..n |-> IF i = 0 THEN <<>> ELSE F[<<u[i - 1], i>>]]
                 /\ \A i \in 0..n : u[i] \in D[i]
    <2> HIDE DEF n
    <2>1. \A i \in 1..n : \A q \in D[i - 1] : F[<<q, i>>] \in D[i]
      BY <1>3
    <2>2. n \in Nat
      BY <1>1
    <2> DEFINE base == <<>>
    <2>3. base \in D[0]
      BY <1>2
    <2> HIDE DEF base
    <2>4. \E u : BuiltBy(u, n, base, F) /\ \A i \in 0..n : u[i] \in D[i]
      BY ONLY <2>1, <2>2, <2>3, Iterated
    <2> QED BY <2>4 DEF base, BuiltBy
  <1> DEFINE IsUpTo(g) == g = [i \in 0..n |-> IF i = 0 THEN <<>> ELSE g[i - 1] \o lists[i]]
             upTo == CHOOSE g : IsUpTo(g)
  <1>5. IsUpTo(u)
    <2>1. \A i \in 0..n : i # 0 => u[i - 1] \in D[i - 1] /\ i \in 1..n
      BY <1>1, <1>4
    <2>2. \A i \in 0..n : u[i] = IF i = 0 THEN <<>> ELSE F[<<u[i - 1], i>>]
      BY <1>4
    <2>3. \A i \in 0..n : u[i] = IF i = 0 THEN <<>> ELSE u[i - 1] \o lists[i]
      <3> HIDE DEF n
      <3> QED BY <1>3, <2>1, <2>2
    <2>4. u = [i \in 0..n |-> u[i]]
      BY <1>4
    <2> HIDE DEF n
    <2> QED BY <2>3, <2>4
  <1>6. IsUpTo(upTo)
    <2> HIDE DEF IsUpTo
    <2> QED BY <1>5
  <1>7. Joined(lists) = upTo[n]
    BY DEF Joined
  <1>8. \A i \in 0..n : upTo[i] = IF i = 0 THEN <<>> ELSE upTo[i - 1] \o lists[i]
    <2> HIDE DEF upTo
    <2> QED BY <1>6
  <1> HIDE DEF upTo
  <1>9. upTo[0] \in D[0] /\ \A i \in 1..n : upTo[i - 1] \in D[i - 1] => upTo[i] \in D[i]
    <2>1. \A i \in 1..n : i \in 0..n /\ i # 0
      BY <1>1
    <2>2. 0 \in 0..n
      BY <1>1
    <2> HIDE DEF n
    <2> QED BY <1>2, <1>3, <1>8, <2>1, <2>2
  <1>10. upTo[n] \in D[n]
    <2>1. n \in 0..n
      BY <1>1
    <2> HIDE DEF n
    <2> QED BY <1>1, <1>9, <2>1, StaysIn
  <1>11. n \in 0..n
    BY <1>1
  <1> QED BY <1>1, <1>7, <1>10, <1>11 DEF D

-----------------------------------------------------------------------------
(* What a profile counts                                                   *)

LEMMA SpacedOn ==
  ASSUME NEW t, NEW u, NEW c, Spaced(t, c),
         \A n \in DOMAIN c : u.records[c[n]].q = t.records[c[n]].q
  PROVE  Spaced(u, c)
  <1>1. SUFFICES ASSUME NEW a \in DOMAIN c, NEW b \in DOMAIN c, a < b, c[a] = c[b]
                 PROVE  CountWindow <= Cardinality({n \in DOMAIN c : a < n /\ n < b
                           /\ KnowledgeOf[u.records[c[n]].q] = KnowledgeOf[u.records[c[a]].q]})
    BY DEF Spaced
  <1>2. CountWindow <= Cardinality({n \in DOMAIN c : a < n /\ n < b
                           /\ KnowledgeOf[t.records[c[n]].q] = KnowledgeOf[t.records[c[a]].q]})
    BY <1>1 DEF Spaced
  <1>3. {n \in DOMAIN c : a < n /\ n < b
           /\ KnowledgeOf[u.records[c[n]].q] = KnowledgeOf[u.records[c[a]].q]}
        = {n \in DOMAIN c : a < n /\ n < b
           /\ KnowledgeOf[t.records[c[n]].q] = KnowledgeOf[t.records[c[a]].q]}
    OBVIOUS
  <1> QED BY <1>2, <1>3

\* The newly counted records are those accepted, each once.
LEMMA AcceptedOnce ==
  ASSUME NEW K \in Nat, NEW S
  PROVE  LET q == Picked([i \in 1..K |-> i], S) IN
         /\ q \in Seq(1..K) /\ \A a \in DOMAIN q : q[a] \in S
         /\ \A a, b \in DOMAIN q : a < b => q[a] # q[b]
  <1> DEFINE all == [i \in 1..K |-> i]
             q == Picked(all, S)
             n == Len(q)
  <1>1. all \in Seq(1..K) /\ Len(all) = K
    <2>1. all \in [1..K -> 1..K]
      OBVIOUS
    <2>2. all \in Seq(1..K) /\ DOMAIN all = 1..K
      BY <2>1, SeqDef
    <2> HIDE DEF all
    <2>3. DOMAIN all = 1..Len(all) /\ Len(all) \in Nat
      BY <2>2, LenProperties
    <2> QED BY <2>2, <2>3
  <1>2. \A i \in 1..K : all[i] = i
    OBVIOUS
  <1> HIDE DEF all
  <1>3. q \in Seq(1..K) /\ Selects(q, all, S \cap (1..K))
    <2>1. q \in Seq(1..K) /\ Selects(q, all, S \cap (1..Len(all)))
      BY <1>1, PickedIs
    <2> HIDE DEF q
    <2> QED BY <1>1, <2>1
  <1> HIDE DEF q
  <1>4. DOMAIN q = 1..n /\ n \in Nat
    BY <1>3, LenProperties
  <1>5. PICK at : /\ at \in [1..n -> S \cap (1..K)]
                  /\ \A a, b \in 1..n : a < b => at[a] < at[b]
                  /\ \A a \in 1..n : q[a] = all[at[a]]
    BY <1>3 DEF Selects
  <1> HIDE DEF n
  <1>6. \A a \in 1..n : at[a] \in S /\ at[a] \in 1..K /\ q[a] = at[a]
    BY <1>2, <1>5
  <1>7. \A a, b \in 1..n : a < b => q[a] # q[b]
    BY <1>5, <1>6
  <1> QED BY <1>3, <1>4, <1>6, <1>7 DEF q, all

LEMMA SpacedMore ==
  ASSUME NEW t, NEW K \in Nat, DOMAIN t.records = 1..K, NEW c \in Seq(1..K), Spaced(t, c),
         NEW ids
  PROVE  LET d == c \o Picked([i \in DOMAIN t.records |-> i], Fresh(t, c, ids))
         IN d \in Seq(1..K) /\ Spaced(t, d)
  <1> DEFINE accepted == Fresh(t, c, ids)
             e == Picked([i \in DOMAIN t.records |-> i], accepted)
             d == c \o e
             m == Len(c)
             n == Len(e)
             Of(x) == KnowledgeOf[t.records[d[x]].q]
  <1>1. e \in Seq(1..K) /\ (\A a \in DOMAIN e : e[a] \in accepted)
        /\ \A a, b \in DOMAIN e : a < b => e[a] # e[b]
    BY AcceptedOnce
  <1>2. \A i \in accepted : i \notin Recent(t, c, KnowledgeOf[t.records[i].q])
    BY DEF Fresh
  <1> HIDE DEF e, accepted
  <1>3. /\ m \in Nat /\ DOMAIN c = 1..m /\ n \in Nat /\ DOMAIN e = 1..n
        /\ d \in Seq(1..K) /\ Len(d) = m + n
        /\ \A i \in 1..(m + n) : d[i] = IF i <= m THEN c[i] ELSE e[i - m]
    BY <1>1, LenProperties, ConcatProperties
  <1>4. DOMAIN d = 1..(m + n)
    <2> HIDE DEF d
    <2> QED BY <1>3, LenProperties
  <1> HIDE DEF d, m, n
  <1>5. \A i \in 1..m : i \in 1..(m + n) /\ d[i] = c[i]
    BY <1>3
  <1>6. SUFFICES ASSUME NEW a \in 1..(m + n), NEW b \in 1..(m + n), a < b, d[a] = d[b]
                 PROVE  CountWindow <= Cardinality({x \in 1..(m + n) : a < x /\ x < b /\ Of(x) = Of(a)})
    <2>1. Spaced(t, d)
      BY <1>4, <1>6 DEF Spaced
    <2> QED BY <1>3, <2>1 DEF d, e, accepted
  <1> DEFINE Between == {x \in 1..(m + n) : a < x /\ x < b /\ Of(x) = Of(a)}
  <1>7. IsFiniteSet(Between) /\ Cardinality(Between) \in Nat
    <2>1. IsFiniteSet(1..(m + n))
      BY <1>3, FS_Interval
    <2>2. Between \in SUBSET (1..(m + n))
      OBVIOUS
    <2> HIDE DEF Between
    <2> QED BY <2>1, <2>2, FS_Subset, FS_CardinalityType
  <1>8. CASE b <= m
    <2>1. a \in 1..m /\ b \in 1..m /\ c[a] = c[b]
      BY <1>3, <1>5, <1>6, <1>8
    <2>2. CountWindow <= Cardinality({x \in DOMAIN c : a < x /\ x < b
                           /\ KnowledgeOf[t.records[c[x]].q] = KnowledgeOf[t.records[c[a]].q]})
      BY <1>3, <1>6, <2>1 DEF Spaced
    <2>3. {x \in DOMAIN c : a < x /\ x < b
             /\ KnowledgeOf[t.records[c[x]].q] = KnowledgeOf[t.records[c[a]].q]} = Between
      <3>1. \A x : x \in 1..m /\ a < x /\ x < b <=> x \in 1..(m + n) /\ a < x /\ x < b
        BY <1>3, <2>1
      <3>2. \A x \in 1..m : d[x] = c[x]
        BY <1>5
      <3>3. d[a] = c[a]
        BY <2>1, <3>2
      <3> QED BY <1>3, <3>1, <3>2, <3>3
    <2> HIDE DEF Between
    <2> QED BY <2>2, <2>3 DEF Between
  <1>9. CASE a <= m /\ ~(b <= m)
    <2> DEFINE i == d[b]
               k == KnowledgeOf[t.records[i].q]
               on == {x \in DOMAIN c : KnowledgeOf[t.records[c[x]].q] = k}
               later == {x \in on : x > a}
    <2>1. a \in 1..m /\ c[a] = i /\ b - m \in 1..n /\ i = e[b - m]
      BY <1>3, <1>5, <1>6, <1>9
    <2>2. i \in accepted
      BY <1>1, <1>3, <2>1
    <2>3. i \notin Recent(t, c, k)
      BY <1>2, <2>2
    <2>4. a \in on
      BY <1>3, <2>1
    <2>5. ~(Cardinality(later) < CountWindow)
      <3>1. ~(a \in {x \in on : Cardinality({y \in on : y > x}) < CountWindow})
        BY <2>1, <2>3 DEF Recent
      <3> HIDE DEF on
      <3> QED BY <2>4, <3>1
    <2>6. later \in SUBSET Between
      <3>1. \A x \in later : x \in 1..m /\ x > a /\ d[x] = c[x] /\ x \in 1..(m + n) /\ x < b
        BY <1>3, <1>5, <1>9
      <3>2. \A x \in later : KnowledgeOf[t.records[c[x]].q] = k
        OBVIOUS
      <3> HIDE DEF later, k, on
      <3>3. Of(a) = k
        BY <1>6 DEF k
      <3>4. \A x \in later : x \in 1..(m + n) /\ a < x /\ x < b /\ Of(x) = Of(a)
        BY <1>3, <3>1, <3>2, <3>3
      <3> QED BY <3>4
    <2> HIDE DEF Between, later
    <2>7. Cardinality(later) \in Nat /\ Cardinality(later) <= Cardinality(Between)
      BY <1>7, <2>6, FS_Subset, FS_CardinalityType
    <2>8. CountWindow \in Nat
      BY BankAssumption
    <2>9. CountWindow <= Cardinality(Between)
      BY <1>7, <2>5, <2>7, <2>8
    <2> QED BY <2>9 DEF Between
  <1>10. CASE ~(a <= m) /\ ~(b <= m)
    <2>1. a - m \in 1..n /\ b - m \in 1..n /\ a - m < b - m
      BY <1>3, <1>6, <1>10
    <2>2. d[a] = e[a - m] /\ d[b] = e[b - m]
      BY <1>3, <1>10
    <2>3. e[a - m] = e[b - m]
      BY <1>6, <2>2
    <2> QED BY <1>1, <1>3, <2>1, <2>3
  <1>11. \/ b <= m \/ (a <= m /\ ~(b <= m)) \/ (~(a <= m) /\ ~(b <= m))
    OBVIOUS
  <1> QED BY <1>8, <1>9, <1>10, <1>11

LEMMA CountsOn ==
  ASSUME NEW s, CountRows(s), NEW t, t.profiles = s.profiles,
         \A i \in DOMAIN s.records : i \in DOMAIN t.records /\ t.records[i].q = s.records[i].q
  PROVE  CountRows(t) /\ (Chained(s) => Chained(t)) /\ Latest(t) = Latest(s)
  <1>1. ASSUME NEW i \in DOMAIN t.profiles
        PROVE  /\ t.profiles[i].counted \in Seq(DOMAIN t.records)
               /\ Spaced(t, t.profiles[i].counted)
    <2> DEFINE c == s.profiles[i].counted
    <2>1. c \in Seq(DOMAIN s.records) /\ Spaced(s, c) /\ t.profiles[i].counted = c
      BY <1>1 DEF CountRows
    <2> HIDE DEF c
    <2>2. DOMAIN c = 1..Len(c) /\ \A n \in 1..Len(c) : c[n] \in DOMAIN s.records
      BY <2>1, LenProperties, ElementOfSeq
    <2>3. c \in Seq(DOMAIN t.records)
      <3>1. DOMAIN s.records \subseteq DOMAIN t.records
        OBVIOUS
      <3> QED BY <2>1, <3>1, SeqMonotonic
    <2>4. Spaced(t, c)
      BY <2>1, <2>2, SpacedOn
    <2> QED BY <2>1, <2>3, <2>4
  <1> QED BY <1>1 DEF CountRows, Chained, Latest

\* What is counted after the evidence on profile p.
CountedNext(t, p, evidence) ==
  LET old == t.profiles[p].counted
  IN old \o Picked([i \in DOMAIN t.records |-> i], Fresh(t, old, evidence))

\* The tables u after an analysis that makes profiles and path of those of s.
Analysed(s, u, profiles, path) ==
  /\ u.profiles = profiles /\ u.path = path /\ u.rel = s.rel /\ u.bank = s.bank
  /\ \A i \in DOMAIN s.records : u.records[i].ok = s.records[i].ok

LEMMA AnalyzeIs ==
  ASSUME NEW s, Shaped(s), NEW v, NEW t, NEW p, NEW evidence, NEW revised \in BOOLEAN
  PROVE  Analysed(s, Analyze(s, v, t, p, evidence, revised),
                  IF revised THEN Append(s.profiles, [prev |-> p, counted |-> CountedNext(t, p, evidence)])
                             ELSE [s.profiles EXCEPT ![p].counted = CountedNext(t, p, evidence)],
                  IF revised THEN Rehome(s, v, p, Len(s.profiles) + 1) ELSE s.path)
  <1> DEFINE accepted == Fresh(t, t.profiles[p].counted, evidence)
             counted  == CountedNext(t, p, evidence)
             new      == Len(s.profiles) + 1
             y == [i \in DOMAIN s.records |->
                     IF i \in accepted THEN [s.records[i] EXCEPT !.by = new] ELSE s.records[i]]
             profiles == Append(s.profiles, [prev |-> p, counted |-> counted])
             less == [s.profiles EXCEPT ![p].counted = counted]
             path == Rehome(s, v, p, new)
             a == [s EXCEPT !.profiles = profiles, !.records = y, !.path = path]
             b == [s EXCEPT !.profiles = less]
  <1>0. {"profiles", "records", "path", "rel", "bank"} \subseteq DOMAIN s
    BY ShapedRows, ListsAre DEF Others
  <1>1. Analyze(s, v, t, p, evidence, revised) = IF revised THEN a ELSE b
    BY DEF Analyze, CountedNext
  <1>2. \A i \in DOMAIN s.records : y[i].ok = s.records[i].ok
    <2>1. TAKE i \in DOMAIN s.records
    <2>2. DOMAIN s.records[i] = {"q", "kind", "src", "ok", "gov", "by"}
      BY RecordRow
    <2> QED BY <2>2
  <1> HIDE DEF profiles, y, path, less
  <1>3. /\ a.profiles = profiles /\ a.path = path /\ a.rel = s.rel /\ a.bank = s.bank
        /\ a.records = y
    BY <1>0
  <1>4. /\ b.profiles = less /\ b.path = s.path /\ b.rel = s.rel /\ b.bank = s.bank
        /\ b.records = s.records
    BY <1>0
  <1> HIDE DEF a, b
  <1> QED BY <1>1, <1>2, <1>3, <1>4 DEF Analysed, profiles, path, less

LEMMA AnalyzeCounts ==
  ASSUME NEW s, Shaped(s), CountRows(s), NEW v, NEW t, NEW p \in DOMAIN t.profiles,
         NEW evidence, NEW revised \in BOOLEAN, CountRows(t),
         DOMAIN t.records = DOMAIN s.records,
         \A i \in DOMAIN s.records : t.records[i].q = s.records[i].q
  PROVE  LET u == Analyze(s, v, t, p, evidence, revised)
         IN /\ CountRows(u)
            /\ Latest(u) = IF revised THEN Latest(s) + 1 ELSE Latest(s)
            /\ t.profiles = s.profiles /\ p = Latest(s) /\ Chained(s) => Chained(u)
  <1> DEFINE u == Analyze(s, v, t, p, evidence, revised)
             old == t.profiles[p].counted
             counted == old \o Picked([i \in DOMAIN t.records |-> i], Fresh(t, old, evidence))
             K == Len(s.records)
             m == Len(s.profiles)
             row == [prev |-> p, counted |-> counted]
             Fit(c) == c \in Seq(DOMAIN u.records) /\ Spaced(u, c)
  <1>1. K \in Nat /\ DOMAIN s.records = 1..K /\ DOMAIN t.records = 1..K
    BY ShapedRows, RowsAre
  <1>2. DOMAIN u.records = 1..K /\ \A i \in 1..K : u.records[i].q = s.records[i].q
    <2>1. Keeps(s, u)
      BY AnalyzeKeeps
    <2> HIDE DEF u
    <2> QED BY <1>1, <2>1 DEF Keeps
  <1>3. /\ u.profiles = IF revised THEN Append(s.profiles, row)
                        ELSE [s.profiles EXCEPT ![p].counted = counted]
    <2>1. Analysed(s, u, IF revised THEN Append(s.profiles, [prev |-> p, counted |-> CountedNext(t, p, evidence)])
                             ELSE [s.profiles EXCEPT ![p].counted = CountedNext(t, p, evidence)],
                  IF revised THEN Rehome(s, v, p, Len(s.profiles) + 1) ELSE s.path)
      BY AnalyzeIs
    <2> QED BY <2>1 DEF Analysed, CountedNext
  <1>4. old \in Seq(1..K) /\ Spaced(t, old)
    BY <1>1 DEF CountRows
  <1>5. ASSUME NEW c, c \in Seq(1..K), Spaced(s, c) \/ Spaced(t, c)
        PROVE  Fit(c)
    <2>1. DOMAIN c = 1..Len(c) /\ \A n \in 1..Len(c) : c[n] \in 1..K
      BY <1>5, LenProperties, ElementOfSeq
    <2> HIDE DEF u, K
    <2>2. \A n \in DOMAIN c : /\ u.records[c[n]].q = s.records[c[n]].q
                              /\ u.records[c[n]].q = t.records[c[n]].q
      BY <1>1, <1>2, <2>1
    <2>3. Spaced(u, c)
      BY <1>5, <2>2, SpacedOn
    <2> QED BY <1>2, <1>5, <2>3
  <1> HIDE DEF u
  <1>6. counted \in Seq(1..K) /\ Spaced(t, counted) /\ ToSet(old) \subseteq ToSet(counted)
    <2> DEFINE new == Picked([i \in DOMAIN t.records |-> i], Fresh(t, old, evidence))
    <2>1. counted \in Seq(1..K) /\ Spaced(t, counted)
      <3> HIDE DEF old, K
      <3> QED BY <1>1, <1>4, SpacedMore
    <2>2. new \in Seq(1..K)
      <3> HIDE DEF old, K
      <3> QED BY <1>1, AcceptedOnce
    <2> HIDE DEF new, old, K
    <2>3. ToSet(old \o new) = ToSet(old) \cup ToSet(new)
      BY <1>4, <2>2, ToSetJoin
    <2> QED BY <2>1, <2>3 DEF new
  <1>7. Fit(counted)
    <2> HIDE DEF counted, Fit, K
    <2> QED BY <1>5, <1>6
  <1>8. \A i \in DOMAIN s.profiles : Fit(s.profiles[i].counted)
    <2>1. TAKE i \in DOMAIN s.profiles
    <2>2. s.profiles[i].counted \in Seq(1..K) /\ Spaced(s, s.profiles[i].counted)
      BY <1>1 DEF CountRows
    <2> HIDE DEF Fit, K
    <2> QED BY <1>5, <2>2
  <1>9. /\ Rows(s.profiles, {"prev", "counted"}) /\ s.profiles # <<>> /\ m \in Nat
        /\ DOMAIN s.profiles = 1..m /\ m # 0
    <2>1. Rows(s.profiles, {"prev", "counted"}) /\ s.profiles # <<>>
      BY DEF CountRows
    <2>2. m \in Nat /\ DOMAIN s.profiles = 1..m
      BY <2>1, RowsAre
    <2>3. s.profiles \in Seq({s.profiles[i] : i \in DOMAIN s.profiles})
      BY <2>1, RowsInSeq
    <2>4. m # 0
      BY <2>1, <2>3, EmptySeq
    <2> QED BY <2>1, <2>2, <2>4
  <1>10. row.prev = p /\ row.counted = counted /\ DOMAIN row = {"prev", "counted"}
    OBVIOUS
  <1> HIDE DEF row, counted, K
  <1>11. CASE revised
    <2>1. /\ Rows(u.profiles, {"prev", "counted"}) /\ Len(u.profiles) = m + 1
          /\ DOMAIN u.profiles = 1..(m + 1) /\ u.profiles[m + 1] = row
          /\ \A i \in 1..m : u.profiles[i] = s.profiles[i]
      BY <1>3, <1>9, <1>10, <1>11, RowsAppend
    <2> HIDE DEF m
    <2>2. \A i \in 1..(m + 1) : i \in 1..m \/ i = m + 1
      BY <1>9
    <2>3. \A i \in DOMAIN u.profiles : Fit(u.profiles[i].counted)
      <3> HIDE DEF Fit
      <3> QED BY <1>7, <1>8, <1>9, <1>10, <2>1, <2>2
    <2>4. u.profiles # <<>>
      <3>1. m + 1 # 0
        BY <1>9
      <3> QED BY <2>1, <3>1, EmptySeq
    <2>5. CountRows(u)
      BY <2>1, <2>3, <2>4 DEF CountRows
    <2>6. ASSUME t.profiles = s.profiles, p = m, Chained(s)
          PROVE  Chained(u)
      <3>1. SUFFICES ASSUME NEW i \in 1..(m + 1)
                     PROVE  /\ u.profiles[i].prev = i - 1
                            /\ i > 1 => ToSet(u.profiles[i - 1].counted)
                                          \subseteq ToSet(u.profiles[i].counted)
        BY <2>1 DEF Chained
      <3>2. CASE i \in 1..m
        <4>1. u.profiles[i] = s.profiles[i] /\ (i > 1 => u.profiles[i - 1] = s.profiles[i - 1])
          <5>1. i > 1 => i - 1 \in 1..m
            BY <1>9, <3>2
          <5> QED BY <2>1, <3>2, <5>1
        <4> QED BY <1>9, <2>6, <3>2, <4>1 DEF Chained
      <3>3. CASE i = m + 1
        <4>1. i - 1 = m /\ m \in 1..m
          BY <1>9, <3>3
        <4>2. u.profiles[i] = row /\ u.profiles[i - 1] = t.profiles[p]
          BY <2>1, <2>6, <3>3, <4>1
        <4> QED BY <1>6, <1>10, <2>6, <4>1, <4>2 DEF old
      <3> QED BY <2>2, <3>2, <3>3
    <2> QED BY <1>11, <2>1, <2>5, <2>6 DEF Latest, m, u
  <1>12. CASE ~revised
    <2>1. u.profiles = [s.profiles EXCEPT ![p].counted = counted]
      BY <1>3, <1>12
    <2>2. CASE p \notin DOMAIN s.profiles
      <3>1. u.profiles = s.profiles
        BY <1>9, <2>1, <2>2 DEF Rows
      <3>2. CountRows(u)
        BY <1>8, <1>9, <3>1 DEF CountRows
      <3>3. Chained(s) => Chained(u)
        BY <3>1 DEF Chained
      <3> QED BY <1>12, <3>1, <3>2, <3>3 DEF Latest, u
    <2>3. CASE p \in DOMAIN s.profiles
      <3> DEFINE x == [s.profiles[p] EXCEPT !.counted = counted]
      <3>1. DOMAIN x = {"prev", "counted"} /\ x.prev = s.profiles[p].prev /\ x.counted = counted
        <4>1. DOMAIN s.profiles[p] = {"prev", "counted"}
          BY <1>9, <2>3 DEF Rows
        <4> QED BY <4>1
      <3>2. u.profiles = [s.profiles EXCEPT ![p] = x]
        BY <2>1
      <3> HIDE DEF x
      <3>3. /\ Rows(u.profiles, {"prev", "counted"}) /\ DOMAIN u.profiles = DOMAIN s.profiles
            /\ Len(u.profiles) = m /\ u.profiles[p] = x
            /\ \A i \in DOMAIN s.profiles : i # p => u.profiles[i] = s.profiles[i]
        BY <1>9, <2>3, <3>1, <3>2, RowsPut
      <3>4. \A i \in DOMAIN u.profiles : Fit(u.profiles[i].counted)
        <4> HIDE DEF Fit
        <4> QED BY <1>7, <1>8, <3>1, <3>3
      <3>5. u.profiles # <<>>
        BY <1>9, <3>3, EmptySeq
      <3>6. CountRows(u)
        BY <3>3, <3>4, <3>5 DEF CountRows
      <3>7. ASSUME t.profiles = s.profiles, p = m, Chained(s)
            PROVE  Chained(u)
        <4>1. \A i \in 1..m : u.profiles[i].prev = i - 1
          BY <1>9, <3>1, <3>3, <3>7 DEF Chained
        <4>2. ASSUME NEW i \in 1..m, i > 1
              PROVE  ToSet(u.profiles[i - 1].counted) \subseteq ToSet(u.profiles[i].counted)
          <5>1. i - 1 \in 1..m /\ i - 1 # p
            BY <1>9, <3>7, <4>2
          <5>2. u.profiles[i - 1] = s.profiles[i - 1]
            BY <1>9, <3>3, <5>1
          <5>3. ToSet(s.profiles[i - 1].counted) \subseteq ToSet(s.profiles[i].counted)
            BY <1>9, <3>7, <4>2 DEF Chained
          <5>4. ToSet(s.profiles[i].counted) \subseteq ToSet(u.profiles[i].counted)
            <6>1. CASE i = p
              BY <1>6, <3>1, <3>3, <3>7, <6>1 DEF old
            <6>2. CASE i # p
              BY <1>9, <3>3, <6>2
            <6> QED BY <6>1, <6>2
          <5> QED BY <5>2, <5>3, <5>4
        <4> QED BY <1>9, <3>3, <4>1, <4>2 DEF Chained
      <3> QED BY <1>12, <3>3, <3>6, <3>7 DEF Latest, m, u
    <2> QED BY <2>2, <2>3
  <1> QED BY <1>11, <1>12

-----------------------------------------------------------------------------
(* What a catalog without cycles allows                                    *)

LEMMA ReachedSelf == ASSUME NEW E, NEW x PROVE x \in Reached(x, E)
  BY DEF Reached

LEMMA ReachedOn ==
  ASSUME NEW E, NEW e \in E
  PROVE  Reached(e[2], E) \subseteq Reached(e[1], E)
  <1>1. {e[1], e[2]} \in Ends(E)
    BY DEF Ends
  <1> DEFINE nodes == UNION Ends(E)
  <1>2. e[1] \in nodes /\ e[2] \in nodes
    BY <1>1
  <1> HIDE DEF nodes
  <1>3. {e[1]} \cup nodes = nodes /\ {e[2]} \cup nodes = nodes
    BY <1>2
  <1> DEFINE Closed(k) == {S \in SUBSET nodes : k \in S /\ \A f \in E : f[1] \in S => f[2] \in S}
  <1>4. Closed(e[1]) \subseteq Closed(e[2])
    BY <1>2
  <1>5. /\ Reached(e[1], E) = {x \in nodes : \A S \in Closed(e[1]) : x \in S}
        /\ Reached(e[2], E) = {x \in nodes : \A S \in Closed(e[2]) : x \in S}
    BY <1>3 DEF Reached, nodes
  <1> HIDE DEF Closed
  <1> QED BY <1>4, <1>5

\* An administrator's pairs that are on no cycle leave the relations acyclic.
Unclosed(rel) == \A e \in Rewritten \cap rel : e[1] \notin Reached(e[2], rel)

LEMMA StillAcyclic ==
  ASSUME NEW rel, Ordered(rel), Unclosed(rel), NEW S, S # {}, IsFiniteSet(S)
  PROVE  \E x \in S : \A e \in rel : e[2] = x => e[1] \notin S
  <1>1. SUFFICES ASSUME \A x \in S : \E e \in rel : e[2] = x /\ e[1] \in S
                 PROVE  FALSE
    OBVIOUS
  <1> DEFINE R(x) == Reached(x, rel) \cap S
             c == Cardinality(S)
             T == {c - Cardinality(R(x)) : x \in S}
  <1>2. c \in Nat /\ \A x \in S : Cardinality(R(x)) \in Nat /\ Cardinality(R(x)) <= c /\ IsFiniteSet(R(x))
    <2>1. ASSUME NEW x \in S
          PROVE  Cardinality(R(x)) \in Nat /\ Cardinality(R(x)) <= c /\ IsFiniteSet(R(x))
      <3>1. R(x) \in SUBSET S
        OBVIOUS
      <3> HIDE DEF R
      <3> QED BY <3>1, FS_Subset, FS_CardinalityType
    <2> QED BY <2>1, FS_CardinalityType
  <1> HIDE DEF R, c
  <1>3. T \in SUBSET Nat /\ T # {}
    BY <1>2
  <1>4. PICK g \in T : \A y \in T : g <= y
    <2> HIDE DEF T
    <2> QED BY <1>3, LeastNumber
  <1>5. PICK m \in S : g = c - Cardinality(R(m))
    OBVIOUS
  <1>6. \A x \in S : Cardinality(R(x)) <= Cardinality(R(m))
    BY <1>2, <1>4, <1>5
  <1> DEFINE M == {x \in S : R(x) = R(m)}
             E0 == rel \ Rewritten
  <1>7. m \in M
    OBVIOUS
  <1>8. ASSUME NEW x \in M
        PROVE  \E e \in E0 : e[2] = x /\ e[1] \in M
    <2>1. PICK e \in rel : e[2] = x /\ e[1] \in S
      BY <1>1
    <2>2. R(x) \subseteq R(e[1])
      BY <2>1, ReachedOn DEF R
    <2>3. R(x) = R(m)
      OBVIOUS
    <2>4. R(e[1]) = R(m)
      <3>1. IsFiniteSet(R(e[1])) /\ Cardinality(R(e[1])) \in Nat /\ Cardinality(R(m)) \in Nat
            /\ Cardinality(R(e[1])) <= Cardinality(R(m))
        BY <1>2, <1>6, <2>1
      <3>2. R(m) \in SUBSET R(e[1])
        BY <2>2, <2>3
      <3>3. Cardinality(R(m)) <= Cardinality(R(e[1]))
        BY <3>1, <3>2, FS_Subset
      <3>4. Cardinality(R(m)) = Cardinality(R(e[1]))
        BY <3>1, <3>3
      <3> QED BY <3>1, <3>2, <3>4, FS_Subset
    <2>5. e[1] \in M
      BY <2>1, <2>4
    <2>6. e[1] \in Reached(e[2], rel)
      <3>1. e[1] \in R(e[1])
        BY <2>1, ReachedSelf DEF R
      <3>2. e[1] \in R(x)
        BY <2>3, <2>4, <3>1
      <3> QED BY <2>1, <3>2 DEF R
    <2>7. e \notin Rewritten
      BY <2>6 DEF Unclosed
    <2> QED BY <2>1, <2>5, <2>7
  <1>9. M \in SUBSET UNION Ends(E0)
    <2>1. ASSUME NEW x \in M
          PROVE  x \in UNION Ends(E0)
      <3>1. PICK e \in E0 : e[2] = x
        BY <1>8
      <3>2. {e[1], e[2]} \in Ends(E0)
        BY DEF Ends
      <3> QED BY <3>1, <3>2
    <2> QED BY <2>1
  <1>10. Acyclic(E0)
    BY DEF Ordered
  <1> HIDE DEF M, E0
  <1>11. PICK x \in M : \A e \in E0 : e[2] = x => e[1] \notin M
    BY <1>7, <1>9, <1>10 DEF Acyclic
  <1> QED BY <1>8, <1>11

-----------------------------------------------------------------------------
(* The order of the path                                                   *)

LEMMA DistinctIs ==
  ASSUME NEW T, NEW s \in Seq(T)
  PROVE  Distinct(s) \in Seq(T) /\ ToSet(Distinct(s)) = ToSet(s)
  <1> DEFINE first == {i \in DOMAIN s : \A j \in 1..(i - 1) : s[j] # s[i]}
             n == Len(s)
  <1>1. Distinct(s) \in Seq(T) /\ ToSet(Distinct(s)) = {s[i] : i \in first \cap DOMAIN s}
    BY PickedSet DEF Distinct
  <1>2. n \in Nat /\ DOMAIN s = 1..n /\ ToSet(s) = {s[i] : i \in 1..n}
    BY LenProperties, ToSetIs
  <1>3. ASSUME NEW i \in 1..n
        PROVE  \E j \in first \cap DOMAIN s : s[j] = s[i]
    <2> DEFINE same == {j \in 1..n : s[j] = s[i]}
    <2>1. PICK j \in same : \A l \in same : j <= l
      <3>1. same \in SUBSET Nat /\ same # {}
        BY <1>2
      <3> HIDE DEF same
      <3> QED BY <3>1, LeastNumber
    <2>2. j \in 1..n /\ s[j] = s[i]
      OBVIOUS
    <2>3. \A l \in 1..(j - 1) : s[l] # s[j]
      <3>1. TAKE l \in 1..(j - 1)
      <3>2. l \in 1..n /\ ~(j <= l)
        BY <1>2, <2>2
      <3> QED BY <2>1, <2>2, <3>2
    <2> QED BY <1>2, <2>2, <2>3
  <1> HIDE DEF first, n
  <1>4. {s[i] : i \in first \cap DOMAIN s} = ToSet(s)
    BY <1>2, <1>3
  <1> QED BY <1>1, <1>4

LEMMA WithoutIs ==
  ASSUME NEW T, NEW s \in Seq(T), NEW S
  PROVE  Without(s, S) \in Seq(T) /\ ToSet(Without(s, S)) = ToSet(s) \ S
  <1> DEFINE P == {i \in DOMAIN s : s[i] \notin S}
  <1>1. Without(s, S) \in Seq(T) /\ ToSet(Without(s, S)) = {s[i] : i \in P \cap DOMAIN s}
    BY PickedSet DEF Without
  <1>2. {s[i] : i \in P \cap DOMAIN s} = ToSet(s) \ S
    BY DEF ToSet
  <1> QED BY <1>1, <1>2

LEMMA NothingListed ==
  ASSUME NEW T, NEW s \in Seq(T), ToSet(s) = {}
  PROVE  s = <<>>
  <1>1. Len(s) \in Nat /\ ToSet(s) = {s[i] : i \in 1..Len(s)}
    BY LenProperties, ToSetIs
  <1>2. Len(s) = 0
    <2> DEFINE n == Len(s)
    <2>1. n \in Nat /\ {s[i] : i \in 1..n} = {}
      BY <1>1
    <2> HIDE DEF n
    <2>2. n = 0
      <3>1. SUFFICES ASSUME n # 0 PROVE FALSE
        OBVIOUS
      <3>2. s[1] \in {s[i] : i \in 1..n}
        BY <2>1, <3>1
      <3> QED BY <2>1, <3>2
    <2> QED BY <2>2 DEF n
  <1> QED BY <1>2, EmptySeq

\* Every element of q comes after those of the set A it requires.
Placed(q, rel, A) ==
  \A n \in 1..Len(q) : Requires(rel, q[n]) \cap A \subseteq {q[m] : m \in 1..(n - 1)}

\* As many different elements as a list is long are all of it.
LEMMA AllListed ==
  ASSUME NEW T, NEW s \in Seq(T), NEW q \in Seq(T), ToSet(q) \subseteq ToSet(s), Len(q) = Len(s),
         \A a, b \in 1..Len(q) : a < b => q[a] # q[b]
  PROVE  ToSet(q) = ToSet(s)
  <1> DEFINE n == Len(s)
  <1>1. /\ n \in Nat /\ ToSet(s) = {s[i] : i \in 1..n} /\ ToSet(q) = {q[i] : i \in 1..n}
        /\ s \in [1..n -> T] /\ q \in [1..n -> T]
    BY LenProperties, ToSetIs
  <1>2. \A a, b \in 1..n : a < b => q[a] # q[b]
    OBVIOUS
  <1> HIDE DEF n
  <1>3. IsFiniteSet(1..n) /\ Cardinality(1..n) = n
    BY <1>1, FS_Interval
  <1>4. IsFiniteSet(ToSet(s)) /\ Cardinality(ToSet(s)) <= n
    <2>1. s \in Surjection(1..n, ToSet(s))
      BY <1>1 DEF Surjection
    <2> QED BY <1>3, <2>1, FS_Surjection
  <1>5. IsFiniteSet(ToSet(q)) /\ Cardinality(ToSet(q)) = n
    <2>1. q \in Surjection(1..n, ToSet(q))
      BY <1>1 DEF Surjection
    <2>2. q \in Injection(1..n, ToSet(q))
      <3>1. \A a, b \in 1..n : a # b => a < b \/ b < a
        BY <1>1
      <3>2. \A a, b \in 1..n : a # b => q[a] # q[b]
        BY <1>2, <3>1
      <3>3. q \in [1..n -> ToSet(q)]
        BY <1>1
      <3> QED BY <3>2, <3>3 DEF Injection, IsInjective
    <2> QED BY <1>3, <2>1, <2>2, FS_Surjection
  <1>6. ToSet(q) \in SUBSET ToSet(s) /\ Cardinality(ToSet(q)) <= Cardinality(ToSet(s))
    BY <1>4, FS_Subset
  <1>7. Cardinality(ToSet(s)) = Cardinality(ToSet(q))
    <2>1. Cardinality(ToSet(s)) \in Nat
      BY <1>4, FS_CardinalityType
    <2> QED BY <1>1, <1>4, <1>5, <1>6, <2>1
  <1> QED BY <1>4, <1>6, <1>7, FS_Subset

Different(q) == \A a, b \in 1..Len(q) : a < b => q[a] # q[b]

LEMMA PlacedMore ==
  ASSUME NEW T, NEW q \in Seq(T), NEW rel, NEW A, Placed(q, rel, A), Different(q),
         NEW e \in T, e \notin ToSet(q), Requires(rel, e) \cap A \subseteq ToSet(q)
  PROVE  Placed(Append(q, e), rel, A) /\ Different(Append(q, e))
  <1> DEFINE r == Append(q, e)
             n == Len(q)
  <1>1. /\ n \in Nat /\ Len(r) = n + 1 /\ r[n + 1] = e /\ \A i \in 1..n : r[i] = q[i]
    BY AppendProperties, LenProperties
  <1>2. ToSet(q) = {q[i] : i \in 1..n}
    BY ToSetIs
  <1>3. (\A a, b \in 1..n : a < b => q[a] # q[b])
        /\ \A a \in 1..n : Requires(rel, q[a]) \cap A \subseteq {q[m] : m \in 1..(a - 1)}
    BY DEF Different, Placed
  <1> HIDE DEF r, n
  <1>4. \A a \in 1..(n + 1) : a = n + 1 \/ a \in 1..n
    BY <1>1
  <1>5. ASSUME NEW a \in 1..(n + 1)
        PROVE  Requires(rel, r[a]) \cap A \subseteq {r[m] : m \in 1..(a - 1)}
    <2>1. \A m \in 1..(a - 1) : m \in 1..n /\ r[m] = q[m]
      BY <1>1
    <2>2. {r[m] : m \in 1..(a - 1)} = {q[m] : m \in 1..(a - 1)}
      BY <2>1
    <2>3. CASE a = n + 1
      <3>1. a - 1 = n
        BY <1>1, <2>3
      <3> QED BY <1>1, <1>2, <2>2, <2>3, <3>1
    <2>4. CASE a \in 1..n
      BY <1>1, <1>3, <2>2, <2>4
    <2> QED BY <1>4, <2>3, <2>4
  <1>6. ASSUME NEW a \in 1..(n + 1), NEW b \in 1..(n + 1), a < b
        PROVE  r[a] # r[b]
    <2>1. a \in 1..n
      BY <1>1, <1>6
    <2>2. CASE b = n + 1
      BY <1>1, <1>2, <2>1, <2>2
    <2>3. CASE b \in 1..n
      BY <1>1, <1>3, <1>6, <2>1, <2>3
    <2> QED BY <1>4, <2>2, <2>3
  <1>7. /\ \A a \in 1..Len(r) : Requires(rel, r[a]) \cap A \subseteq {r[m] : m \in 1..(a - 1)}
        /\ \A a, b \in 1..Len(r) : a < b => r[a] # r[b]
    BY <1>1, <1>5, <1>6
  <1> QED BY <1>7 DEF r, Placed, Different

\* In every set one can come first.
Orderly(rel, A) == \A S \in SUBSET A : S # {} => \E x \in S : Requires(rel, x) \cap S = {}

LEMMA StableIs ==
  ASSUME NEW T, NEW ids \in Seq(T), NEW rel
  PROVE  LET q == StableOrder(ids, rel) IN
         /\ q \in Seq(T) /\ ToSet(q) = ToSet(ids)
         /\ Orderly(rel, ToSet(ids)) => Placed(q, rel, ToSet(ids))
  <1> DEFINE all == Distinct(ids)
             n == Len(all)
             A == ToSet(all)
             Ready(done) == {i \in DOMAIN all :
                               all[i] \notin done /\ Requires(rel, all[i]) \cap A \subseteq done}
             After(q) == IF Ready(ToSet(q)) = {} THEN q ELSE Append(q, all[Min(Ready(ToSet(q)))])
             D == [i \in 0..n |-> {q \in Seq(T) : /\ ToSet(q) \subseteq A
                                                  /\ Placed(q, rel, A) /\ Different(q)
                                                  /\ Len(q) = i \/ Ready(ToSet(q)) = {}}]
             All == UNION {D[i] : i \in 0..n}
             F == [p \in All \X (1..n) |-> After(p[1])]
  <1>1. all \in Seq(T) /\ A = ToSet(ids)
    BY DistinctIs
  <1> HIDE DEF all
  <1>2. n \in Nat /\ DOMAIN all = 1..n /\ (\A i \in 1..n : all[i] \in T) /\ A = {all[i] : i \in 1..n}
    BY <1>1, LenProperties, ElementOfSeq, ToSetIs
  <1> HIDE DEF A
  <1>3. <<>> \in D[0]
    <2>1. <<>> \in Seq(T) /\ ToSet(<<>>) = {} /\ Len(<<>>) = 0 /\ 0 \in 0..n
      BY <1>2 DEF ToSet
    <2>2. Placed(<<>>, rel, A) /\ Different(<<>>)
      BY <2>1 DEF Placed, Different
    <2> HIDE DEF n, Ready
    <2> QED BY <2>1, <2>2
  <1>4. ASSUME NEW done
        PROVE  Ready(done) # {} =>
                 LET e == all[Min(Ready(done))]
                 IN e \in A /\ e \in T /\ e \notin done /\ Requires(rel, e) \cap A \subseteq done
    <2>1. SUFFICES ASSUME Ready(done) # {}
                   PROVE  LET e == all[Min(Ready(done))]
                          IN e \in A /\ e \in T /\ e \notin done /\ Requires(rel, e) \cap A \subseteq done
      OBVIOUS
    <2> DEFINE i == Min(Ready(done))
    <2>2. Ready(done) \in SUBSET Nat
      BY <1>2
    <2>3. i \in Ready(done)
      <3> HIDE DEF Ready
      <3>1. PICK x \in Ready(done) : \A y \in Ready(done) : x <= y
        BY <2>1, <2>2, LeastNumber
      <3> QED BY <3>1 DEF Min
    <2> HIDE DEF i
    <2>4. i \in 1..n /\ all[i] \notin done /\ Requires(rel, all[i]) \cap A \subseteq done
      BY <1>2, <2>3
    <2> QED BY <1>2, <2>4 DEF i
  <1>5. ASSUME NEW i \in 1..n, NEW q \in D[i - 1]
        PROVE  F[<<q, i>>] = After(q) /\ After(q) \in D[i]
    <2>1. i - 1 \in 0..n /\ i \in 0..n /\ i - 1 + 1 = i
      BY <1>2
    <2>2. F[<<q, i>>] = After(q)
      <3>1. q \in All
        BY <1>5, <2>1
      <3> HIDE DEF All, D, n, After
      <3> QED BY <3>1
    <2> DEFINE ready == Ready(ToSet(q))
               e == all[Min(ready)]
    <2>3. /\ q \in Seq(T) /\ ToSet(q) \subseteq A /\ Placed(q, rel, A) /\ Different(q)
          /\ Len(q) = i - 1 \/ ready = {}
      BY <1>5, <2>1
    <2>4. After(q) = IF ready = {} THEN q ELSE Append(q, e)
      OBVIOUS
    <2>5. CASE ready = {}
      <3> HIDE DEF n
      <3> QED BY <2>1, <2>2, <2>3, <2>4, <2>5
    <2>6. CASE ready # {}
      <3>1. e \in A /\ e \in T /\ e \notin ToSet(q) /\ Requires(rel, e) \cap A \subseteq ToSet(q)
        BY <1>4, <2>6
      <3>2. Len(q) = i - 1
        BY <2>3, <2>6
      <3> HIDE DEF e, ready
      <3>3. /\ Append(q, e) \in Seq(T) /\ ToSet(Append(q, e)) = ToSet(q) \cup {e}
            /\ Len(Append(q, e)) = Len(q) + 1
        BY <2>3, <3>1, ToSetMore
      <3>4. Placed(Append(q, e), rel, A) /\ Different(Append(q, e))
        BY <2>3, <3>1, PlacedMore
      <3>5. After(q) = Append(q, e)
        BY <2>4, <2>6
      <3> HIDE DEF After, Ready, n
      <3>6. Len(Append(q, e)) = i /\ ToSet(Append(q, e)) \subseteq A
        BY <2>1, <2>3, <3>1, <3>2, <3>3
      <3>7. Append(q, e) \in D[i]
        BY <2>1, <3>3, <3>4, <3>6
      <3> HIDE DEF D
      <3> QED BY <2>2, <3>5, <3>7
    <2> QED BY <2>5, <2>6
  <1> HIDE DEF F, D
  <1>6. PICK u : u = [i \in 0..n |-> IF i = 0 THEN <<>> ELSE F[<<u[i - 1], i>>]]
                 /\ \A i \in 0..n : u[i] \in D[i]
    <2> HIDE DEF n, After
    <2>1. \A i \in 1..n : \A q \in D[i - 1] : F[<<q, i>>] \in D[i]
      BY <1>5
    <2>2. n \in Nat
      BY <1>2
    <2> DEFINE base == <<>>
    <2>3. base \in D[0]
      BY <1>3
    <2> HIDE DEF base
    <2>4. \E u : BuiltBy(u, n, base, F) /\ \A i \in 0..n : u[i] \in D[i]
      BY ONLY <2>1, <2>2, <2>3, Iterated
    <2> QED BY <2>4 DEF base, BuiltBy
  <1> DEFINE IsRun(g) == g = [i \in 0..n |-> IF i = 0 THEN <<>> ELSE After(g[i - 1])]
             run == CHOOSE g : IsRun(g)
  <1>7. IsRun(u)
    <2>1. \A i \in 0..n : i # 0 => u[i - 1] \in D[i - 1] /\ i \in 1..n
      BY <1>2, <1>6
    <2>2. \A i \in 0..n : u[i] = IF i = 0 THEN <<>> ELSE F[<<u[i - 1], i>>]
      BY <1>6
    <2>3. \A i \in 0..n : u[i] = IF i = 0 THEN <<>> ELSE After(u[i - 1])
      <3> HIDE DEF n, After
      <3> QED BY <1>5, <2>1, <2>2
    <2>4. u = [i \in 0..n |-> u[i]]
      BY <1>6
    <2> HIDE DEF n, After
    <2> QED BY <2>3, <2>4
  <1>8. IsRun(run)
    <2> HIDE DEF IsRun
    <2> QED BY <1>7
  <1> DEFINE ordered == run[n]
  <1>9. StableOrder(ids, rel) = ordered \o Without(all, ToSet(ordered))
    BY DEF StableOrder, A, all
  <1>10. \A i \in 0..n : run[i] = IF i = 0 THEN <<>> ELSE After(run[i - 1])
    <2> HIDE DEF run, After
    <2> QED BY <1>8
  <1> HIDE DEF run
  <1>11. run[0] \in D[0] /\ \A i \in 1..n : run[i - 1] \in D[i - 1] => run[i] \in D[i]
    <2>1. \A i \in 1..n : i \in 0..n /\ i # 0
      BY <1>2
    <2>2. 0 \in 0..n
      BY <1>2
    <2> HIDE DEF n, After
    <2> QED BY <1>3, <1>5, <1>10, <2>1, <2>2
  <1>12. run[n] \in D[n]
    <2>1. n \in 0..n
      BY <1>2
    <2> HIDE DEF n
    <2> QED BY <1>2, <1>11, <2>1, StaysIn
  <1>13. /\ ordered \in Seq(T) /\ ToSet(ordered) \subseteq A /\ Placed(ordered, rel, A)
         /\ Different(ordered)
         /\ Len(ordered) = n \/ Ready(ToSet(ordered)) = {}
    <2>1. n \in 0..n
      BY <1>2
    <2> HIDE DEF Ready
    <2> QED BY <1>12, <2>1 DEF D
  <1> HIDE DEF ordered
  <1> DEFINE rest == Without(all, ToSet(ordered))
  <1>14. rest \in Seq(T) /\ ToSet(rest) = A \ ToSet(ordered)
    BY <1>1, WithoutIs DEF A
  <1> HIDE DEF rest
  <1>15. ordered \o rest \in Seq(T) /\ ToSet(ordered \o rest) = A
    <2>1. ordered \o rest \in Seq(T) /\ ToSet(ordered \o rest) = ToSet(ordered) \cup ToSet(rest)
      BY <1>13, <1>14, ToSetJoin
    <2> QED BY <1>13, <1>14, <2>1
  <1>16. ASSUME Orderly(rel, A)
         PROVE  Placed(ordered \o rest, rel, A)
    <2>1. ToSet(ordered) = A
      <3>1. CASE Len(ordered) = n
        <4>1. \A a, b \in 1..Len(ordered) : a < b => ordered[a] # ordered[b]
          BY <1>13 DEF Different
        <4>2. all \in Seq(T) /\ ordered \in Seq(T) /\ ToSet(ordered) \subseteq ToSet(all)
              /\ Len(ordered) = Len(all)
          BY <1>1, <1>13, <3>1 DEF A
        <4>3. ToSet(ordered) = ToSet(all)
          BY ONLY <4>1, <4>2, AllListed
        <4> QED BY <4>3 DEF A
      <3>2. CASE Ready(ToSet(ordered)) = {}
        <4> DEFINE S == A \ ToSet(ordered)
        <4>1. SUFFICES ASSUME S # {}
                       PROVE  FALSE
          BY <1>13
        <4>2. PICK x \in S : Requires(rel, x) \cap S = {}
          BY <1>16, <4>1 DEF Orderly
        <4>3. PICK i \in 1..n : all[i] = x
          BY <1>2
        <4>4. i \in Ready(ToSet(ordered))
          BY <1>2, <4>2, <4>3
        <4> QED BY <3>2, <4>4
      <3> QED BY <1>13, <3>1, <3>2
    <2>2. rest = <<>>
      BY <1>14, <2>1, NothingListed
    <2>3. ordered \o rest = ordered
      BY <1>13, <2>2, ConcatEmptySeq
    <2> QED BY <1>13, <2>3
  <1>17. StableOrder(ids, rel) = ordered \o rest
    BY <1>9 DEF ordered, rest
  <1> QED BY <1>1, <1>15, <1>16, <1>17

-----------------------------------------------------------------------------
(* What a knowledge point needs                                            *)

LEMMA SourcesAre ==
  ASSUME NEW rel, IsFiniteSet(rel)
  PROVE  LET sources == {r[1] : r \in rel} IN
         IsFiniteSet(sources) /\ Cardinality(sources) <= Cardinality(rel)
  <1> DEFINE sources == {r[1] : r \in rel}
             f == [r \in rel |-> r[1]]
  <1>1. f \in Surjection(rel, sources)
    BY DEF Surjection
  <1> HIDE DEF f, sources
  <1> QED BY <1>1, FS_Surjection DEF sources

LEMMA NeededIs ==
  ASSUME NEW rel, IsFiniteSet(rel), NEW k, NEW completed
  PROVE  LET N == NeededBy(k, rel, completed) IN
         IsFiniteSet(N) /\ \A y \in N \cup {k} : Requires(rel, y) \ completed \subseteq N
  <1> DEFINE n == Cardinality(rel)
             sources == {r[1] : r \in rel}
             After(S) == S \cup ((UNION {Requires(rel, x) : x \in S \cup {k}}) \ completed)
             D == [i \in 0..n |-> {S \in SUBSET sources : Cardinality(S) >= i \/ After(S) = S}]
             All == UNION {D[i] : i \in 0..n}
             F == [p \in All \X (1..n) |-> After(p[1])]
  <1>1. n \in Nat /\ IsFiniteSet(sources) /\ Cardinality(sources) <= n
    BY SourcesAre, FS_CardinalityType
  <1>2. \A S \in SUBSET sources : /\ IsFiniteSet(S) /\ Cardinality(S) \in Nat
                                  /\ Cardinality(S) <= Cardinality(sources)
    BY <1>1, FS_Subset, FS_CardinalityType
  <1>s. Cardinality(sources) \in Nat
    BY <1>1, FS_CardinalityType
  <1>3. \A S \in SUBSET sources : S \subseteq After(S) /\ After(S) \in SUBSET sources
    <2>1. \A x : Requires(rel, x) \subseteq sources
      BY DEF Requires
    <2> HIDE DEF sources
    <2> QED BY <2>1
  <1> HIDE DEF n, sources, After
  <1>4. {} \in D[0]
    <2>1. Cardinality({}) >= 0 /\ 0 \in 0..n /\ {} \in SUBSET sources
      BY <1>1, FS_EmptySet
    <2> QED BY <2>1
  <1>5. ASSUME NEW i \in 1..n, NEW S \in D[i - 1]
        PROVE  F[<<S, i>>] = After(S) /\ After(S) \in D[i]
    <2>1. i - 1 \in 0..n /\ i \in 0..n
      BY <1>1
    <2>2. F[<<S, i>>] = After(S)
      <3>1. S \in All
        BY <1>5, <2>1
      <3> HIDE DEF All, D
      <3> QED BY <3>1
    <2>3. S \in SUBSET sources /\ (Cardinality(S) >= i - 1 \/ After(S) = S)
      BY <1>5, <2>1
    <2>4. S \subseteq After(S) /\ After(S) \in SUBSET sources
      BY <1>3, <2>3
    <2>5. CASE After(S) = S
      BY <2>1, <2>2, <2>3, <2>5
    <2>6. CASE After(S) # S /\ Cardinality(S) >= i - 1
      <3>1. IsFiniteSet(After(S)) /\ S \in SUBSET After(S)
        BY <1>2, <2>4
      <3>2. Cardinality(S) <= Cardinality(After(S)) /\ Cardinality(S) # Cardinality(After(S))
        BY <2>6, <3>1, FS_Subset
      <3>3. Cardinality(S) \in Nat /\ Cardinality(After(S)) \in Nat
        BY <1>2, <2>3, <2>4
      <3>4. Cardinality(After(S)) >= i
        BY <1>1, <2>6, <3>2, <3>3
      <3> QED BY <2>1, <2>2, <2>4, <3>4
    <2> QED BY <2>3, <2>5, <2>6
  <1> HIDE DEF F, D
  <1>6. PICK u : u = [i \in 0..n |-> IF i = 0 THEN {} ELSE F[<<u[i - 1], i>>]]
                 /\ \A i \in 0..n : u[i] \in D[i]
    <2>1. \A i \in 1..n : \A S \in D[i - 1] : F[<<S, i>>] \in D[i]
      BY <1>5
    <2>2. n \in Nat
      BY <1>1
    <2> DEFINE base == {}
    <2>3. base \in D[0]
      BY <1>4
    <2> HIDE DEF base
    <2>4. \E u : BuiltBy(u, n, base, F) /\ \A i \in 0..n : u[i] \in D[i]
      BY ONLY <2>1, <2>2, <2>3, Iterated
    <2> QED BY <2>4 DEF base, BuiltBy
  <1> DEFINE IsGrow(g) == g = [i \in 0..n |-> IF i = 0 THEN {} ELSE After(g[i - 1])]
             grow == CHOOSE g : IsGrow(g)
  <1>7. IsGrow(u)
    <2>1. \A i \in 0..n : i # 0 => u[i - 1] \in D[i - 1] /\ i \in 1..n
      BY <1>1, <1>6
    <2>2. \A i \in 0..n : u[i] = IF i = 0 THEN {} ELSE F[<<u[i - 1], i>>]
      BY <1>6
    <2>3. \A i \in 0..n : u[i] = IF i = 0 THEN {} ELSE After(u[i - 1])
      BY <1>5, <2>1, <2>2
    <2>4. u = [i \in 0..n |-> u[i]]
      BY <1>6
    <2> QED BY <2>3, <2>4
  <1>8. IsGrow(grow)
    <2> HIDE DEF IsGrow
    <2> QED BY <1>7
  <1>9. NeededBy(k, rel, completed) = grow[n]
    BY DEF NeededBy, n, After
  <1>10. \A i \in 0..n : grow[i] = IF i = 0 THEN {} ELSE After(grow[i - 1])
    <2> HIDE DEF grow
    <2> QED BY <1>8
  <1> HIDE DEF grow
  <1>11. grow[0] \in D[0] /\ \A i \in 1..n : grow[i - 1] \in D[i - 1] => grow[i] \in D[i]
    <2>1. \A i \in 1..n : i \in 0..n /\ i # 0
      BY <1>1
    <2>2. 0 \in 0..n
      BY <1>1
    <2> QED BY <1>4, <1>5, <1>10, <2>1, <2>2
  <1>12. grow[n] \in D[n]
    <2>1. n \in 0..n
      BY <1>1
    <2> QED BY <1>1, <1>11, <2>1, StaysIn
  <1>13. grow[n] \in SUBSET sources /\ (Cardinality(grow[n]) >= n \/ After(grow[n]) = grow[n])
    <2>1. n \in 0..n
      BY <1>1
    <2> QED BY <1>12, <2>1 DEF D
  <1> DEFINE N == grow[n]
  <1> HIDE DEF N
  <1>14. After(N) = N /\ IsFiniteSet(N)
    <2>1. CASE Cardinality(N) >= n
      <3>1. Cardinality(N) = Cardinality(sources)
        BY <1>1, <1>2, <1>13, <1>s, <2>1 DEF N
      <3>2. N = sources
        BY <1>1, <1>13, <3>1, FS_Subset DEF N
      <3> QED BY <1>1, <1>3, <3>2
    <2>2. CASE After(N) = N
      BY <1>2, <1>13, <2>2 DEF N
    <2> QED BY <1>13, <2>1, <2>2 DEF N
  <1>15. \A y \in N \cup {k} : Requires(rel, y) \ completed \subseteq N
    <2>1. TAKE y \in N \cup {k}
    <2> DEFINE X == UNION {Requires(rel, x) : x \in N \cup {k}}
    <2>2. Requires(rel, y) \subseteq X
      OBVIOUS
    <2>3. After(N) = N \cup (X \ completed)
      BY DEF After
    <2> HIDE DEF X
    <2>4. Requires(rel, y) \ completed \subseteq After(N)
      BY <2>2, <2>3
    <2> QED BY <1>14, <2>4
  <1> QED BY <1>9, <1>14, <1>15 DEF N

LEMMA ToSeqAll ==
  ASSUME NEW S, IsFiniteSet(S)
  PROVE  SetToSeq(S) \in Seq(S) /\ ToSet(SetToSeq(S)) = S
  <1> DEFINE n == Cardinality(S)
             f == SetToSeq(S)
  <1>1. n \in Nat /\ ExistsBijection(1..n, S) /\ IsFiniteSet(1..n) /\ Cardinality(1..n) = n
    BY FS_CardinalityType, FS_Interval
  <1>2. PICK g \in Bijection(1..n, S) : TRUE
    BY <1>1 DEF ExistsBijection
  <1>3. g \in [1..n -> S] /\ IsInjective(g)
    BY <1>2 DEF Bijection, Injection, Surjection, IsInjective
  <1>4. f \in [1..n -> S] /\ IsInjective(f)
    BY <1>3 DEF SetToSeq
  <1> HIDE DEF n, f
  <1>5. f \in Surjection(1..n, S)
    <2>1. f \in Injection(1..n, S)
      BY <1>4 DEF Injection, IsInjective
    <2> QED BY <1>1, <2>1, FS_Injection DEF n
  <1>6. f \in Seq(S)
    BY <1>1, <1>4, SeqDef
  <1>7. ToSet(f) = {f[i] : i \in 1..n}
    BY <1>4 DEF ToSet
  <1>8. ToSet(f) = S
    BY <1>4, <1>5, <1>7 DEF Surjection
  <1> QED BY <1>6, <1>8 DEF f

\* A list is a list over whatever its elements are in.
LEMMA ListOver ==
  ASSUME NEW T, NEW x, IsList(x), ToSet(x) \subseteq T
  PROVE  x \in Seq(T)
  BY SeqMonotonic DEF IsList

LEMMA IsListOf ==
  ASSUME NEW T, NEW x \in Seq(T)
  PROVE  IsList(x)
  BY ToSetIs DEF IsList

-----------------------------------------------------------------------------
(* The units of a path                                                     *)

UnitFields == {"ids", "status"}

LEMMA SeqRows ==
  ASSUME NEW F, NEW T, \A e \in T : DOMAIN e = F, NEW c \in Seq(T)
  PROVE  Rows(c, F)
  <1> DEFINE n == Len(c)
  <1>1. n \in Nat /\ c \in [1..n -> T]
    BY LenProperties
  <1> HIDE DEF n
  <1>2. c = [i \in 1..n |-> c[i]] /\ \A i \in 1..n : DOMAIN c[i] = F
    BY <1>1
  <1> QED BY <1>1, <1>2, RowsFrom

LEMMA PickedRows ==
  ASSUME NEW F, NEW x, Rows(x, F), NEW S
  PROVE  LET c == Picked(x, S) IN
         /\ Rows(c, F)
         /\ \A a \in DOMAIN c : \E i \in S \cap DOMAIN x : c[a] = x[i]
         /\ \A i \in S \cap DOMAIN x : \E a \in DOMAIN c : c[a] = x[i]
  <1> DEFINE T == {x[i] : i \in DOMAIN x}
             c == Picked(x, S)
  <1>1. x \in Seq(T) /\ \A e \in T : DOMAIN e = F
    BY RowsInSeq DEF Rows
  <1> HIDE DEF T
  <1>2. c \in Seq(T) /\ ToSet(c) = {x[i] : i \in S \cap DOMAIN x}
    BY <1>1, PickedSet
  <1> HIDE DEF c
  <1>3. Rows(c, F)
    BY <1>1, <1>2, SeqRows
  <1>4. {c[a] : a \in DOMAIN c} = {x[i] : i \in S \cap DOMAIN x}
    BY <1>2 DEF ToSet
  <1> QED BY <1>3, <1>4 DEF c

\* The knowledge points of each completed unit.
Done(path) == {path.units[i].ids : i \in At(path, "completed")}

LEMMA CompletedIs == ASSUME NEW path PROVE CompletedIds(path) = UNION {ToSet(x) : x \in Done(path)}
  BY DEF CompletedIds, Members, Done

LEMMA AtIs ==
  ASSUME NEW path, NEW status
  PROVE  At(path, status) = {i \in DOMAIN path.units : path.units[i].status = status}
  BY DEF At

LEMMA UnitsAre ==
  ASSUME NEW path, IsPath(path)
  PROVE  /\ Rows(path.units, UnitFields) /\ Len(path.units) \in Nat
         /\ DOMAIN path.units = 1..Len(path.units)
         /\ \A i \in DOMAIN path.units : IsList(path.units[i].ids) /\ DOMAIN path.units[i] = UnitFields
  <1>1. Rows(path.units, UnitFields)
    BY DEF IsPath, UnitFields
  <1>2. \A i \in DOMAIN path.units : IsList(path.units[i].ids) /\ DOMAIN path.units[i] = UnitFields
    BY <1>1 DEF IsPath, Rows
  <1> QED BY <1>1, <1>2, RowsAre

LEMMA EmptyList == IsList(<<>>) /\ ToSet(<<>>) = {}
  <1>1. ToSet(<<>>) = {}
    BY DEF ToSet
  <1> QED BY <1>1, EmptySeq DEF IsList

LEMMA CurrentIs ==
  ASSUME NEW path, IsPath(path)
  PROVE  /\ IsList(CurrentIds(path)) /\ ToSet(CurrentIds(path)) = Members(path, "current")
         /\ Members(path, "current") # {} =>
              \A i \in At(path, "current") : CurrentIds(path) = path.units[i].ids
  <1> DEFINE cur == At(path, "current")
             M == Members(path, "current")
  <1>1. /\ M = UNION {ToSet(path.units[i].ids) : i \in cur}
        /\ \A i, j \in cur : path.units[i].ids = path.units[j].ids
        /\ \A i \in cur : i \in DOMAIN path.units /\ IsList(path.units[i].ids)
    BY UnitsAre, AtIs DEF Members, IsPath
  <1>2. CASE M = {}
    <2>1. CurrentIds(path) = <<>>
      BY <1>2 DEF CurrentIds
    <2> QED BY <1>2, <2>1, EmptyList
  <1>3. CASE M # {}
    <2> DEFINE u == CHOOSE x \in ToSet(path.units) : x.status = "current"
    <2>1. PICK i \in cur : TRUE
      BY <1>1, <1>3
    <2>2. path.units[i] \in ToSet(path.units) /\ path.units[i].status = "current"
      BY <1>1 DEF ToSet, At
    <2>3. u \in ToSet(path.units) /\ u.status = "current"
      BY <2>2
    <2>4. PICK j \in DOMAIN path.units : u = path.units[j]
      BY <2>3 DEF ToSet
    <2>5. j \in cur
      BY <2>3, <2>4 DEF At
    <2>6. CurrentIds(path) = u.ids
      BY <1>3 DEF CurrentIds
    <2> HIDE DEF u, cur
    <2>7. \A l \in cur : CurrentIds(path) = path.units[l].ids
      BY <1>1, <2>4, <2>5, <2>6
    <2>8. ToSet(CurrentIds(path)) = M
      <3>1. \A l \in cur : ToSet(path.units[l].ids) = ToSet(CurrentIds(path))
        BY <2>7
      <3> QED BY <1>1, <2>1, <3>1
    <2> QED BY <1>1, <2>1, <2>7, <2>8 DEF cur
  <1> QED BY <1>2, <1>3

LEMMA CompletedUnitsAre ==
  ASSUME NEW path, IsPath(path)
  PROVE  LET c == CompletedUnits(path) IN
         /\ Rows(c, UnitFields)
         /\ \A a \in DOMAIN c : c[a].status = "completed" /\ IsList(c[a].ids)
         /\ {c[a].ids : a \in DOMAIN c} = Done(path)
  <1> DEFINE c == CompletedUnits(path)
             P == At(path, "completed")
  <1>1. /\ Rows(c, UnitFields)
        /\ \A a \in DOMAIN c : \E i \in P \cap DOMAIN path.units : c[a] = path.units[i]
        /\ \A i \in P \cap DOMAIN path.units : \E a \in DOMAIN c : c[a] = path.units[i]
    <2>1. c = Picked(path.units, P)
      BY DEF CompletedUnits
    <2>2. Rows(path.units, UnitFields)
      BY UnitsAre
    <2> HIDE DEF c, P
    <2> QED BY ONLY <2>1, <2>2, PickedRows
  <1>2. P \subseteq DOMAIN path.units /\ \A i \in P : path.units[i].status = "completed"
    BY AtIs
  <1>3. \A i \in DOMAIN path.units : IsList(path.units[i].ids)
    BY UnitsAre
  <1> HIDE DEF c, P
  <1>4. {c[a].ids : a \in DOMAIN c} = {path.units[i].ids : i \in P}
    BY <1>1, <1>2
  <1>5. \A a \in DOMAIN c : c[a].status = "completed" /\ IsList(c[a].ids)
    BY <1>1, <1>2, <1>3
  <1> QED BY <1>1, <1>4, <1>5 DEF Done, c, P

LEMMA FlattenIs ==
  ASSUME NEW u, Rows(u, UnitFields), \A i \in DOMAIN u : IsList(u[i].ids)
  PROVE  IsList(Flatten(u)) /\ ToSet(Flatten(u)) = UNION {ToSet(u[i].ids) : i \in DOMAIN u}
  <1> DEFINE lists == [i \in DOMAIN u |-> u[i].ids]
             T == UNION {ToSet(u[i].ids) : i \in DOMAIN u}
             n == Len(u)
  <1>1. n \in Nat /\ DOMAIN u = 1..n
    BY RowsAre
  <1>2. \A i \in DOMAIN u : u[i].ids \in Seq(T)
    <2>1. TAKE i \in DOMAIN u
    <2>2. ToSet(u[i].ids) \subseteq T
      OBVIOUS
    <2> HIDE DEF T
    <2> QED BY <2>2, ListOver
  <1> HIDE DEF T, n
  <1>3. lists \in Seq(Seq(T))
    BY <1>1, <1>2, SeqDef
  <1>4. DOMAIN lists = DOMAIN u /\ \A i \in DOMAIN u : lists[i] = u[i].ids
    OBVIOUS
  <1>5. Flatten(u) = Joined(lists)
    BY DEF Flatten
  <1> HIDE DEF lists
  <1>6. Joined(lists) \in Seq(T) /\ ToSet(Joined(lists)) = UNION {ToSet(lists[i]) : i \in DOMAIN lists}
    BY <1>3, JoinedIs
  <1>7. {ToSet(lists[i]) : i \in DOMAIN lists} = {ToSet(u[i].ids) : i \in DOMAIN u}
    BY <1>4
  <1> QED BY <1>5, <1>6, <1>7, IsListOf

LEMMA ListFinite ==
  ASSUME NEW x, IsList(x)
  PROVE  IsFiniteSet(ToSet(x))
  <1> DEFINE n == Len(x)
  <1>1. n \in Nat /\ x \in [1..n -> ToSet(x)] /\ ToSet(x) = {x[i] : i \in 1..n}
    BY LenProperties, ToSetIs DEF IsList
  <1> HIDE DEF n
  <1>2. x \in Surjection(1..n, ToSet(x))
    BY <1>1 DEF Surjection
  <1> QED BY <1>1, <1>2, FS_Interval, FS_Surjection

LEMMA OrderlyAll ==
  ASSUME NEW rel, Ordered(rel), Unclosed(rel), NEW A, IsFiniteSet(A)
  PROVE  Orderly(rel, A)
  <1>1. SUFFICES ASSUME NEW S \in SUBSET A, S # {}
                 PROVE  \E x \in S : Requires(rel, x) \cap S = {}
    BY DEF Orderly
  <1>2. IsFiniteSet(S)
    BY FS_Subset
  <1>3. PICK x \in S : \A e \in rel : e[2] = x => e[1] \notin S
    BY <1>1, <1>2, StillAcyclic
  <1>4. Requires(rel, x) \cap S = {}
    BY <1>3 DEF Requires
  <1> QED BY <1>4

LEMMA JoinLists ==
  ASSUME NEW a, IsList(a), NEW b, IsList(b)
  PROVE  IsList(a \o b) /\ ToSet(a \o b) = ToSet(a) \cup ToSet(b)
  <1> DEFINE T == ToSet(a) \cup ToSet(b)
  <1>1. a \in Seq(T) /\ b \in Seq(T)
    BY ListOver
  <1> HIDE DEF T
  <1>2. a \o b \in Seq(T) /\ ToSet(a \o b) = ToSet(a) \cup ToSet(b)
    BY <1>1, ToSetJoin
  <1> QED BY <1>2, IsListOf

-----------------------------------------------------------------------------
(* The order a path is given                                               *)

LEMMA ExpandedIs ==
  ASSUME NEW path, IsPath(path), NEW rel, IsFiniteSet(rel)
  PROVE  LET order == Expanded(path, rel) IN
         /\ IsList(order)
         /\ Ordered(rel) /\ Unclosed(rel) => Placed(order, rel, ToSet(order))
         /\ \A k \in ToSet(order) \ CompletedIds(path) : Requires(rel, k) \subseteq ToSet(order)
  <1> DEFINE done == Flatten(CompletedUnits(path))
             With(k) == SetToSeq(NeededBy(k, rel, ToSet(done))) \o <<k>>
             wanted  == path.order \o CurrentIds(path)
             lists == [n \in DOMAIN wanted |-> With(wanted[n])]
             all == done \o Joined(lists)
             order == Expanded(path, rel)
  <1>1. IsList(done) /\ ToSet(done) = CompletedIds(path)
    <2> DEFINE c == CompletedUnits(path)
    <2>1. /\ Rows(c, UnitFields) /\ (\A a \in DOMAIN c : IsList(c[a].ids))
          /\ {c[a].ids : a \in DOMAIN c} = Done(path)
      BY CompletedUnitsAre
    <2> HIDE DEF c
    <2>2. IsList(Flatten(c)) /\ ToSet(Flatten(c)) = UNION {ToSet(c[a].ids) : a \in DOMAIN c}
      BY <2>1, FlattenIs
    <2>3. {ToSet(c[a].ids) : a \in DOMAIN c} = {ToSet(x) : x \in Done(path)}
      <3>1. \A X : X \in {ToSet(c[a].ids) : a \in DOMAIN c} <=> \E x \in {c[a].ids : a \in DOMAIN c} : X = ToSet(x)
        OBVIOUS
      <3> QED BY <2>1, <3>1
    <2> QED BY <2>2, <2>3, CompletedIs DEF c
  <1>2. order = StableOrder(all, rel)
    BY DEF Expanded
  <1> HIDE DEF done
  <1>3. ASSUME NEW k
        PROVE  IsList(With(k)) /\ ToSet(With(k)) = NeededBy(k, rel, ToSet(done)) \cup {k}
    <2> DEFINE N == NeededBy(k, rel, ToSet(done))
    <2>1. IsFiniteSet(N)
      BY NeededIs
    <2> HIDE DEF N
    <2>2. SetToSeq(N) \in Seq(N) /\ ToSet(SetToSeq(N)) = N
      BY <2>1, ToSeqAll
    <2>3. IsList(<<k>>) /\ ToSet(<<k>>) = {k}
      <3>1. <<k>> \in Seq({k}) /\ ToSet(<<k>>) = {k}
        BY DEF ToSet
      <3> QED BY <3>1 DEF IsList
    <2>4. IsList(SetToSeq(N))
      BY <2>2, IsListOf
    <2>5. IsList(SetToSeq(N) \o <<k>>) /\ ToSet(SetToSeq(N) \o <<k>>) = ToSet(SetToSeq(N)) \cup ToSet(<<k>>)
      BY <2>3, <2>4, JoinLists
    <2> QED BY <2>2, <2>3, <2>5 DEF N
  <1>4. IsList(wanted)
    BY CurrentIs, JoinLists DEF IsPath
  <1> HIDE DEF With, wanted
  <1>5. /\ lists \in Seq(Seq(UNION {ToSet(lists[n]) : n \in DOMAIN lists}))
        /\ DOMAIN lists = DOMAIN wanted /\ \A n \in DOMAIN wanted : lists[n] = With(wanted[n])
    <2> DEFINE T == UNION {ToSet(lists[n]) : n \in DOMAIN lists}
               m == Len(wanted)
    <2>1. DOMAIN lists = DOMAIN wanted /\ \A n \in DOMAIN wanted : lists[n] = With(wanted[n])
      OBVIOUS
    <2>2. m \in Nat /\ DOMAIN wanted = 1..m
      BY <1>4, LenProperties DEF IsList
    <2>3. lists = [n \in 1..m |-> lists[n]]
      BY <2>2
    <2> HIDE DEF lists, m
    <2>4. \A n \in DOMAIN lists : lists[n] \in Seq(T)
      <3>1. TAKE n \in DOMAIN lists
      <3>2. IsList(lists[n]) /\ ToSet(lists[n]) \subseteq T
        BY <1>3, <2>1
      <3> HIDE DEF T
      <3> QED BY <3>2, ListOver
    <2> HIDE DEF T
    <2>5. lists \in Seq(Seq(T))
      BY <2>1, <2>2, <2>3, <2>4, SeqDef
    <2> QED BY <2>1, <2>5 DEF T
  <1> HIDE DEF lists
  <1>6. IsList(Joined(lists)) /\ ToSet(Joined(lists)) = UNION {ToSet(lists[n]) : n \in DOMAIN lists}
    BY <1>5, JoinedIs, IsListOf
  <1>7. IsList(all) /\ ToSet(all) = ToSet(done) \cup UNION {ToSet(lists[n]) : n \in DOMAIN lists}
    BY <1>1, <1>6, JoinLists
  <1> HIDE DEF all, order
  <1>8. /\ order \in Seq(ToSet(all)) /\ ToSet(order) = ToSet(all)
        /\ Orderly(rel, ToSet(all)) => Placed(order, rel, ToSet(all))
    <2>1. all \in Seq(ToSet(all))
      BY <1>7 DEF IsList
    <2> QED BY <1>2, <2>1, StableIs
  <1>9. Ordered(rel) /\ Unclosed(rel) => Placed(order, rel, ToSet(order))
    BY <1>7, <1>8, ListFinite, OrderlyAll
  <1>10. ASSUME NEW k \in ToSet(order), k \notin CompletedIds(path)
         PROVE  Requires(rel, k) \subseteq ToSet(order)
    <2>1. PICK n \in DOMAIN wanted : k \in ToSet(With(wanted[n]))
      BY <1>1, <1>5, <1>7, <1>8, <1>10
    <2> DEFINE w == wanted[n]
               N == NeededBy(w, rel, ToSet(done))
    <2>2. k \in N \cup {w} /\ N \subseteq ToSet(With(w))
      BY <1>3, <2>1
    <2>3. \A y \in N \cup {w} : Requires(rel, y) \ ToSet(done) \subseteq N
      BY NeededIs
    <2>4. ToSet(With(w)) \subseteq ToSet(all) /\ ToSet(done) \subseteq ToSet(all)
      BY <1>5, <1>7
    <2> HIDE DEF N, w
    <2> QED BY <1>8, <2>2, <2>3, <2>4
  <1> QED BY <1>8, <1>9, <1>10, IsListOf DEF order

-----------------------------------------------------------------------------
(* Consecutive slices of a list                                            *)

LEMMA MinIs ==
  ASSUME NEW S \in SUBSET Nat, S # {}
  PROVE  Min(S) \in S /\ \A y \in S : Min(S) <= y
  <1>1. \E x \in S : \A y \in S : x <= y
    BY LeastNumber
  <1> QED BY <1>1 DEF Min

LEMMA SubSeqList ==
  ASSUME NEW s, NEW m \in Int, NEW n \in Int
  PROVE  IsList(SubSeq(s, m, n))
  <1> DEFINE S == {s[i] : i \in m..n}
  <1>1. \A i \in m..n : s[i] \in S
    OBVIOUS
  <1> HIDE DEF S
  <1>2. SubSeq(s, m, n) \in Seq(S)
    BY <1>1, SubSeqProperties
  <1> QED BY <1>2, IsListOf

LEMMA Quotient ==
  ASSUME NEW n \in Nat, NEW d \in Nat, 1 <= d, d <= n
  PROVE  /\ n \div d \in Nat /\ n % d \in Nat /\ 1 <= n \div d
         /\ (n \div d) + (n % d) <= n
  <1> DEFINE q == n \div d
             r == n % d
  <1>1. q \in Int /\ r \in 0..(d - 1) /\ n = d * q + r
    OBVIOUS
  <1> HIDE DEF q, r
  <1>2. q >= 1
    <2>1. SUFFICES ASSUME q <= 0 PROVE FALSE
      BY <1>1
    <2>2. d * q <= 0
      BY <1>1, <2>1
    <2> QED BY <1>1, <2>2
  <1>3. q <= d * q
    BY <1>1, <1>2
  <1>4. q \in Nat /\ r \in Nat /\ 1 <= q /\ q + r <= n
    <2> DEFINE m == d * q
    <2>1. m \in Int /\ n = m + r /\ q <= m
      BY <1>1, <1>3
    <2> HIDE DEF m
    <2> QED BY <1>1, <1>2, <2>1
  <1> QED BY <1>4 DEF q, r

\* The first unit is a first part of what remains.
LEMMA BalancedIs ==
  ASSUME NEW T, NEW ids \in Seq(T)
  PROVE  LET b == BalancedUnits(ids) IN
         /\ b \in Seq({x \in {b[i] : i \in DOMAIN b} : IsList(x)})
         /\ ids = <<>> => b = <<>>
         /\ ids # <<>> => /\ Len(b) >= 1
                          /\ \E h \in 1..Len(ids) : b[1] = SubSeq(ids, 1, h)
  <1> DEFINE n == Len(ids)
             wanted == (n + UnitSpan - 1) \div UnitSpan
             top    == Max({MinUnits, wanted})
             target == Min({n, MaxUnits, top})
             base   == n \div target
             extra  == n % target
             Size(i)  == base + (IF i <= extra THEN 1 ELSE 0)
             Begins(i) == (i - 1) * base + Min({i - 1, extra})
             Slice(i) == SubSeq(ids, Begins(i) + 1, Begins(i) + Min({UnitCap, Size(i)}))
             c == [i \in 1..target |-> Slice(i)]
             b == BalancedUnits(ids)
  <1>0. /\ MinUnits \in Nat /\ MaxUnits \in Nat /\ UnitSpan \in Nat /\ UnitCap \in Nat
        /\ MinUnits # 0 /\ MaxUnits # 0 /\ UnitSpan # 0 /\ UnitCap # 0
    BY UnitBounds
  <1>1. n \in Nat
    BY LenProperties
  <1>2. n = 0 <=> ids = <<>>
    BY <1>1, EmptySeq
  <1>3. b = IF n = 0 THEN <<>> ELSE c
    BY DEF BalancedUnits
  <1>4. CASE n = 0
    <2>1. b = <<>>
      BY <1>3, <1>4
    <2> HIDE DEF b, n
    <2>2. b \in Seq({x \in {b[i] : i \in DOMAIN b} : IsList(x)})
      BY <2>1, EmptySeq
    <2> QED BY <1>2, <1>4, <2>1, <2>2 DEF b
  <1>5. CASE n # 0
    <2>1. wanted \in Nat
      <3>1. n + UnitSpan - 1 \in Nat /\ UnitSpan > 0
        BY <1>0, <1>1
      <3> DEFINE m == n + UnitSpan - 1
      <3> HIDE DEF m
      <3>2. m \div UnitSpan \in Nat
        BY <1>0, <3>1 DEF m
      <3> QED BY <3>2 DEF m
    <2> HIDE DEF wanted
    <2>2. top \in Nat /\ top >= 1
      <3>1. \E x \in {MinUnits, wanted} : \A y \in {MinUnits, wanted} : x >= y
        <4>1. MinUnits >= wanted \/ wanted >= MinUnits
          BY <1>0, <2>1
        <4> QED BY <1>0, <2>1, <4>1
      <3>2. top \in {MinUnits, wanted} /\ \A y \in {MinUnits, wanted} : top >= y
        BY <3>1 DEF Max
      <3> HIDE DEF top
      <3> QED BY <1>0, <2>1, <3>2
    <2> HIDE DEF top, n
    <2>3. target \in Nat /\ 1 <= target /\ target <= n
      <3>1. {n, MaxUnits, top} \in SUBSET Nat
        BY <1>0, <1>1, <2>2
      <3>2. target \in {n, MaxUnits, top} /\ \A y \in {n, MaxUnits, top} : target <= y
        BY <3>1, MinIs
      <3> HIDE DEF target
      <3> QED BY <1>0, <1>1, <1>5, <2>2, <3>2
    <2> HIDE DEF target
    <2>4. base \in Nat /\ extra \in Nat /\ 1 <= base /\ base + extra <= n
      BY <1>1, <2>3, Quotient
    <2> HIDE DEF base, extra
    <2>5. \A i \in 1..target : /\ Begins(i) \in Int /\ Size(i) \in Nat
                               /\ Min({UnitCap, Size(i)}) \in Nat
      <3>1. TAKE i \in 1..target
      <3>2. Min({i - 1, extra}) \in Nat
        <4> DEFINE S == {i - 1, extra}
        <4>1. S \in SUBSET Nat /\ S # {}
          BY <2>3, <2>4
        <4> HIDE DEF S
        <4>2. Min(S) \in Nat
          BY <4>1, MinIs
        <4> QED BY <4>2 DEF S
      <3>3. (i - 1) * base \in Int
        BY <2>4
      <3>4. Size(i) \in Nat
        BY <2>4
      <3>5. Min({UnitCap, Size(i)}) \in Nat
        <4> DEFINE S == {UnitCap, Size(i)}
        <4>1. S \in SUBSET Nat /\ S # {}
          BY <1>0, <3>4
        <4> HIDE DEF S
        <4>2. Min(S) \in Nat
          BY <4>1, MinIs
        <4> QED BY <4>2 DEF S
      <3> QED BY <3>2, <3>3, <3>4, <3>5
    <2>6. \A i \in 1..target : IsList(Slice(i))
      <3>1. TAKE i \in 1..target
      <3> DEFINE from == Begins(i)
                 size == Min({UnitCap, Size(i)})
      <3>2. from \in Int /\ size \in Nat
        BY <2>5
      <3> HIDE DEF from, size
      <3>3. IsList(SubSeq(ids, from + 1, from + size))
        BY <3>2, SubSeqList
      <3> QED BY <3>3 DEF from, size
    <2>7. \E h \in 1..n : Slice(1) = SubSeq(ids, 1, h)
      <3> DEFINE size == Min({UnitCap, Size(1)})
                 m == Min({1 - 1, extra})
      <3>1. m = 0
        <4>1. {1 - 1, extra} \in SUBSET Nat
          BY <2>4
        <4>2. m \in {1 - 1, extra} /\ \A y \in {1 - 1, extra} : m <= y
          BY <4>1, MinIs
        <4> HIDE DEF m
        <4> QED BY <2>4, <4>2
      <3> HIDE DEF m
      <3>2. Begins(1) = 0
        <4>1. Begins(1) = (1 - 1) * base + m
          BY DEF m
        <4> QED BY <2>4, <3>1, <4>1
      <3>3. size \in 1..n
        <4>1. Size(1) \in 1..n
          BY <1>1, <2>4
        <4> HIDE DEF Size
        <4>2. {UnitCap, Size(1)} \in SUBSET Nat
          BY <1>0, <4>1
        <4>3. size \in {UnitCap, Size(1)} /\ \A y \in {UnitCap, Size(1)} : size <= y
          BY <4>2, MinIs
        <4> HIDE DEF size
        <4> QED BY <1>0, <1>1, <4>1, <4>3
      <3>4. Slice(1) = SubSeq(ids, Begins(1) + 1, Begins(1) + size)
        OBVIOUS
      <3> HIDE DEF size, Begins, Slice
      <3>5. Slice(1) = SubSeq(ids, 1, size)
        BY <3>2, <3>3, <3>4
      <3> QED BY <3>3, <3>5
    <2> HIDE DEF Slice
    <2>8. /\ c \in Seq({x \in {c[i] : i \in DOMAIN c} : IsList(x)})
          /\ DOMAIN c = 1..target /\ c[1] = Slice(1)
      <3> DEFINE X == {x \in {c[i] : i \in DOMAIN c} : IsList(x)}
      <3>1. DOMAIN c = 1..target /\ 1 \in 1..target /\ \A i \in 1..target : c[i] = Slice(i)
        BY <2>3
      <3>2. c = [i \in 1..target |-> c[i]]
        OBVIOUS
      <3> HIDE DEF c
      <3>3. \A i \in 1..target : c[i] \in X
        BY <2>6, <3>1
      <3> HIDE DEF X
      <3>4. c \in Seq(X)
        BY <2>3, <3>2, <3>3, SeqDef
      <3> QED BY <3>1, <3>4 DEF X
    <2>9. Len(c) = target
      <3> HIDE DEF c
      <3>1. DOMAIN c = 1..Len(c) /\ Len(c) \in Nat
        BY <2>8, LenProperties
      <3> QED BY <2>3, <2>8, <3>1
    <2>10. b = c
      BY <1>3, <1>5
    <2> HIDE DEF b, c
    <2> QED BY <1>2, <1>5, <2>3, <2>7, <2>8, <2>9, <2>10 DEF b, n
  <1> QED BY <1>4, <1>5

-----------------------------------------------------------------------------
(* The units that are still open                                           *)

\* The units of a path after those completed: the first is open, the others wait.
LEMMA OpenedIs ==
  ASSUME NEW c, Rows(c, UnitFields), \A i \in DOMAIN c : c[i].status = "completed",
         NEW g, Rows(g, UnitFields), \A i \in DOMAIN g : g[i].status # "completed"
  PROVE  LET o == Opened(c \o g)
             m == Len(c) IN
         /\ Rows(o, UnitFields) /\ Len(o) = m + Len(g) /\ m \in Nat /\ Len(g) \in Nat
         /\ \A i \in 1..m : o[i].ids = c[i].ids /\ o[i].status = "completed"
         /\ \A i \in (m + 1)..(m + Len(g)) :
              /\ o[i].ids = g[i - m].ids
              /\ o[i].status = IF i = m + 1 THEN "current" ELSE "locked"
  <1> DEFINE m == Len(c)
             n == Len(g)
             a == c \o g
             o == Opened(a)
             open == {i \in DOMAIN a : a[i].status # "completed"}
             Status(i) == CASE i \notin open -> "completed"
                            [] i \in open /\ i = Min(open) -> "current"
                            [] OTHER -> "locked"
  <1>1. m \in Nat /\ n \in Nat /\ DOMAIN c = 1..m /\ DOMAIN g = 1..n
    BY RowsAre
  <1>2. DOMAIN a = 1..(m + n) /\ \A i \in 1..(m + n) : a[i] = IF i <= m THEN c[i] ELSE g[i - m]
    <2> DEFINE T == {c[i] : i \in DOMAIN c} \cup {g[i] : i \in DOMAIN g}
    <2>1. c \in Seq(T) /\ g \in Seq(T)
      <3>1. c \in Seq({c[i] : i \in DOMAIN c}) /\ g \in Seq({g[i] : i \in DOMAIN g})
        BY RowsInSeq
      <3> QED BY <3>1, SeqMonotonic
    <2> HIDE DEF T
    <2>2. a \in Seq(T) /\ Len(a) = m + n
          /\ \A i \in 1..(m + n) : a[i] = IF i <= m THEN c[i] ELSE g[i - m]
      BY <2>1, ConcatProperties
    <2>3. DOMAIN a = 1..Len(a)
      BY <2>2, LenProperties
    <2> QED BY <2>2, <2>3
  <1>3. \A i \in 1..(m + n) : DOMAIN a[i] = UnitFields /\ (i \in open <=> i > m)
    <2>1. TAKE i \in 1..(m + n)
    <2>2. CASE i <= m
      BY <1>1, <1>2, <2>2 DEF Rows
    <2>3. CASE i > m
      <3>1. i - m \in DOMAIN g /\ a[i] = g[i - m]
        BY <1>1, <1>2, <2>3
      <3>2. DOMAIN g[i - m] = UnitFields /\ g[i - m].status # "completed"
        BY <3>1 DEF Rows
      <3> QED BY <1>1, <1>2, <2>3, <3>1, <3>2
    <2> QED BY <1>1, <2>2, <2>3
  <1>4. open = (m + 1)..(m + n)
    <2>1. open \subseteq 1..(m + n)
      BY <1>2
    <2> HIDE DEF open, a
    <2>2. \A i : i \in open <=> i \in 1..(m + n) /\ i > m
      BY <1>3, <2>1
    <2> HIDE DEF m, n
    <2>3. \A i : i \in 1..(m + n) /\ i > m <=> i \in (m + 1)..(m + n)
      BY <1>1
    <2>4. \A i : i \in open <=> i \in (m + 1)..(m + n)
      BY <2>2, <2>3
    <2> DEFINE W == (m + 1)..(m + n)
    <2> HIDE DEF W
    <2>5. \A i : i \in open <=> i \in W
      BY <2>4 DEF W
    <2>6. open = W
      BY <2>5
    <2> QED BY <2>6 DEF W
  <1>5. o = [i \in 1..(m + n) |-> [a[i] EXCEPT !.status = Status(i)]]
    BY <1>2 DEF Opened
  <1> HIDE DEF a, m, n, o, open
  <1>6. ASSUME NEW i \in open
        PROVE  i = Min(open) <=> i = m + 1
    <2>1. open \in SUBSET Nat /\ m + 1 \in open /\ \A y \in open : m + 1 <= y
      BY <1>1, <1>4, <1>6
    <2> DEFINE least == Min(open)
    <2>2. least \in open /\ \A y \in open : least <= y
      BY <1>6, <2>1, MinIs
    <2> HIDE DEF least
    <2>3. least = m + 1
      <3>1. least \in Nat /\ m + 1 \in Nat /\ least <= m + 1 /\ m + 1 <= least
        BY <1>1, <2>1, <2>2
      <3> QED BY <3>1
    <2> QED BY <2>3 DEF least
  <1>7. \A i \in 1..m : Status(i) = "completed"
    BY <1>1, <1>4
  <1>8. \A i \in (m + 1)..(m + n) : Status(i) = IF i = m + 1 THEN "current" ELSE "locked"
    <2>1. TAKE i \in (m + 1)..(m + n)
    <2>2. i \in open
      BY <1>4
    <2> QED BY <1>6, <2>2
  <1> HIDE DEF Status
  <1>9. \A i \in 1..(m + n) : /\ DOMAIN o[i] = UnitFields /\ o[i].ids = a[i].ids
                              /\ o[i].status = Status(i)
    BY <1>3, <1>5 DEF UnitFields
  <1>10. Rows(o, UnitFields) /\ Len(o) = m + n
    <2>1. m + n \in Nat /\ o = [i \in 1..(m + n) |-> o[i]]
      BY <1>1, <1>5
    <2> DEFINE k == m + n
    <2> HIDE DEF k
    <2>2. k \in Nat /\ o = [i \in 1..k |-> o[i]] /\ \A i \in 1..k : DOMAIN o[i] = UnitFields
      BY <1>9, <2>1 DEF k
    <2>3. Rows(o, UnitFields) /\ Len(o) = k
      BY <2>2, RowsFrom
    <2> QED BY <2>3 DEF k
  <1>11. \A i \in 1..m : o[i].ids = c[i].ids /\ o[i].status = "completed"
    <2>1. \A i \in 1..m : i \in 1..(m + n) /\ i <= m
      BY <1>1
    <2> QED BY <1>2, <1>7, <1>9, <2>1
  <1>12. \A i \in (m + 1)..(m + n) :
              /\ o[i].ids = g[i - m].ids
              /\ o[i].status = IF i = m + 1 THEN "current" ELSE "locked"
    <2>1. \A i \in (m + 1)..(m + n) : i \in 1..(m + n) /\ ~(i <= m)
      BY <1>1
    <2> QED BY <1>2, <1>8, <1>9, <2>1
  <1> QED BY <1>1, <1>10, <1>11, <1>12 DEF m, n, o, a

\* The units that follow those completed, before they are opened.
Future(path, rel) ==
  LET order     == Expanded(path, rel)
      kept      == IF KeepsCurrent(path, rel) THEN <<CurrentIds(path)>> ELSE <<>>
      remaining == Without(order, CompletedIds(path) \cup UNION {ToSet(u) : u \in ToSet(kept)})
  IN kept \o BalancedUnits(remaining)

LEMMA FutureIs ==
  ASSUME NEW path, IsPath(path), NEW rel, IsFiniteSet(rel)
  PROVE  LET future == Future(path, rel) IN
         /\ future \in Seq({x \in {future[i] : i \in DOMAIN future} : IsList(x)})
         /\ Ordered(rel) /\ Unclosed(rel) /\ future # <<>> =>
              \A k \in ToSet(future[1]) :
                Requires(rel, k) \subseteq CompletedIds(path) \cup ToSet(future[1])
  <1> DEFINE order == Expanded(path, rel)
             cur  == CurrentIds(path)
             kept == IF KeepsCurrent(path, rel) THEN <<cur>> ELSE <<>>
             gone == CompletedIds(path) \cup UNION {ToSet(u) : u \in ToSet(kept)}
             remaining == Without(order, gone)
             rest == BalancedUnits(remaining)
             future == kept \o rest
             AnyUnit == {x \in {cur} \cup {rest[i] : i \in DOMAIN rest} : IsList(x)}
  <1>1. Future(path, rel) = future
    BY DEF Future
  <1>2. /\ IsList(order)
        /\ Ordered(rel) /\ Unclosed(rel) => Placed(order, rel, ToSet(order))
        /\ \A k \in ToSet(order) \ CompletedIds(path) : Requires(rel, k) \subseteq ToSet(order)
    BY ExpandedIs
  <1>3. remaining \in Seq(ToSet(order))
    BY <1>2, WithoutIs DEF IsList
  <1>4. /\ rest \in Seq({x \in {rest[i] : i \in DOMAIN rest} : IsList(x)})
        /\ remaining = <<>> => rest = <<>>
        /\ remaining # <<>> => /\ Len(rest) >= 1
                               /\ \E h \in 1..Len(remaining) : rest[1] = SubSeq(remaining, 1, h)
    <2> HIDE DEF remaining
    <2> QED BY <1>3, BalancedIs
  <1>5. IsList(cur)
    BY CurrentIs
  <1> HIDE DEF rest
  <1>6. rest \in Seq(AnyUnit)
    <2>1. {x \in {rest[i] : i \in DOMAIN rest} : IsList(x)} \subseteq AnyUnit
      OBVIOUS
    <2> HIDE DEF AnyUnit
    <2> QED BY <1>4, <2>1, SeqMonotonic
  <1>7. cur \in AnyUnit
    BY <1>5
  <1> HIDE DEF AnyUnit
  <1>8. kept \in Seq(AnyUnit)
    <2>1. <<cur>> \in Seq(AnyUnit) /\ <<>> \in Seq(AnyUnit)
      BY <1>7
    <2> QED BY <2>1
  <1> HIDE DEF cur
  <1>9. future \in Seq(AnyUnit)
    BY <1>6, <1>8, ConcatProperties
  <1>10. future \in Seq({x \in {future[i] : i \in DOMAIN future} : IsList(x)})
    <2> HIDE DEF future
    <2>1. future \in Seq(ToSet(future)) /\ ToSet(future) \subseteq AnyUnit
      BY <1>9, ToSetIs
    <2>2. ToSet(future) = {x \in {future[i] : i \in DOMAIN future} : IsList(x)}
      BY <2>1 DEF ToSet, AnyUnit
    <2> QED BY <2>1, <2>2
  <1>11. ASSUME Ordered(rel), Unclosed(rel), future # <<>>, NEW k \in ToSet(future[1])
         PROVE  Requires(rel, k) \subseteq CompletedIds(path) \cup ToSet(future[1])
    <2>1. CASE KeepsCurrent(path, rel)
      <3>1. future[1] = cur
        <4>1. kept = <<cur>> /\ Len(kept) = 1 /\ kept[1] = cur
          BY <2>1
        <4> HIDE DEF kept
        <4>2. Len(rest) \in Nat
          BY <1>6, LenProperties
        <4>3. future[1] = kept[1]
          BY <1>6, <1>8, <4>1, <4>2, ConcatProperties
        <4> QED BY <4>1, <4>3
      <3>2. k \in ToSet(cur)
        BY <1>11, <3>1
      <3>3. UNION {Requires(rel, x) : x \in ToSet(cur)} \subseteq CompletedIds(path) \cup ToSet(cur)
        BY <2>1 DEF KeepsCurrent, cur
      <3> QED BY <3>1, <3>2, <3>3
    <2>2. CASE ~KeepsCurrent(path, rel)
      <3>1. kept = <<>> /\ future = rest
        <4>1. kept = <<>>
          BY <2>2
        <4> HIDE DEF kept
        <4>2. future = rest
          BY <1>6, <4>1, ConcatEmptySeq
        <4> QED BY <4>1, <4>2
      <3>2. gone = CompletedIds(path)
        BY <3>1, EmptyList
      <3> HIDE DEF future, kept, gone
      <3>3. remaining # <<>>
        BY <1>4, <1>11, <3>1
      <3>4. PICK h \in 1..Len(remaining) : rest[1] = SubSeq(remaining, 1, h)
        BY <1>4, <3>3
      <3> DEFINE P == {i \in DOMAIN order : order[i] \notin CompletedIds(path)}
                 n == Len(remaining)
                 N == Len(order)
      <3>5. /\ Selects(remaining, order, P \cap (1..N)) /\ N \in Nat /\ DOMAIN order = 1..N
            /\ ToSet(order) = {order[i] : i \in 1..N}
        <4>1. remaining = Picked(order, P)
          BY <3>2 DEF Without
        <4>2. order \in Seq(ToSet(order))
          BY <1>2 DEF IsList
        <4> HIDE DEF remaining, order, P, N
        <4>3. Selects(remaining, order, P \cap (1..Len(order)))
          BY <4>1, <4>2, PickedIs
        <4> QED BY <4>2, <4>3, LenProperties, ToSetIs DEF N
      <3>6. PICK at : /\ at \in [1..n -> P \cap (1..N)]
                      /\ \A a, b \in 1..n : a < b => at[a] < at[b]
                      /\ \A x \in P \cap (1..N) : \E a \in 1..n : at[a] = x
                      /\ \A a \in 1..n : remaining[a] = order[at[a]]
        BY <3>5 DEF Selects
      <3>7. n \in Nat /\ \A i \in 1..h : i \in 1..n
        <4>1. n \in Nat
          BY <1>3, LenProperties
        <4> HIDE DEF n
        <4>2. h \in 1..n
          BY DEF n
        <4> QED BY <4>1, <4>2
      <3>8. ToSet(rest[1]) = {remaining[i] : i \in 1..h}
        <4> DEFINE q == SubSeq(remaining, 1, h)
        <4>1. \A i \in 1..h : remaining[i] \in ToSet(order)
          <5> HIDE DEF remaining, order
          <5> QED BY <1>3, <3>7, ElementOfSeq DEF n
        <4>2. h \in Nat /\ h >= 1
          BY <3>7
        <4> HIDE DEF remaining, order, n
        <4>3. q \in Seq(ToSet(order)) /\ Len(q) = h /\ \A i \in 1..h : q[i] = remaining[i]
          <5>1. 1 \in Int /\ h \in Int /\ h - 1 + 1 = h /\ 1 <= h
            BY <4>2
          <5>2. /\ q \in Seq(ToSet(order)) /\ Len(q) = (IF 1 <= h THEN h - 1 + 1 ELSE 0)
                /\ \A i \in 1..(h - 1 + 1) : q[i] = remaining[1 + i - 1]
            BY <4>1, <5>1, SubSeqProperties
          <5>3. \A i \in 1..h : 1 + i - 1 = i
            BY <4>2
          <5> QED BY <5>1, <5>2, <5>3
        <4> HIDE DEF q
        <4>4. ToSet(q) = {q[i] : i \in 1..h}
          BY <4>3, ToSetIs
        <4> QED BY <3>4, <4>3, <4>4 DEF q
      <3> HIDE DEF remaining, order, n, N
      <3>9. PICK j \in 1..h : k = remaining[j]
        BY <1>11, <3>1, <3>8
      <3>10. SUFFICES ASSUME NEW x \in Requires(rel, k), x \notin CompletedIds(path)
                      PROVE  x \in ToSet(rest[1])
        BY <3>1
      <3>11. at[j] \in P /\ at[j] \in 1..N /\ k = order[at[j]]
        BY <3>6, <3>7, <3>9
      <3>12. k \in ToSet(order) /\ k \notin CompletedIds(path)
        BY <3>5, <3>11
      <3>13. x \in ToSet(order)
        BY <1>2, <3>10, <3>12
      <3>14. PICK i \in 1..(at[j] - 1) : x = order[i]
        <4>1. Requires(rel, order[at[j]]) \cap ToSet(order) \subseteq {order[m] : m \in 1..(at[j] - 1)}
          BY <1>2, <1>11, <3>11 DEF Placed, N
        <4> QED BY <3>10, <3>11, <3>13, <4>1
      <3>15. i \in P \cap (1..N) /\ i < at[j]
        <4>1. i \in 1..N /\ i < at[j]
          BY <3>5, <3>11
        <4> QED BY <3>5, <3>10, <3>14, <4>1
      <3>16. PICK a \in 1..n : at[a] = i
        BY <3>6, <3>15
      <3>17. a < j
        <4>1. SUFFICES ASSUME ~(a < j) PROVE FALSE
          OBVIOUS
        <4>2. j \in 1..n /\ (a = j \/ j < a)
          BY <3>7, <4>1
        <4>3. at[j] <= at[a]
          <5>1. at[a] \in Nat /\ at[j] \in Nat
            BY <3>5, <3>6, <4>2
          <5> QED BY <3>6, <4>2, <5>1
        <4> QED BY <3>5, <3>11, <3>15, <3>16, <4>3
      <3>18. x = remaining[a]
        BY <3>6, <3>14, <3>16
      <3>19. a \in 1..h
        BY <3>7, <3>17
      <3> QED BY <3>8, <3>18, <3>19
    <2> QED BY <2>1, <2>2
  <1> HIDE DEF future
  <1>12. Ordered(rel) /\ Unclosed(rel) /\ future # <<>> =>
           \A k \in ToSet(future[1]) :
             Requires(rel, k) \subseteq CompletedIds(path) \cup ToSet(future[1])
    BY <1>11
  <1> QED BY <1>1, <1>10, <1>12

-----------------------------------------------------------------------------
(* The operations on a path                                                *)

\* A path after its units are regrouped by the relations rel.
LEMMA NormalizeIs ==
  ASSUME NEW path, IsPath(path), NEW rel, IsFiniteSet(rel)
  PROVE  LET q == Normalize(path, rel) IN
         /\ IsPath(q) /\ Done(q) = Done(path)
         /\ q.row = path.row /\ q.owner = path.owner /\ q.status = path.status
         /\ Ordered(rel) => Follows(q)
  <1> DEFINE order == Expanded(path, rel)
             future == Future(path, rel)
             c == CompletedUnits(path)
             g == Waiting(future)
             o == Opened(c \o g)
             q == [path EXCEPT !.order = order, !.rel = rel, !.units = o]
             n == Len(future)
             m == Len(c)
  <1>1. Normalize(path, rel) = q
    BY DEF Normalize, Future
  <1>2. IsList(order)
    BY ExpandedIs
  <1>3. /\ n \in Nat /\ DOMAIN future = 1..n /\ (future # <<>> <=> n # 0)
        /\ \A i \in 1..n : IsList(future[i])
        /\ Ordered(rel) /\ Unclosed(rel) /\ future # <<>> =>
              \A k \in ToSet(future[1]) :
                Requires(rel, k) \subseteq CompletedIds(path) \cup ToSet(future[1])
    <2> DEFINE T == {x \in {future[i] : i \in DOMAIN future} : IsList(x)}
    <2>1. /\ future \in Seq(T)
          /\ Ordered(rel) /\ Unclosed(rel) /\ future # <<>> =>
              \A k \in ToSet(future[1]) :
                Requires(rel, k) \subseteq CompletedIds(path) \cup ToSet(future[1])
      BY FutureIs
    <2>2. \A x \in T : IsList(x)
      OBVIOUS
    <2> HIDE DEF T, future
    <2>3. n \in Nat /\ DOMAIN future = 1..n /\ \A i \in 1..n : future[i] \in T
      BY <2>1, LenProperties, ElementOfSeq
    <2>4. future # <<>> <=> n # 0
      BY <2>1, EmptySeq
    <2> QED BY <2>1, <2>2, <2>3, <2>4
  <1> HIDE DEF order, future, n
  <1>4. /\ Rows(g, UnitFields) /\ Len(g) = n
        /\ \A i \in 1..n : g[i].ids = future[i] /\ g[i].status = "locked"
    <2>1. \A i \in 1..n : /\ DOMAIN g[i] = UnitFields
                          /\ g[i].ids = future[i] /\ g[i].status = "locked"
      BY <1>3 DEF Waiting, UnitFields
    <2>2. g = [i \in 1..n |-> g[i]]
      BY <1>3 DEF Waiting
    <2> HIDE DEF g
    <2> QED BY <1>3, <2>1, <2>2, RowsFrom
  <1>5. /\ Rows(c, UnitFields) /\ m \in Nat /\ DOMAIN c = 1..m /\ DOMAIN g = 1..n
        /\ \A a \in 1..m : c[a].status = "completed" /\ IsList(c[a].ids)
        /\ {c[a].ids : a \in 1..m} = Done(path)
    <2>1. /\ Rows(c, UnitFields)
          /\ \A a \in DOMAIN c : c[a].status = "completed" /\ IsList(c[a].ids)
          /\ {c[a].ids : a \in DOMAIN c} = Done(path)
      BY CompletedUnitsAre
    <2> HIDE DEF c, g
    <2>2. m \in Nat /\ DOMAIN c = 1..m /\ DOMAIN g = 1..n
      BY <1>4, <2>1, RowsAre
    <2> QED BY <2>1, <2>2
  <1>6. /\ Rows(o, UnitFields) /\ Len(o) = m + n
        /\ \A i \in 1..m : o[i].ids = c[i].ids /\ o[i].status = "completed"
        /\ \A i \in (m + 1)..(m + n) :
              /\ o[i].ids = g[i - m].ids
              /\ o[i].status = IF i = m + 1 THEN "current" ELSE "locked"
    <2>1. \A i \in DOMAIN c : c[i].status = "completed"
      BY <1>5
    <2>2. \A i \in DOMAIN g : g[i].status # "completed"
      BY <1>4, <1>5
    <2> HIDE DEF c, g, o
    <2> QED BY <1>4, <1>5, <2>1, <2>2, OpenedIs DEF o
  <1>7. DOMAIN o = 1..(m + n)
    <2> HIDE DEF o
    <2> QED BY <1>6, RowsAre
  <1>8. /\ q.units = o /\ q.order = order /\ q.rel = rel /\ q.row = path.row
        /\ q.owner = path.owner /\ q.status = path.status
        /\ DOMAIN q = {"order", "units", "rel", "status", "owner", "row"}
        /\ path.row \in Nat
    <2> HIDE DEF o
    <2> QED BY DEF IsPath
  <1> HIDE DEF q, o, c, m
  <1>9. /\ \A i \in 1..m : o[i].status = "completed" /\ i \in 1..(m + n)
        /\ \A i \in 1..(m + n) : /\ (o[i].status = "completed" <=> i \in 1..m)
                                 /\ (o[i].status = "current" <=> i = m + 1)
                                 /\ i \notin 1..m => i \in (m + 1)..(m + n)
    <2>1. \A i \in 1..m : i \in 1..(m + n) /\ i # m + 1
      BY <1>3, <1>5
    <2>2. \A i \in 1..(m + n) : i \notin 1..m => i \in (m + 1)..(m + n)
      BY <1>3, <1>5
    <2>3. ASSUME NEW i \in 1..(m + n)
          PROVE  /\ (o[i].status = "completed" <=> i \in 1..m)
                 /\ (o[i].status = "current" <=> i = m + 1)
      <3>1. CASE i \in 1..m
        BY <1>6, <2>1, <3>1
      <3>2. CASE i \notin 1..m
        BY <1>6, <2>2, <3>2
      <3> QED BY <3>1, <3>2
    <2> QED BY <1>6, <2>1, <2>2, <2>3
  <1>10. At(q, "completed") = 1..m /\ At(q, "current") = {i \in 1..(m + n) : i = m + 1}
    BY <1>7, <1>8, <1>9 DEF At
  <1>11. Done(q) = Done(path)
    <2>1. Done(q) = {o[i].ids : i \in 1..m}
      BY <1>8, <1>10 DEF Done
    <2>2. {o[i].ids : i \in 1..m} = {c[i].ids : i \in 1..m}
      BY <1>6
    <2> QED BY <1>5, <2>1, <2>2
  <1>12. IsPath(q)
    <2>1. \A i \in DOMAIN q.units : IsList(q.units[i].ids)
      <3>1. SUFFICES ASSUME NEW i \in 1..(m + n)
                     PROVE  IsList(o[i].ids)
        BY <1>7, <1>8
      <3>2. CASE i \in 1..m
        BY <1>5, <1>6, <3>2
      <3>3. CASE i \notin 1..m
        <4>1. i \in (m + 1)..(m + n) /\ i - m \in 1..n
          BY <1>3, <1>5, <3>3
        <4>2. o[i].ids = g[i - m].ids
          BY <1>6, <4>1
        <4>3. g[i - m].ids = future[i - m] /\ IsList(future[i - m])
          <5> DEFINE j == i - m
          <5> HIDE DEF j, g
          <5>1. j \in 1..n
            BY <4>1 DEF j
          <5>2. g[j].ids = future[j] /\ IsList(future[j])
            BY <1>3, <1>4, <5>1
          <5> QED BY <5>2 DEF j
        <4> QED BY <4>2, <4>3
      <3> QED BY <3>2, <3>3
    <2>2. \A i, j \in At(q, "current") : q.units[i].ids = q.units[j].ids
      BY <1>10
    <2> QED BY <1>2, <1>6, <1>8, <2>1, <2>2 DEF IsPath, UnitFields
  <1>13. ASSUME Ordered(rel), \A e \in Rewritten \cap q.rel : e[1] \notin Reached(e[2], q.rel),
                NEW k \in ToSet(CurrentIds(q))
         PROVE  Requires(q.rel, k) \subseteq CompletedIds(q) \cup ToSet(CurrentIds(q))
    <2>1. Unclosed(rel)
      BY <1>8, <1>13 DEF Unclosed
    <2>2. /\ ToSet(CurrentIds(q)) = Members(q, "current")
          /\ Members(q, "current") # {} =>
               \A i \in At(q, "current") : CurrentIds(q) = q.units[i].ids
      BY <1>12, CurrentIs
    <2>3. PICK i \in At(q, "current") : TRUE
      BY <1>13, <2>2 DEF Members
    <2>4. i = m + 1 /\ i \in (m + 1)..(m + n) /\ n # 0 /\ i - m = 1 /\ 1 \in 1..n
      <3>1. i = m + 1 /\ i \in 1..(m + n)
        BY <1>10
      <3> QED BY <1>3, <1>5, <3>1
    <2>5. CurrentIds(q) = future[1]
      BY <1>4, <1>6, <1>8, <1>13, <2>2, <2>4
    <2>6. CompletedIds(q) = CompletedIds(path)
      BY <1>11, CompletedIs
    <2> QED BY <1>3, <1>8, <1>13, <2>1, <2>4, <2>5, <2>6
  <1>14. Ordered(rel) => Follows(q)
    BY <1>13 DEF Follows
  <1> QED BY <1>1, <1>8, <1>11, <1>12, <1>14

-----------------------------------------------------------------------------
(* What the operations keep                                                *)

PathFields == {"order", "units", "rel", "status", "owner", "row"}

\* What is done and what is current depend on the units alone.
LEMMA UnitsAlone ==
  ASSUME NEW p, IsPath(p), NEW q, q.units = p.units, q.rel = p.rel
  PROVE  /\ Done(q) = Done(p) /\ (Follows(p) => Follows(q))
         /\ DOMAIN q = PathFields /\ IsList(q.order) /\ q.row \in Nat => IsPath(q)
  <1>1. \A status : At(q, status) = At(p, status)
    BY DEF At
  <1>2. \A status : Members(q, status) = Members(p, status)
    BY <1>1 DEF Members
  <1>3. CurrentIds(q) = CurrentIds(p) /\ CompletedIds(q) = CompletedIds(p)
    BY <1>2 DEF CurrentIds, CompletedIds
  <1>4. Done(q) = Done(p)
    BY <1>1 DEF Done
  <1>5. Follows(p) => Follows(q)
    BY <1>3 DEF Follows
  <1>6. DOMAIN q = PathFields /\ IsList(q.order) /\ q.row \in Nat => IsPath(q)
    BY <1>1 DEF IsPath, PathFields
  <1> QED BY <1>4, <1>5, <1>6

LEMMA NewPathIs ==
  ASSUME NEW order, IsList(order), NEW rel, Ordered(rel), NEW owner
  PROVE  LET q == NewPath(order, rel, owner) IN
         IsPath(q) /\ Follows(q) /\ q.row = 1 /\ q.owner = owner
  <1> DEFINE p == [order |-> order, units |-> <<>>, rel |-> rel,
                   status |-> "active", owner |-> owner, row |-> 1]
  <1>1. Rows(<<>>, {"ids", "status"}) /\ DOMAIN (<<>>) = {}
    <2>1. <<>> \in Seq({})
      BY EmptySeq
    <2>2. Rows(<<>>, {"ids", "status"})
      BY <2>1, SeqRows
    <2> QED BY <2>2
  <1>2. At(p, "current") = {}
    BY <1>1 DEF At
  <1>3. IsPath(p)
    BY <1>1, <1>2 DEF IsPath
  <1>4. IsFiniteSet(rel)
    BY DEF Ordered
  <1>5. NewPath(order, rel, owner) = Normalize(p, rel) /\ p.row = 1 /\ p.owner = owner
    BY DEF NewPath
  <1> HIDE DEF p
  <1> QED BY <1>3, <1>4, <1>5, NormalizeIs

\* The unit ids is done, what was done before stays so.
LEMMA AdvanceIs ==
  ASSUME NEW path, IsPath(path), NEW ids, NEW rel, Ordered(rel)
  PROVE  LET q == Advance(path, ids, rel) IN
         /\ IsPath(q) /\ Follows(q) /\ q.row = path.row /\ q.owner = path.owner
         /\ Done(path) \subseteq Done(q) /\ Done(q) \subseteq Done(path) \cup {ids}
  <1> DEFINE u == path.units
             w == [i \in DOMAIN u |-> IF u[i].ids = ids THEN [u[i] EXCEPT !.status = "completed"]
                                                        ELSE u[i]]
             done == [path EXCEPT !.units = w]
             next == Normalize(done, rel)
             status == IF AllCompleted(next) THEN "completed" ELSE "active"
             q == [next EXCEPT !.status = status]
  <1>1. Advance(path, ids, rel) = q
    BY DEF Advance, Concluded
  <1>2. /\ Rows(u, UnitFields) /\ \A i \in DOMAIN u : DOMAIN u[i] = UnitFields /\ IsList(u[i].ids)
        /\ DOMAIN path = PathFields /\ IsList(path.order) /\ path.row \in Nat
        /\ \A i, j \in At(path, "current") : u[i].ids = u[j].ids
    BY UnitsAre DEF IsPath, PathFields
  <1>3. \A i \in DOMAIN u : /\ DOMAIN w[i] = UnitFields /\ w[i].ids = u[i].ids
                            /\ w[i].status = IF u[i].ids = ids THEN "completed" ELSE u[i].status
    BY <1>2 DEF UnitFields
  <1>4. Rows(w, UnitFields) /\ DOMAIN w = DOMAIN u
    <2>1. w = [i \in DOMAIN u |-> w[i]]
      OBVIOUS
    <2> HIDE DEF w, u
    <2> QED BY <1>2, <1>3, <2>1, RowsMarked
  <1>5. /\ done.units = w /\ DOMAIN done = PathFields /\ done.order = path.order
        /\ done.row = path.row /\ done.owner = path.owner
    <2> HIDE DEF w
    <2> QED BY <1>2 DEF PathFields
  <1>6. /\ At(done, "current") \subseteq At(path, "current")
        /\ At(path, "completed") \subseteq At(done, "completed")
        /\ \A i \in At(done, "completed") : i \in At(path, "completed") \/ w[i].ids = ids
    <2> HIDE DEF w, done
    <2> QED BY <1>3, <1>4, <1>5 DEF At
  <1> HIDE DEF w, done
  <1>7. IsPath(done)
    <2>1. \A i, j \in At(done, "current") : w[i].ids = w[j].ids
      <3>1. \A i \in At(path, "current") : i \in DOMAIN u
        BY DEF At
      <3> QED BY <1>2, <1>3, <1>6, <3>1
    <2> QED BY <1>2, <1>3, <1>4, <1>5, <2>1 DEF IsPath, PathFields, UnitFields
  <1>8. Done(path) \subseteq Done(done) /\ Done(done) \subseteq Done(path) \cup {ids}
    <2>1. \A i \in At(path, "completed") : i \in DOMAIN u
      BY DEF At
    <2>2. \A i \in At(done, "completed") : i \in DOMAIN u
      BY <1>4, <1>5 DEF At
    <2>3. Done(path) = {u[i].ids : i \in At(path, "completed")}
      BY DEF Done
    <2>4. Done(done) = {w[i].ids : i \in At(done, "completed")}
      BY <1>5 DEF Done
    <2> HIDE DEF u
    <2> QED BY <1>3, <1>6, <2>1, <2>2, <2>3, <2>4
  <1>9. IsFiniteSet(rel)
    BY DEF Ordered
  <1>10. /\ IsPath(next) /\ Done(next) = Done(done) /\ next.row = path.row
         /\ next.owner = path.owner /\ Follows(next)
    BY <1>5, <1>7, <1>9, NormalizeIs
  <1> HIDE DEF next, status
  <1>11. /\ q.units = next.units /\ q.rel = next.rel /\ q.row = next.row /\ q.owner = next.owner
         /\ q.order = next.order /\ DOMAIN q = PathFields /\ IsList(q.order) /\ q.row \in Nat
    BY <1>10 DEF IsPath, PathFields
  <1> HIDE DEF q
  <1>12. IsPath(q) /\ Follows(q) /\ Done(q) = Done(next)
    BY <1>10, <1>11, UnitsAlone
  <1> QED BY <1>1, <1>8, <1>10, <1>11, <1>12

\* The rows z are those of x and those of y.
Both(z, x, y, F) ==
  /\ Rows(z, F)
  /\ \A i \in DOMAIN z : (\E j \in DOMAIN x : z[i] = x[j]) \/ (\E j \in DOMAIN y : z[i] = y[j])
  /\ \A j \in DOMAIN x : \E i \in DOMAIN z : z[i] = x[j]

LEMMA RowsJoin ==
  ASSUME NEW F, NEW x, Rows(x, F), NEW y, Rows(y, F)
  PROVE  Both(x \o y, x, y, F)
  <1> DEFINE T == {x[i] : i \in DOMAIN x} \cup {y[i] : i \in DOMAIN y}
             z == x \o y
             m == Len(x)
             n == Len(y)
  <1>1. x \in Seq(T) /\ y \in Seq(T)
    <2>1. x \in Seq({x[i] : i \in DOMAIN x}) /\ y \in Seq({y[i] : i \in DOMAIN y})
      BY RowsInSeq
    <2> QED BY <2>1, SeqMonotonic
  <1>2. \A e \in T : DOMAIN e = F
    BY DEF Rows
  <1> HIDE DEF T
  <1>3. /\ z \in Seq(T) /\ Len(z) = m + n
        /\ \A i \in 1..(m + n) : z[i] = IF i <= m THEN x[i] ELSE y[i - m]
    BY <1>1, ConcatProperties
  <1> HIDE DEF z
  <1>4. m \in Nat /\ n \in Nat /\ DOMAIN x = 1..m /\ DOMAIN y = 1..n /\ DOMAIN z = 1..(m + n)
    BY <1>1, <1>3, LenProperties
  <1>5. Rows(z, F)
    BY <1>2, <1>3, SeqRows
  <1> HIDE DEF m, n
  <1>6. ASSUME NEW i \in 1..(m + n)
        PROVE  (\E j \in 1..m : z[i] = x[j]) \/ (\E j \in 1..n : z[i] = y[j])
    <2>1. CASE i <= m
      <3>1. i \in 1..m
        BY <1>4, <2>1
      <3> QED BY <1>3, <2>1, <3>1
    <2>2. CASE ~(i <= m)
      <3>1. i - m \in 1..n
        BY <1>4, <2>2
      <3> QED BY <1>3, <2>2, <3>1
    <2> QED BY <2>1, <2>2
  <1>7. ASSUME NEW j \in 1..m
        PROVE  \E i \in 1..(m + n) : z[i] = x[j]
    <2>1. j \in 1..(m + n) /\ j <= m
      BY <1>4
    <2> QED BY <1>3, <2>1
  <1> QED BY <1>4, <1>5, <1>6, <1>7 DEF z, Both

\* A list is too short to hold more numbers than its length.
LEMMA OneLeft ==
  ASSUME NEW N \in Nat, NEW q \in Seq(1..N), Len(q) < N
  PROVE  (1..N) \ ToSet(q) # {}
  <1> DEFINE k == Len(q)
  <1>1. k \in Nat /\ k < N /\ q \in [1..k -> 1..N] /\ ToSet(q) = {q[i] : i \in 1..k}
    BY LenProperties, ToSetIs
  <1> HIDE DEF k
  <1>2. SUFFICES ASSUME 1..N \subseteq ToSet(q)
                 PROVE  FALSE
    OBVIOUS
  <1>3. q \in Surjection(1..k, ToSet(q))
    BY <1>1 DEF Surjection
  <1>4. IsFiniteSet(1..k) /\ Cardinality(1..k) = k /\ Cardinality(1..N) = N
    <2>1. Cardinality(1..k) = IF 1 > k THEN 0 ELSE k - 1 + 1
      BY <1>1, FS_Interval
    <2>2. Cardinality(1..N) = IF 1 > N THEN 0 ELSE N - 1 + 1
      BY FS_Interval
    <2>3. IsFiniteSet(1..k)
      BY <1>1, FS_Interval
    <2> QED BY <1>1, <2>1, <2>2, <2>3
  <1>5. IsFiniteSet(ToSet(q)) /\ Cardinality(ToSet(q)) <= Cardinality(1..k)
    BY <1>3, <1>4, FS_Surjection
  <1>6. Cardinality(1..N) <= Cardinality(ToSet(q))
    BY <1>2, <1>5, FS_Subset
  <1>7. Cardinality(ToSet(q)) \in Nat
    BY <1>5, FS_CardinalityType
  <1> QED BY <1>1, <1>4, <1>5, <1>6, <1>7
LEMMA ReprioritizeIs ==
  ASSUME NEW path, IsPath(path), NEW affected
  PROVE  LET q == Reprioritize(path, affected) IN
         /\ IsPath(q) /\ Done(q) = Done(path) /\ (Follows(path) => Follows(q))
         /\ q.row = path.row /\ q.owner = path.owner
  <1> DEFINE locked == LockedUnits(path)
             N == Len(locked)
             In(i) == ToSet(locked[i].ids)
             Deps(i) == {j \in DOMAIN locked \ {i} :
                           \E k \in In(i) : Requires(path.rel, k) \cap In(j) # {}}
             Eligible(left) == {i \in left : /\ Deps(i) # {}
                                             /\ Deps(i) \cap left = {}}
             Pool(left)  == IF Eligible(left) = {} THEN left ELSE Eligible(left)
             First(left) == LET hit == {i \in Pool(left) : In(i) \cap affected # {}}
                            IN Min(IF hit = {} THEN Pool(left) ELSE hit)
             D == [i \in 0..N |-> {x \in Seq(DOMAIN locked) : Len(x) = i}]
             All == UNION {D[i] : i \in 0..N}
             F == [x \in All \X (1..N) |-> Append(x[1], First(DOMAIN locked \ ToSet(x[1])))]
             IsPlace(u) == u = [n \in 0..N |-> IF n = 0 THEN <<>>
                                 ELSE Append(u[n - 1], First(DOMAIN locked \ ToSet(u[n - 1])))]
             place == CHOOSE u : IsPlace(u)
             order == place[N]
             front == Picked(path.units, DOMAIN path.units \ At(path, "locked"))
             back == [n \in DOMAIN order |-> locked[order[n]]]
             units == front \o back
             q == [path EXCEPT !.units = units]
  <1>1. Reprioritize(path, affected) = IF N < 2 THEN path ELSE q
    BY DEF Reprioritize
  <1>2. /\ Rows(path.units, UnitFields) /\ DOMAIN path = PathFields /\ IsList(path.order)
        /\ path.row \in Nat /\ \A i \in DOMAIN path.units : IsList(path.units[i].ids)
    BY UnitsAre DEF IsPath, PathFields
  <1>3. /\ Rows(locked, UnitFields) /\ N \in Nat /\ DOMAIN locked = 1..N
        /\ \A a \in 1..N : \E i \in DOMAIN path.units :
              locked[a] = path.units[i] /\ path.units[i].status = "locked"
    <2> DEFINE S == At(path, "locked")
    <2>1. locked = Picked(path.units, S) /\ \A i \in S : path.units[i].status = "locked"
      BY DEF LockedUnits, At
    <2> HIDE DEF locked, S
    <2>2. /\ Rows(locked, UnitFields)
          /\ \A a \in DOMAIN locked : \E i \in S \cap DOMAIN path.units : locked[a] = path.units[i]
      BY <1>2, <2>1, PickedRows
    <2>3. N \in Nat /\ DOMAIN locked = 1..N
      BY <2>2, RowsAre
    <2> QED BY <2>1, <2>2, <2>3
  <1> HIDE DEF locked, In
  <1>4. ASSUME NEW left \in SUBSET (1..N), left # {}
        PROVE  First(left) \in left
    <2> DEFINE hit == {i \in Pool(left) : In(i) \cap affected # {}}
               S == IF hit = {} THEN Pool(left) ELSE hit
    <2>1. Pool(left) \subseteq left /\ Pool(left) # {}
      BY <1>4
    <2> HIDE DEF Pool
    <2>2. S \subseteq left /\ S # {} /\ First(left) = Min(S)
      BY <2>1
    <2> HIDE DEF S, First
    <2>3. S \in SUBSET Nat
      BY <1>3, <2>2
    <2>4. Min(S) \in S
      BY <2>2, <2>3, MinIs
    <2> QED BY <2>2, <2>4
  <1> HIDE DEF First, N
  <1>5. <<>> \in D[0]
    <2>1. <<>> \in Seq(DOMAIN locked) /\ Len(<<>>) = 0 /\ 0 \in 0..N
      BY <1>3
    <2> QED BY <2>1
  <1>6. ASSUME NEW i \in 1..N, NEW x \in D[i - 1]
        PROVE  LET y == Append(x, First(DOMAIN locked \ ToSet(x))) IN
               F[<<x, i>>] = y /\ y \in D[i]
    <2> DEFINE left == DOMAIN locked \ ToSet(x)
               e == First(left)
    <2>1. i - 1 \in 0..N /\ i \in 0..N /\ i - 1 < N /\ i - 1 + 1 = i
      BY <1>3
    <2>2. x \in Seq(1..N) /\ Len(x) = i - 1
      BY <1>3, <1>6, <2>1
    <2>3. (1..N) \ ToSet(x) # {}
      BY <1>3, <2>1, <2>2, OneLeft
    <2>4. e \in 1..N
      BY <1>3, <1>4, <2>3
    <2>5. F[<<x, i>>] = Append(x, e)
      <3>1. x \in All
        BY <1>6, <2>1
      <3> HIDE DEF All, D
      <3> QED BY <3>1
    <2> HIDE DEF e
    <2>6. Append(x, e) \in Seq(1..N) /\ Len(Append(x, e)) = i
      BY <2>1, <2>2, <2>4, ToSetMore
    <2>7. Append(x, e) \in D[i]
      BY <1>3, <2>1, <2>6
    <2> QED BY <2>5, <2>7 DEF e
  <1> HIDE DEF F, D
  <1>7. PICK u : u = [i \in 0..N |-> IF i = 0 THEN <<>> ELSE F[<<u[i - 1], i>>]]
                 /\ \A i \in 0..N : u[i] \in D[i]
    <2>1. \A i \in 1..N : \A x \in D[i - 1] : F[<<x, i>>] \in D[i]
      BY <1>6
    <2>2. N \in Nat
      BY <1>3
    <2> DEFINE base == <<>>
    <2>3. base \in D[0]
      BY <1>5
    <2> HIDE DEF base
    <2>4. \E u : BuiltBy(u, N, base, F) /\ \A i \in 0..N : u[i] \in D[i]
      BY ONLY <2>1, <2>2, <2>3, Iterated
    <2> QED BY <2>4 DEF base, BuiltBy
  <1>8. IsPlace(u)
    <2>1. \A i \in 0..N : i # 0 => u[i - 1] \in D[i - 1] /\ i \in 1..N
      <3>1. \A i \in 0..N : i # 0 => i - 1 \in 0..N /\ i \in 1..N
        BY <1>3
      <3> QED BY <1>7, <3>1
    <2>2. \A i \in 0..N : u[i] = IF i = 0 THEN <<>> ELSE F[<<u[i - 1], i>>]
      BY <1>7
    <2>3. \A i \in 0..N : u[i] = IF i = 0 THEN <<>>
                                  ELSE Append(u[i - 1], First(DOMAIN locked \ ToSet(u[i - 1])))
      BY <1>6, <2>1, <2>2
    <2>4. u = [i \in 0..N |-> u[i]]
      BY <1>7
    <2> QED BY <2>3, <2>4
  <1>9. IsPlace(place)
    <2> HIDE DEF IsPlace
    <2> QED BY <1>8
  <1> HIDE DEF place
  <1>10. order \in Seq(1..N)
    <2>1. place[0] \in D[0]
      BY <1>3, <1>5, <1>9
    <2>2. ASSUME NEW i \in 1..N, place[i - 1] \in D[i - 1]
          PROVE  place[i] \in D[i]
      <3>1. i \in 0..N /\ i # 0
        BY <1>3
      <3>2. place[i] = Append(place[i - 1], First(DOMAIN locked \ ToSet(place[i - 1])))
        BY <1>9, <3>1
      <3> QED BY <1>6, <2>2, <3>2
    <2> HIDE DEF IsPlace
    <2>3. \A i \in 0..N : place[i] \in D[i]
      BY <1>3, <2>1, <2>2, StaysIn
    <2>4. N \in 0..N
      BY <1>3
    <2> QED BY <1>3, <2>3, <2>4 DEF D
  <1> HIDE DEF order, IsPlace
  <1>11. /\ Rows(back, UnitFields)
         /\ \A a \in DOMAIN back : \E i \in DOMAIN path.units :
              back[a] = path.units[i] /\ path.units[i].status = "locked"
    <2> DEFINE L == Len(order)
    <2>1. L \in Nat /\ DOMAIN order = 1..L /\ \A n \in 1..L : order[n] \in 1..N
      BY <1>10, LenProperties, ElementOfSeq
    <2>2. back = [n \in 1..L |-> back[n]] /\ \A n \in 1..L : back[n] = locked[order[n]]
      BY <2>1
    <2>3. \A n \in 1..N : DOMAIN locked[n] = UnitFields
      BY <1>3 DEF Rows
    <2> HIDE DEF L, back
    <2>4. Rows(back, UnitFields) /\ DOMAIN back = 1..L
      BY <2>1, <2>2, <2>3, RowsFrom
    <2> QED BY <1>3, <2>1, <2>2, <2>4
  <1>12. /\ Rows(front, UnitFields)
         /\ \A a \in DOMAIN front : \E i \in DOMAIN path.units : front[a] = path.units[i]
         /\ \A i \in DOMAIN path.units : path.units[i].status # "locked" =>
              \E a \in DOMAIN front : front[a] = path.units[i]
    <2> DEFINE S == DOMAIN path.units \ At(path, "locked")
    <2>1. \A i \in DOMAIN path.units : path.units[i].status # "locked" => i \in S
      BY DEF At
    <2>f. front = Picked(path.units, S)
      OBVIOUS
    <2> HIDE DEF S, front
    <2> DEFINE x == path.units
    <2>x. Rows(x, UnitFields)
      BY <1>2
    <2> HIDE DEF x
    <2>r. LET k == Picked(x, S) IN
          /\ Rows(k, UnitFields)
          /\ \A a \in DOMAIN k : \E i \in S \cap DOMAIN x : k[a] = x[i]
          /\ \A i \in S \cap DOMAIN x : \E a \in DOMAIN k : k[a] = x[i]
      BY <2>x, PickedRows
    <2>2. /\ Rows(front, UnitFields)
          /\ \A a \in DOMAIN front : \E i \in S \cap DOMAIN path.units : front[a] = path.units[i]
          /\ \A i \in S \cap DOMAIN path.units : \E a \in DOMAIN front : front[a] = path.units[i]
      BY <2>f, <2>r DEF x
    <2> QED BY <2>1, <2>2
  <1> HIDE DEF front, back
  <1>13. /\ Rows(units, UnitFields)
         /\ \A a \in DOMAIN units : \E i \in DOMAIN path.units : units[a] = path.units[i]
         /\ \A i \in DOMAIN path.units : path.units[i].status # "locked" =>
              \E a \in DOMAIN units : units[a] = path.units[i]
    <2>1. /\ Rows(units, UnitFields)
          /\ \A a \in DOMAIN units : (\E j \in DOMAIN front : units[a] = front[j])
                                      \/ (\E j \in DOMAIN back : units[a] = back[j])
          /\ \A j \in DOMAIN front : \E a \in DOMAIN units : units[a] = front[j]
      <3>1. Rows(front, UnitFields) /\ Rows(back, UnitFields)
        BY <1>11, <1>12
      <3>2. Both(units, front, back, UnitFields)
        BY <3>1, RowsJoin
      <3> HIDE DEF units
      <3> QED BY <3>2 DEF Both
    <2> HIDE DEF units
    <2> QED BY <1>11, <1>12, <2>1
  <1> HIDE DEF units
  <1>14. /\ q.units = units /\ q.rel = path.rel /\ q.row = path.row /\ q.owner = path.owner
         /\ q.order = path.order /\ DOMAIN q = PathFields
    BY <1>2 DEF PathFields
  <1> HIDE DEF q
  <1>15. ASSUME NEW status, status # "locked"
         PROVE  /\ \A a \in At(q, status) : \E i \in At(path, status) : units[a] = path.units[i]
                /\ \A i \in At(path, status) : \E a \in At(q, status) : units[a] = path.units[i]
    <2>1. /\ At(q, status) = {a \in DOMAIN units : units[a].status = status}
          /\ At(path, status) = {i \in DOMAIN path.units : path.units[i].status = status}
      BY <1>14 DEF At
    <2> QED BY <1>13, <1>15, <2>1
  <1>16. IsPath(q)
    <2>1. \A i \in DOMAIN q.units : IsList(q.units[i].ids)
      BY <1>2, <1>13, <1>14
    <2>2. \A i, j \in At(q, "current") : q.units[i].ids = q.units[j].ids
      <3>1. \A i, j \in At(path, "current") : path.units[i].ids = path.units[j].ids
        BY DEF IsPath
      <3>2. \A a \in At(q, "current") : \E i \in At(path, "current") : units[a] = path.units[i]
        BY <1>15
      <3> QED BY <1>14, <3>1, <3>2
    <2> QED BY <1>2, <1>13, <1>14, <2>1, <2>2 DEF IsPath, PathFields, UnitFields
  <1>17. Done(q) = Done(path)
    <2>1. /\ \A a \in At(q, "completed") : \E i \in At(path, "completed") : units[a] = path.units[i]
          /\ \A i \in At(path, "completed") : \E a \in At(q, "completed") : units[a] = path.units[i]
      BY <1>15
    <2> QED BY <1>14, <2>1 DEF Done
  <1>18. Members(q, "current") = Members(path, "current")
    <2>1. /\ \A a \in At(q, "current") : \E i \in At(path, "current") : units[a] = path.units[i]
          /\ \A i \in At(path, "current") : \E a \in At(q, "current") : units[a] = path.units[i]
      BY <1>15
    <2> QED BY <1>14, <2>1 DEF Members
  <1>19. Follows(path) => Follows(q)
    <2>1. /\ ToSet(CurrentIds(q)) = ToSet(CurrentIds(path))
          /\ CompletedIds(q) = CompletedIds(path)
      BY <1>16, <1>17, <1>18, CurrentIs, CompletedIs
    <2> QED BY <1>14, <2>1 DEF Follows
  <1> QED BY <1>1, <1>14, <1>16, <1>17, <1>19

\* The path a revision leaves.
LEMMA RehomeIs ==
  ASSUME NEW s, IsPath(s.path), Follows(s.path), NEW v, Ordered(v.rel), NEW p, NEW new
  PROVE  LET q == Rehome(s, v, p, new) IN
         /\ IsPath(q) /\ Follows(q) /\ s.path.row <= q.row
         /\ v.path = s.path /\ s.path.owner = p => Done(q) = Done(s.path) /\ q.owner = new
         /\ q.row = s.path.row => q.units = s.path.units /\ q.rel = s.path.rel
  <1> DEFINE row == s.path.row + 1
             a == NewPath(Recommended, v.rel, new)
             x == [a EXCEPT !.row = row]
             y == [s.path EXCEPT !.owner = new]
             z == [s.path EXCEPT !.order = Recommended]
             w == Normalize(z, v.rel)
             q == [w EXCEPT !.owner = new, !.status = "active", !.row = row]
             r == Rehome(s, v, p, new)
  <1>1. /\ IsList(Recommended) /\ IsFiniteSet(v.rel) /\ DOMAIN s.path = PathFields
        /\ s.path.row \in Nat /\ row \in Nat /\ s.path.row <= row /\ IsList(s.path.order)
        /\ row # s.path.row
    BY CatalogAssumption DEF Ordered, IsPath, PathFields
  <1>2. /\ r \in {x, s.path, y, q}
        /\ v.path = s.path /\ s.path.owner = p => r \in {y, q}
    BY DEF Rehome
  <1> HIDE DEF row, r
  <1>3. IsPath(x) /\ Follows(x) /\ x.row = row
    <2>1. IsPath(a) /\ Follows(a)
      BY <1>1, NewPathIs
    <2> HIDE DEF a
    <2>2. /\ x.units = a.units /\ x.rel = a.rel /\ x.order = a.order /\ x.row = row
          /\ DOMAIN x = PathFields /\ IsList(a.order)
      BY <2>1 DEF IsPath, PathFields
    <2> HIDE DEF x
    <2> QED BY <1>1, <2>1, <2>2, UnitsAlone
  <1>4. /\ IsPath(y) /\ Follows(y) /\ y.row = s.path.row /\ y.owner = new /\ Done(y) = Done(s.path)
        /\ y.units = s.path.units /\ y.rel = s.path.rel
    <2>1. /\ y.units = s.path.units /\ y.rel = s.path.rel /\ y.order = s.path.order
          /\ y.row = s.path.row /\ y.owner = new /\ DOMAIN y = PathFields
      BY <1>1 DEF PathFields
    <2> HIDE DEF y
    <2> QED BY <1>1, <2>1, UnitsAlone
  <1>5. IsPath(z) /\ Done(z) = Done(s.path)
    <2>1. /\ z.units = s.path.units /\ z.rel = s.path.rel /\ z.order = Recommended
          /\ z.row = s.path.row /\ DOMAIN z = PathFields
      BY <1>1 DEF PathFields
    <2> HIDE DEF z
    <2> QED BY <1>1, <2>1, UnitsAlone
  <1>6. IsPath(w) /\ Follows(w) /\ Done(w) = Done(s.path)
    <2> HIDE DEF z
    <2> QED BY <1>1, <1>5, NormalizeIs
  <1> HIDE DEF w
  <1>7. IsPath(q) /\ Follows(q) /\ q.row = row /\ q.owner = new /\ Done(q) = Done(s.path)
    <2>1. /\ q.units = w.units /\ q.rel = w.rel /\ q.order = w.order
          /\ q.row = row /\ q.owner = new /\ DOMAIN q = PathFields /\ IsList(w.order)
      BY <1>6 DEF IsPath, PathFields
    <2> HIDE DEF q
    <2> QED BY <1>1, <1>6, <2>1, UnitsAlone
  <1> HIDE DEF x, y, q
  <1> QED BY <1>1, <1>2, <1>3, <1>4, <1>7 DEF r

-----------------------------------------------------------------------------
(* What the gate of a unit reads                                           *)

\* QuizDone with the row of the path given.
QuizDoneAt(t, ids, row) ==
  \E a \in DOMAIN t.quizzes :
    LET task == t.tasks[t.quizzes[a].task]
        mine == {i \in DOMAIN t.records : /\ t.records[i].kind = "graded_quiz"
                                          /\ t.records[i].src = a} IN
    /\ t.quizzes[a].status = "completed"
    /\ task.node = ids /\ task.row = row
    /\ Cardinality(mine) >= Cardinality(task.quiz)
    /\ \A i \in mine : t.records[i].q \in t.bank

LEMMA QuizAt ==
  ASSUME NEW t, NEW ids
  PROVE  QuizDone(t, ids) <=> QuizDoneAt(t, ids, t.path.row)
  BY DEF QuizDone, QuizDoneAt

\* The same answers on the same questions.
SameGrades(s, t) ==
  /\ DOMAIN t.records = DOMAIN s.records
  /\ \A i \in DOMAIN s.records :
       /\ t.records[i].q = s.records[i].q /\ t.records[i].kind = s.records[i].kind
       /\ t.records[i].src = s.records[i].src /\ t.records[i].ok = s.records[i].ok
  /\ t.bank = s.bank /\ t.quizzes = s.quizzes /\ t.tasks = s.tasks

LEMMA QuizDecided ==
  ASSUME NEW s, NEW t, SameGrades(s, t), NEW ids, NEW row
  PROVE  QuizDoneAt(s, ids, row) <=> QuizDoneAt(t, ids, row)
  <1> DEFINE Mine(u, a) == {i \in DOMAIN u.records : u.records[i].kind = "graded_quiz" /\ u.records[i].src = a}
             In(u, a) == \A i \in Mine(u, a) : u.records[i].q \in u.bank
  <1>1. \A a : Mine(t, a) = Mine(s, a)
    BY DEF SameGrades
  <1>2. \A a : In(t, a) <=> In(s, a)
    BY <1>1 DEF SameGrades
  <1>3. \A u : QuizDoneAt(u, ids, row) <=>
          \E a \in DOMAIN u.quizzes :
            /\ u.quizzes[a].status = "completed"
            /\ u.tasks[u.quizzes[a].task].node = ids /\ u.tasks[u.quizzes[a].task].row = row
            /\ Cardinality(Mine(u, a)) >= Cardinality(u.tasks[u.quizzes[a].task].quiz)
            /\ In(u, a)
    BY DEF QuizDoneAt
  <1> HIDE DEF Mine, In
  <1> QED BY <1>1, <1>2, <1>3 DEF SameGrades

LEMMA MasteryDecided ==
  ASSUME NEW s, NEW t, SameGrades(s, t), DOMAIN s.records \subseteq Nat, NEW ids
  PROVE  Unmastered(t, ids) = Unmastered(s, ids)
  <1> DEFINE Right(u, q) == {i \in DOMAIN u.records : /\ u.records[i].q = q /\ u.records[i].ok
                                                      /\ Formal(u.records[i])}
             Of(u, k) == {x \in u.bank : KnowledgeOf[x] = k /\ Right(u, x) # {}}
  <1>1. \A q : Right(t, q) = Right(s, q) /\ Right(s, q) \subseteq DOMAIN s.records
    <2>1. ASSUME NEW q
          PROVE  Right(t, q) = Right(s, q) /\ Right(s, q) \subseteq DOMAIN s.records
      <3>1. \A i \in DOMAIN s.records : Formal(t.records[i]) <=> Formal(s.records[i])
        BY DEF SameGrades, Formal
      <3>2. \A i \in DOMAIN s.records : i \in Right(t, q) <=> i \in Right(s, q)
        BY <3>1 DEF SameGrades
      <3>3. Right(t, q) \subseteq DOMAIN s.records /\ Right(s, q) \subseteq DOMAIN s.records
        BY DEF SameGrades
      <3> HIDE DEF Right
      <3> QED BY <3>2, <3>3
    <2> QED BY <2>1
  <1>2. \A u, k : Evidence(u, k) = {Min(Right(u, q)) : q \in Of(u, k)}
    BY DEF Evidence
  <1>3. ASSUME NEW k
        PROVE  Evidence(t, k) = Evidence(s, k) /\ Evidence(s, k) \subseteq DOMAIN s.records
    <2>1. Of(t, k) = Of(s, k)
      <3> HIDE DEF Right
      <3> QED BY <1>1 DEF SameGrades
    <2>2. \A q \in Of(s, k) : Right(s, q) # {}
      OBVIOUS
    <2> HIDE DEF Of, Right
    <2>3. ASSUME NEW q \in Of(s, k)
          PROVE  Min(Right(s, q)) \in DOMAIN s.records
      <3>1. Right(s, q) \in SUBSET Nat /\ Right(s, q) # {}
        BY <1>1, <2>2
      <3> QED BY <1>1, <3>1, MinIs
    <2>4. Evidence(s, k) = {Min(Right(s, q)) : q \in Of(s, k)}
      BY <1>2
    <2>5. Evidence(t, k) = {Min(Right(t, q)) : q \in Of(t, k)}
      BY <1>2
    <2> QED BY <1>1, <2>1, <2>3, <2>4, <2>5
  <1>4. \A k : Mastered(t.records, Evidence(t, k)) <=> Mastered(s.records, Evidence(s, k))
    <2>1. ASSUME NEW k
          PROVE  Mastered(t.records, Evidence(t, k)) <=> Mastered(s.records, Evidence(s, k))
      <3> DEFINE E == Evidence(s, k)
      <3>1. Evidence(t, k) = E /\ E \subseteq DOMAIN s.records
        BY <1>3
      <3> HIDE DEF E
      <3>2. Mastered(t.records, E) <=> Mastered(s.records, E)
        BY <3>1 DEF Mastered, SameGrades
      <3> QED BY <3>1, <3>2 DEF E
    <2> QED BY <2>1
  <1> QED BY <1>4 DEF Unmastered

\* The gate but for mistakes that are not resolved, on a row of the path from lo on.
Cleared(s, ids, lo) ==
  /\ Unmastered(s, ids) = {} /\ Blockers(s.mistakes, ids) = {}
  /\ \E row \in Nat : lo <= row /\ QuizDoneAt(s, ids, row)

-----------------------------------------------------------------------------
(* What evidence does to the path and the profiles                         *)

Fit(s) ==
  /\ Shaped(s) /\ IsPath(s.path) /\ Follows(s.path) /\ Ordered(s.rel) /\ CountRows(s)

Sole(s) == Chained(s) /\ s.path.owner = Latest(s)

\* Units are done by the gate alone and stay done, the profiles stay one history.
Moves(s, t) ==
  /\ Keeps(s, t) /\ t.rel = s.rel /\ t.bank = s.bank
  /\ \A i \in DOMAIN s.records : t.records[i].ok = s.records[i].ok
  /\ IsPath(t.path) /\ Follows(t.path) /\ CountRows(t)
  /\ s.path.row <= t.path.row
  /\ Sole(s) => Sole(t)
  /\ Done(s.path) \subseteq Done(t.path)
  /\ \A ids \in Done(t.path) \ Done(s.path) : Cleared(s, ids, s.path.row)

LEMMA MovesSelf == ASSUME NEW s, Fit(s) PROVE Moves(s, s)
  <1>1. s.path.row <= s.path.row
    BY DEF Fit, IsPath
  <1> QED BY <1>1, KeepsSelf DEF Moves, Fit

LEMMA MovesFit == ASSUME NEW s, Fit(s), NEW t, Moves(s, t) PROVE Fit(t)
  BY DEF Moves, Fit, Keeps

LEMMA MovesGrades ==
  ASSUME NEW s, Fit(s), NEW t, Moves(s, t)
  PROVE  SameGrades(s, t) /\ t.mistakes = s.mistakes /\ DOMAIN s.records \subseteq Nat
  <1>1. DOMAIN s.records \subseteq Nat
    <2> DEFINE x == s.records
    <2>1. Rows(x, RowFields.records)
      BY ShapedRows DEF Fit
    <2> HIDE DEF x
    <2>2. DOMAIN x = 1..Len(x) /\ Len(x) \in Nat
      BY <2>1, RowsAre
    <2> QED BY <2>2 DEF x
  <1> QED BY <1>1 DEF Moves, Keeps, SameGrades

LEMMA MovesOn ==
  ASSUME NEW s, Fit(s), NEW t, Moves(s, t), NEW u, Moves(t, u)
  PROVE  Moves(s, u)
  <1>1. Keeps(s, u)
    BY KeepsOn DEF Moves
  <1>2. s.path.row \in Nat /\ t.path.row \in Nat /\ u.path.row \in Nat
        /\ s.path.row <= t.path.row /\ t.path.row <= u.path.row
    BY DEF Moves, Fit, IsPath
  <1>3. s.path.row <= u.path.row
    BY <1>2
  <1>4. \A i \in DOMAIN s.records : u.records[i].ok = s.records[i].ok
    BY DEF Moves, Keeps
  <1>5. ASSUME NEW ids \in Done(u.path) \ Done(s.path)
        PROVE  Cleared(s, ids, s.path.row)
    <2>1. CASE ids \in Done(t.path)
      BY <1>5, <2>1 DEF Moves
    <2>2. CASE ids \notin Done(t.path)
      <3>1. Cleared(t, ids, t.path.row)
        BY <1>5, <2>2 DEF Moves
      <3>2. SameGrades(s, t) /\ t.mistakes = s.mistakes /\ DOMAIN s.records \subseteq Nat
        BY MovesGrades
      <3>3. Unmastered(s, ids) = {} /\ Blockers(s.mistakes, ids) = {}
        BY <3>1, <3>2, MasteryDecided DEF Cleared
      <3>4. PICK row \in Nat : t.path.row <= row /\ QuizDoneAt(t, ids, row)
        BY <3>1 DEF Cleared
      <3>5. s.path.row <= row /\ QuizDoneAt(s, ids, row)
        BY <1>2, <3>2, <3>4, QuizDecided
      <3> QED BY <3>3, <3>5 DEF Cleared
    <2> QED BY <2>1, <2>2
  <1>6. Done(s.path) \subseteq Done(u.path)
    BY DEF Moves
  <1>7. u.rel = s.rel /\ u.bank = s.bank /\ IsPath(u.path) /\ Follows(u.path) /\ CountRows(u)
        /\ (Sole(s) => Sole(u))
    BY DEF Moves
  <1> QED BY <1>1, <1>3, <1>4, <1>5, <1>6, <1>7 DEF Moves

\* The path moves, the profiles do not.
LEMMA ForwardMoves ==
  ASSUME NEW s, Fit(s), NEW t, Keeps(s, t), t.rel = s.rel, t.bank = s.bank,
         \A i \in DOMAIN s.records : t.records[i].ok = s.records[i].ok,
         t.profiles = s.profiles, IsPath(t.path), Follows(t.path),
         t.path.row = s.path.row, t.path.owner = s.path.owner,
         Done(s.path) \subseteq Done(t.path),
         \A ids \in Done(t.path) \ Done(s.path) : Cleared(s, ids, s.path.row)
  PROVE  Moves(s, t)
  <1>1. CountRows(t) /\ (Chained(s) => Chained(t)) /\ Latest(t) = Latest(s)
    <2>1. \A i \in DOMAIN s.records : i \in DOMAIN t.records /\ t.records[i].q = s.records[i].q
      BY DEF Keeps
    <2> QED BY <2>1, CountsOn DEF Fit
  <1>2. s.path.row <= t.path.row
    BY DEF Fit, IsPath
  <1> QED BY <1>1, <1>2 DEF Moves, Sole

\* Neither does.
LEMMA StillMoves ==
  ASSUME NEW s, Fit(s), NEW t, Keeps(s, t), t.rel = s.rel, t.bank = s.bank,
         \A i \in DOMAIN s.records : t.records[i].ok = s.records[i].ok,
         t.profiles = s.profiles, t.path = s.path
  PROVE  Moves(s, t)
  <1>1. /\ IsPath(t.path) /\ Follows(t.path) /\ Done(s.path) \subseteq Done(t.path)
        /\ \A ids \in Done(t.path) \ Done(s.path) : Cleared(s, ids, s.path.row)
    BY DEF Fit
  <1> QED BY <1>1, ForwardMoves

-----------------------------------------------------------------------------
(* Moves that leave something alone                                        *)

\* The catalog, the path and the profiles are the same.
Rest(s, t) ==
  t.rel = s.rel /\ t.bank = s.bank /\ t.path = s.path /\ t.profiles = s.profiles

LEMMA RestOn == ASSUME NEW s, NEW t, NEW u, Rest(s, t), Rest(t, u) PROVE Rest(s, u)
  BY DEF Rest

LEMMA ListRest ==
  ASSUME NEW s, Shaped(s), NEW f \in Lists, NEW x
  PROVE  Rest(s, [s EXCEPT ![f] = x])
  <1>1. DOMAIN s = Lists \cup Others
    BY ShapedRows
  <1>2. f \notin Others /\ \A g \in Others : g # f
    BY ListsAre DEF Others
  <1>3. \A g \in Others : [s EXCEPT ![f] = x][g] = s[g]
    BY <1>1, <1>2
  <1>4. {"rel", "bank", "path", "profiles"} \subseteq Others
    BY DEF Others
  <1> QED BY <1>3, <1>4 DEF Rest

LEMMA GovernMoves ==
  ASSUME NEW s, Fit(s), NEW ids, NEW gov, NEW by
  PROVE  Moves(s, Govern(s, ids, gov, by))
  <1> DEFINE y == [i \in DOMAIN s.records |->
                     IF i \in ids THEN [s.records[i] EXCEPT !.gov = gov, !.by = by] ELSE s.records[i]]
             t == [s EXCEPT !.records = y]
  <1>1. Govern(s, ids, gov, by) = t
    BY DEF Govern
  <1>2. Shaped(s) /\ "records" \in Lists /\ DOMAIN s = Lists \cup Others
    BY ShapedRows, ListsAre DEF Fit
  <1>3. \A i \in DOMAIN s.records : y[i].ok = s.records[i].ok
    BY <1>2, RecordRow
  <1>4. t.records = y
    <2> HIDE DEF y
    <2> QED BY <1>2
  <1>5. Rest(s, t)
    <2> HIDE DEF y
    <2> QED BY <1>2, ListRest
  <1>6. Keeps(s, Govern(s, ids, gov, by))
    BY <1>2, GovernKeeps
  <1> HIDE DEF t, y
  <1> QED BY <1>1, <1>3, <1>4, <1>5, <1>6, StillMoves DEF Rest

\* A decision changes nothing else.
LEMMA PropsMove ==
  ASSUME NEW s, Fit(s), NEW x, NEW t, t = [s EXCEPT !.props = x], Keeps(s, t)
  PROVE  Moves(s, t) /\ Rest(s, t) /\ t.records = s.records
  <1>1. Shaped(s) /\ "props" \in Lists /\ "records" \in Lists /\ DOMAIN s = Lists \cup Others
    BY ShapedRows, ListsAre DEF Fit
  <1>2. Rest(s, t)
    BY <1>1, ListRest
  <1>3. t.records = s.records
    BY <1>1
  <1> QED BY <1>2, <1>3, StillMoves DEF Rest

LEMMA AddedMoves ==
  ASSUME NEW s, Fit(s), NEW x, DOMAIN x = PropFields, x.q = NoQuestion, x.task = 0,
         NEW t, t = [s EXCEPT !.props = Append(@, x)]
  PROVE  /\ Moves(s, t) /\ Rest(s, t) /\ t.records = s.records
         /\ Len(s.props) + 1 \in DOMAIN t.props /\ Len(t.props) = Len(s.props) + 1
  <1>1. Keeps(s, t) /\ Len(s.props) + 1 \in DOMAIN t.props /\ Len(t.props) = Len(s.props) + 1
    BY AddedKeeps DEF Fit
  <1> DEFINE y == Append(s.props, x)
  <1>2. t = [s EXCEPT !.props = y]
    OBVIOUS
  <1> HIDE DEF y
  <1>3. Moves(s, t) /\ Rest(s, t) /\ t.records = s.records
    BY ONLY Fit(s), <1>1, <1>2, PropsMove
  <1> QED BY <1>1, <1>3

LEMMA RecommendMoves ==
  ASSUME NEW s, Fit(s), NEW p \in DOMAIN s.props, NEW path, NEW affected, NEW advanced
  PROVE  LET t == Recommend(s, p, path, affected, advanced)
         IN Moves(s, t) /\ Rest(s, t) /\ t.records = s.records
  <1> DEFINE t == Recommend(s, p, path, affected, advanced)
             match  == Matching(path, affected, s.props[p].hypothesis, advanced)
             status == IF match \in Confirmable THEN "resource_pending" ELSE "evidence_recorded"
             x == [s.props[p] EXCEPT !.match = match, !.target = CurrentIds(path), !.status = status]
             y == [s.props EXCEPT ![p] = x]
  <1>1. t = [s EXCEPT !.props = y]
    BY DEF Recommend
  <1>2. Keeps(s, t)
    BY RecommendKeeps DEF Fit
  <1> HIDE DEF t, y
  <1> QED BY <1>1, <1>2, PropsMove DEF t

\* The path is put in place.
LEMMA PathMoves ==
  ASSUME NEW s, Fit(s), NEW path, IsPath(path), Follows(path), path.row = s.path.row,
         path.owner = s.path.owner, Done(s.path) \subseteq Done(path),
         \A ids \in Done(path) \ Done(s.path) : Cleared(s, ids, s.path.row),
         NEW t, t = [s EXCEPT !.path = path]
  PROVE  Moves(s, t) /\ t.path = path /\ t.props = s.props
  <1>1. Shaped(s) /\ DOMAIN s = Lists \cup Others /\ "path" \in Others /\ "path" \notin Lists
    BY ShapedRows, ListsAre DEF Fit, Others
  <1>2. Keeps(s, t)
    BY <1>1, OtherKeeps
  <1>3. /\ t.rel = s.rel /\ t.bank = s.bank /\ t.profiles = s.profiles /\ t.path = path
        /\ t.records = s.records /\ t.props = s.props
    BY <1>1, ListsAre DEF Others
  <1> QED BY <1>2, <1>3, ForwardMoves

\* A unit is left when its gate is open on tables with the same grades and the mistakes
\* that block it.
LEMMA GateClears ==
  ASSUME NEW s, Fit(s), NEW t, SameGrades(s, t), t.path.row = s.path.row, NEW ids,
         GateOpen(t, ids), Blockers(t.mistakes, ids) = {} => Blockers(s.mistakes, ids) = {}
  PROVE  Cleared(s, ids, s.path.row)
  <1>1. Unmastered(t, ids) = {} /\ Blockers(t.mistakes, ids) = {} /\ QuizDone(t, ids)
    BY DEF GateOpen
  <1>2. DOMAIN s.records \subseteq Nat
    BY MovesSelf, MovesGrades
  <1>3. Unmastered(s, ids) = {}
    BY <1>1, <1>2, MasteryDecided
  <1>4. QuizDoneAt(s, ids, s.path.row)
    <2>1. QuizDoneAt(t, ids, t.path.row)
      BY <1>1, QuizAt
    <2> QED BY <2>1, QuizDecided
  <1>5. s.path.row \in Nat /\ s.path.row <= s.path.row
    BY DEF Fit, IsPath
  <1> QED BY <1>1, <1>3, <1>4, <1>5 DEF Cleared

LEMMA AdvanceMoves ==
  ASSUME NEW s, Fit(s), NEW ids, Cleared(s, ids, s.path.row),
         NEW t, t = [s EXCEPT !.path = Advance(s.path, ids, s.rel)]
  PROVE  Moves(s, t) /\ t.path = Advance(s.path, ids, s.rel) /\ t.props = s.props
  <1> DEFINE path == Advance(s.path, ids, s.rel)
  <1>1. /\ IsPath(path) /\ Follows(path) /\ path.row = s.path.row /\ path.owner = s.path.owner
        /\ Done(s.path) \subseteq Done(path) /\ Done(path) \subseteq Done(s.path) \cup {ids}
    BY AdvanceIs DEF Fit
  <1> HIDE DEF path
  <1>2. \A x \in Done(path) \ Done(s.path) : Cleared(s, x, s.path.row)
    BY <1>1
  <1>3. t = [s EXCEPT !.path = path]
    BY DEF path
  <1>4. Moves(s, t) /\ t.path = path /\ t.props = s.props
    BY ONLY Fit(s), <1>1, <1>2, <1>3, PathMoves
  <1> QED BY <1>4 DEF path

LEMMA TryAdvanceMoves ==
  ASSUME NEW s, Fit(s), NEW stored, NEW r,
         s.records[r].ok => \A ids : Blockers(stored, ids) = {} => Blockers(s.mistakes, ids) = {}
  PROVE  Moves(s, TryAdvance(s, stored, r))
  <1> DEFINE ids == CurrentIds(s.path)
             p   == Len(s.props) + 1
             x   == Proposal(s, "mastery_up", NoQuestion, "resource_pending")
             path == Advance(s.path, ids, s.rel)
             a   == [s EXCEPT !.props = Append(@, x)]
             t   == [a EXCEPT !.path = path]
             u   == Recommend(t, p, t.path, {}, TRUE)
             m   == [s EXCEPT !.mistakes = stored]
  <1>0. DOMAIN s = Lists \cup Others /\ Shaped(s)
    BY ShapedRows DEF Fit
  <1>1. /\ s.records[r].ok /\ GateOpen(m, ids) => TryAdvance(s, stored, r) = Govern(u, {r}, "consumed", 0)
        /\ ~(s.records[r].ok /\ GateOpen(m, ids)) =>
             TryAdvance(s, stored, r) = Govern(s, {r}, "pending", 0)
    <2>1. [s EXCEPT !.props = Append(@, x), !.path = Advance(@, ids, s.rel)] = t
      <3> HIDE DEF x
      <3> QED BY <1>0, ListsAre DEF Others
    <2> HIDE DEF t
    <2> QED BY <2>1 DEF TryAdvance
  <1>2. CASE ~(s.records[r].ok /\ GateOpen(m, ids))
    BY <1>1, <1>2, GovernMoves
  <1>3. CASE s.records[r].ok /\ GateOpen(m, ids)
    <2>1. Cleared(s, ids, s.path.row)
      <3>1. SameGrades(s, m) /\ m.path = s.path /\ m.mistakes = stored
        BY <1>0, ListsAre DEF SameGrades, Others
      <3> HIDE DEF m, ids
      <3> QED BY <1>3, <3>1, GateClears
    <2>2. DOMAIN x = PropFields /\ x.q = NoQuestion /\ x.task = 0
      BY ProposalIs
    <2> HIDE DEF x, ids
    <2>3. Moves(s, a) /\ Rest(s, a) /\ p \in DOMAIN a.props /\ Fit(a) /\ a.records = s.records
      <3>1. Moves(s, a) /\ Rest(s, a) /\ p \in DOMAIN a.props /\ a.records = s.records
        BY <2>2, AddedMoves
      <3> HIDE DEF a, p
      <3> QED BY <3>1, MovesFit
    <2> HIDE DEF a
    <2>4. Cleared(a, ids, a.path.row)
      <3>1. SameGrades(s, a) /\ a.mistakes = s.mistakes /\ DOMAIN s.records \subseteq Nat
        BY <2>3, MovesGrades
      <3> QED BY <2>1, <2>3, <3>1, MasteryDecided, QuizDecided DEF Cleared, Rest
    <2>5. Moves(a, t) /\ p \in DOMAIN t.props
      <3>1. t = [a EXCEPT !.path = Advance(a.path, ids, a.rel)]
        BY <2>3 DEF Rest
      <3> HIDE DEF t
      <3>2. Moves(a, t) /\ t.props = a.props
        BY ONLY <2>3, <2>4, <3>1, AdvanceMoves
      <3> QED BY <2>3, <3>2
    <2> HIDE DEF t
    <2>6. Fit(t)
      BY <2>3, <2>5, MovesFit
    <2>7. Moves(t, u)
      BY <2>5, <2>6, RecommendMoves
    <2> HIDE DEF u
    <2>8. Moves(s, u) /\ Fit(u)
      BY <2>3, <2>5, <2>6, <2>7, MovesOn, MovesFit
    <2>9. Moves(s, Govern(u, {r}, "consumed", 0))
      BY <2>8, GovernMoves, MovesOn
    <2> QED BY <1>1, <1>3, <2>9
  <1> QED BY <1>2, <1>3

-----------------------------------------------------------------------------
(* The judgement of evidence                                               *)

\* The path after a unit may have been left and those to come reordered.
LEMMA ReorderedIs ==
  ASSUME NEW path, IsPath(path), Follows(path), NEW affected, NEW match
  PROVE  LET q == Reordered(path, affected, match) IN
         /\ IsPath(q) /\ Follows(q) /\ Done(q) = Done(path) /\ q.row = path.row /\ q.owner = path.owner
  <1> DEFINE q == Reordered(path, affected, match)
             x == Reprioritize(path, affected)
  <1>1. /\ IsPath(x) /\ Follows(x) /\ Done(x) = Done(path)
        /\ x.row = path.row /\ x.owner = path.owner
    BY ReprioritizeIs
  <1>2. q = x \/ q = path
    BY DEF Reordered
  <1> HIDE DEF q, x
  <1> QED BY <1>1, <1>2 DEF q

\* Unit ids may be left, by path, which q then reorders.
Left(s, ids, path, q, affected, match) ==
  /\ path = s.path \/ (path = Advance(s.path, ids, s.rel) /\ Cleared(s, ids, s.path.row))
  /\ q = Reordered(path, affected, match)

LEMMA LeftIs ==
  ASSUME NEW s, Fit(s), NEW ids, NEW path, NEW affected, NEW match, NEW q,
         Left(s, ids, path, q, affected, match)
  PROVE  /\ IsPath(q) /\ Follows(q) /\ q.row = s.path.row /\ q.owner = s.path.owner
         /\ Done(s.path) \subseteq Done(q)
         /\ \A x \in Done(q) \ Done(s.path) : Cleared(s, x, s.path.row)
  <1>0. /\ path = s.path \/ (path = Advance(s.path, ids, s.rel) /\ Cleared(s, ids, s.path.row))
        /\ q = Reordered(path, affected, match)
    BY DEF Left
  <1>1. /\ IsPath(path) /\ Follows(path) /\ path.row = s.path.row /\ path.owner = s.path.owner
        /\ Done(s.path) \subseteq Done(path)
        /\ \A x \in Done(path) \ Done(s.path) : Cleared(s, x, s.path.row)
    <2>1. CASE path = Advance(s.path, ids, s.rel) /\ Cleared(s, ids, s.path.row)
      <3> DEFINE z == Advance(s.path, ids, s.rel)
      <3>1. /\ IsPath(z) /\ Follows(z) /\ z.row = s.path.row /\ z.owner = s.path.owner
            /\ Done(s.path) \subseteq Done(z) /\ Done(z) \subseteq Done(s.path) \cup {ids}
        BY AdvanceIs DEF Fit
      <3>2. path = z
        BY <2>1
      <3> HIDE DEF z
      <3> QED BY <2>1, <3>1, <3>2
    <2>2. CASE path = s.path
      BY <2>2 DEF Fit
    <2> QED BY <1>0, <2>1, <2>2
  <1>2. /\ IsPath(q) /\ Follows(q) /\ Done(q) = Done(path) /\ q.row = path.row /\ q.owner = path.owner
    BY <1>0, <1>1, ReorderedIs
  <1> QED BY <1>1, <1>2

\* What is cleared stays so where grades and mistakes are the same.
LEMMA ClearedOn ==
  ASSUME NEW s, Fit(s), NEW t, Moves(s, t), t.path.row = s.path.row, NEW ids,
         Cleared(s, ids, s.path.row)
  PROVE  Cleared(t, ids, t.path.row)
  <1>1. SameGrades(s, t) /\ t.mistakes = s.mistakes /\ DOMAIN s.records \subseteq Nat
    BY MovesGrades
  <1> QED BY <1>1, MasteryDecided, QuizDecided DEF Cleared

LEMMA JudgedMoves ==
  ASSUME NEW s, Fit(s), NEW n \in DOMAIN s.props, NEW r, NEW cands, NEW revised
  PROVE  Moves(s, Judged(s, n, r, cands, revised))
  <1> DEFINE ids  == CurrentIds(s.path)
             go   == s.records[r].ok /\ GateOpen(s, ids)
             path == IF go THEN Advance(s.path, ids, s.rel) ELSE s.path
             affected == {KnowledgeOf[s.records[r].q]} \cup Unmastered(s, ids)
             gov == IF revised THEN "consumed" ELSE "no_change"
             by  == IF revised THEN Latest(s) ELSE 0
             a   == Recommend(s, n, path, affected, go)
             q   == Reordered(path, affected, a.props[n].match)
             b   == [a EXCEPT !.path = q]
             x   == [s.props[n] EXCEPT !.status = "no_change"]
             c   == [s EXCEPT !.props[n] = x]
  <1>1. \/ Judged(s, n, r, cands, revised) = Govern(b, cands, gov, by)
        \/ Judged(s, n, r, cands, revised) = Govern(c, cands, gov, by)
    <2>1. [s EXCEPT !.props[n].status = "no_change"] = c
      OBVIOUS
    <2>2. Rearranged(a, n, path, affected) = b
      BY DEF Rearranged
    <2> HIDE DEF c, b, gov, by
    <2>3. Judged(s, n, r, cands, revised) = Govern(IF revised \/ go THEN b ELSE c, cands, gov, by)
      BY <2>1, <2>2 DEF Judged, gov, by
    <2> QED BY <2>3
  <1>2. go => Cleared(s, ids, s.path.row)
    <2>1. SameGrades(s, s)
      BY DEF SameGrades
    <2> HIDE DEF ids
    <2> QED BY <2>1, GateClears
  <1>3. /\ IsPath(q) /\ Follows(q) /\ q.row = s.path.row /\ q.owner = s.path.owner
        /\ Done(s.path) \subseteq Done(q)
        /\ \A y \in Done(q) \ Done(s.path) : Cleared(s, y, s.path.row)
    <2> DEFINE match == a.props[n].match
    <2>1. path = s.path \/ (path = Advance(s.path, ids, s.rel) /\ Cleared(s, ids, s.path.row))
      <3> HIDE DEF go, ids
      <3> QED BY <1>2
    <2> HIDE DEF go, affected, match, a, ids, path
    <2>2. Left(s, ids, path, q, affected, match)
      BY <2>1 DEF Left, match
    <2> HIDE DEF q
    <2> QED BY <2>2, LeftIs
  <1> HIDE DEF path, affected, go, gov, by
  <1>4. Moves(s, a) /\ Rest(s, a) /\ Fit(a)
    <2>1. Moves(s, a) /\ Rest(s, a)
      BY RecommendMoves
    <2> HIDE DEF a
    <2> QED BY <2>1, MovesFit
  <1> HIDE DEF a, q
  <1>5. Moves(a, b)
    <2>1. a.path = s.path
      BY <1>4 DEF Rest
    <2>2. \A y \in Done(q) \ Done(s.path) : Cleared(a, y, a.path.row)
      BY <1>3, <1>4, <2>1, ClearedOn
    <2> HIDE DEF b
    <2>3. b = [a EXCEPT !.path = q]
      BY DEF b
    <2>4. /\ IsPath(q) /\ Follows(q) /\ q.row = a.path.row /\ q.owner = a.path.owner
          /\ Done(a.path) \subseteq Done(q)
          /\ \A y \in Done(q) \ Done(a.path) : Cleared(a, y, a.path.row)
      BY <1>3, <2>1, <2>2
    <2> QED BY ONLY <1>4, <2>3, <2>4, PathMoves
  <1>6. Moves(s, c)
    <2> DEFINE y == [s.props EXCEPT ![n] = x]
    <2>1. DOMAIN s.props[n] = {"node", "row", "hypothesis", "q", "status", "match", "target",
                               "task"}
      BY PropRow DEF Fit
    <2>2. /\ DOMAIN x = PropFields /\ x.q = s.props[n].q /\ x.task = s.props[n].task
          /\ x.status = "no_change"
      BY <2>1 DEF PropFields, RowFields
    <2> HIDE DEF x
    <2>3. Keeps(s, c)
      BY <2>2, PropWritten DEF Fit
    <2>4. c = [s EXCEPT !.props = y]
      OBVIOUS
    <2> HIDE DEF c, y
    <2> QED BY <2>3, <2>4, PropsMove
  <1> HIDE DEF b, c
  <1>7. Moves(s, b) /\ Fit(b) /\ Fit(c)
    BY <1>4, <1>5, <1>6, MovesOn, MovesFit
  <1>8. Moves(s, Govern(b, cands, gov, by)) /\ Moves(s, Govern(c, cands, gov, by))
    BY <1>6, <1>7, GovernMoves, MovesOn
  <1> QED BY <1>1, <1>8

LEMMA LatestIn == ASSUME NEW s, CountRows(s) PROVE Latest(s) \in DOMAIN s.profiles
  <1> DEFINE x == s.profiles
  <1>1. Rows(x, {"prev", "counted"}) /\ x # <<>>
    BY DEF CountRows
  <1> HIDE DEF x
  <1>2. Len(x) \in Nat /\ DOMAIN x = 1..Len(x) /\ x \in Seq({x[i] : i \in DOMAIN x})
    BY <1>1, RowsAre, RowsInSeq
  <1>3. Len(x) # 0
    BY <1>1, <1>2, EmptySeq
  <1>4. Len(x) \in DOMAIN x
    BY <1>2, <1>3
  <1> QED BY <1>4 DEF x, Latest

\* The path of the learner's latest profile is analysed.
LEMMA AnalyzeMoves ==
  ASSUME NEW s, Fit(s), s.path.owner = Latest(s), NEW t, CountRows(t), Ordered(t.rel),
         t.path = s.path, t.profiles = s.profiles,
         DOMAIN t.records = DOMAIN s.records, \A i \in DOMAIN s.records : t.records[i].q = s.records[i].q,
         NEW evidence, NEW revised \in BOOLEAN
  PROVE  LET u == Analyze(s, t, t, Latest(s), evidence, revised)
         IN Moves(s, u) /\ u.path.owner = Latest(u)
  <1> DEFINE p == Latest(s)
             u == Analyze(s, t, t, p, evidence, revised)
             new == Len(s.profiles) + 1
             next == CountedNext(t, p, evidence)
             more == IF revised THEN Append(s.profiles, [prev |-> p, counted |-> next])
                                ELSE [s.profiles EXCEPT ![p].counted = next]
             path == IF revised THEN Rehome(s, t, p, new) ELSE s.path
  <1>1. p \in DOMAIN t.profiles
    BY LatestIn DEF Fit
  <1>2. Shaped(s) /\ CountRows(s) /\ IsPath(s.path) /\ Follows(s.path)
    BY DEF Fit
  <1>3. Keeps(s, u)
    BY <1>2, AnalyzeKeeps
  <1>4. Analysed(s, u, more, path)
    <2> HIDE DEF p, next
    <2> QED BY <1>2, AnalyzeIs DEF next
  <1>5. /\ CountRows(u)
        /\ Latest(u) = IF revised THEN Latest(s) + 1 ELSE Latest(s)
        /\ Chained(s) => Chained(u)
    <2>1. t.profiles = s.profiles /\ p = Latest(s)
      OBVIOUS
    <2> HIDE DEF p
    <2>2. LET w == Analyze(s, t, t, p, evidence, revised)
          IN /\ CountRows(w)
             /\ Latest(w) = IF revised THEN Latest(s) + 1 ELSE Latest(s)
             /\ t.profiles = s.profiles /\ p = Latest(s) /\ Chained(s) => Chained(w)
      BY <1>1, <1>2, AnalyzeCounts
    <2> QED BY <2>1, <2>2
  <1>6. /\ IsPath(path) /\ Follows(path) /\ s.path.row <= path.row /\ Done(path) = Done(s.path)
        /\ path.owner = IF revised THEN new ELSE s.path.owner
    <2>1. CASE revised
      <3> DEFINE q == Rehome(s, t, p, new)
      <3>1. /\ IsPath(q) /\ Follows(q) /\ s.path.row <= q.row
            /\ t.path = s.path /\ s.path.owner = p => Done(q) = Done(s.path) /\ q.owner = new
        <4> HIDE DEF p, new
        <4> QED BY <1>2, RehomeIs
      <3>2. path = q
        BY <2>1
      <3> HIDE DEF q, path
      <3> QED BY <2>1, <3>1, <3>2
    <2>2. CASE ~revised
      <3>1. path = s.path /\ s.path.row <= s.path.row
        BY <1>2, <2>2 DEF IsPath
      <3> HIDE DEF path
      <3> QED BY <1>2, <2>2, <3>1
    <2> QED BY <2>1, <2>2
  <1> HIDE DEF path, u, more
  <1>7. /\ u.path = path /\ u.rel = s.rel /\ u.bank = s.bank
        /\ \A i \in DOMAIN s.records : u.records[i].ok = s.records[i].ok
    BY <1>4 DEF Analysed
  <1>8. u.path.owner = Latest(u)
    BY <1>5, <1>6, <1>7 DEF Latest
  <1>9. Moves(s, u)
    BY <1>3, <1>5, <1>6, <1>7, <1>8 DEF Moves, Sole
  <1> QED BY <1>8, <1>9 DEF u

LEMMA EvaluateMoves ==
  ASSUME NEW s, Fit(s), NEW stored, NEW r, NEW outcome,
         s.records[r].ok => \A ids : Blockers(stored, ids) = {} => Blockers(s.mistakes, ids) = {}
  PROVE  Moves(s, Evaluate(s, stored, r, outcome))
  <1> DEFINE cands == Candidates(s, r)
             p     == Latest(s)
             up    == IF s.records[r].ok THEN "mastery_up" ELSE "support_down"
             revised == /\ outcome = "revised"
                        /\ MayRevise(s, Fresh(s, s.profiles[p].counted, cands))
             x == Proposal(s, up, NoQuestion, "confirmed")
             raised  == [s EXCEPT !.props = Append(@, x)]
             n == Len(raised.props)
             analysed == Analyze(raised, s, s, p, cands, revised)
             judged == Judged(analysed, n, r, cands, revised)
  <1>1. \/ Evaluate(s, stored, r, outcome) = s
        \/ Evaluate(s, stored, r, outcome) = TryAdvance(s, stored, r)
        \/ Evaluate(s, stored, r, outcome) = Govern(s, {r}, "pending", 0)
        \/ Evaluate(s, stored, r, outcome) = judged /\ s.path.owner = p
    <2> HIDE DEF judged
    <2> DEFINE own == s.path.owner = p
               enough == Enough(s, cands)
               free == s.records[r].gov = "none"
               a == Govern(s, {r}, "pending", 0)
               b == TryAdvance(s, stored, r)
    <2>1. Evaluate(s, stored, r, outcome) =
            CASE s.records[r].gov # "none" -> s
              [] s.records[r].gov = "none" /\ ~enough -> IF own THEN b ELSE a
              [] s.records[r].gov = "none" /\ enough /\ (~own \/ outcome = "failed") -> a
              [] OTHER -> judged
      BY DEF Evaluate, judged
    <2> HIDE DEF a, b, own, enough
    <2>2. CASE s.records[r].gov # "none"
      BY <2>1, <2>2
    <2>3. CASE s.records[r].gov = "none" /\ ~enough
      BY <2>1, <2>3 DEF a, b
    <2>4. CASE s.records[r].gov = "none" /\ enough /\ (~own \/ outcome = "failed")
      BY <2>1, <2>4 DEF a
    <2>5. CASE s.records[r].gov = "none" /\ enough /\ ~(~own \/ outcome = "failed")
      BY <2>1, <2>5 DEF own
    <2> QED BY <2>2, <2>3, <2>4, <2>5
  <1>2. DOMAIN x = PropFields /\ x.q = NoQuestion /\ x.task = 0
    BY ProposalIs
  <1>b. revised \in BOOLEAN
    BY DEF MayRevise
  <1> HIDE DEF cands, p, up, revised, x
  <1>3. /\ Moves(s, raised) /\ Rest(s, raised) /\ raised.records = s.records
        /\ n \in DOMAIN raised.props /\ Fit(raised)
    <2>1. /\ Moves(s, raised) /\ Rest(s, raised) /\ raised.records = s.records
          /\ Len(s.props) + 1 \in DOMAIN raised.props /\ Len(raised.props) = Len(s.props) + 1
      BY <1>2, AddedMoves
    <2> HIDE DEF raised
    <2> QED BY <2>1, MovesFit
  <1> HIDE DEF raised, n
  <1>4. ASSUME s.path.owner = p
        PROVE  Moves(s, judged)
    <2>1. /\ CountRows(s) /\ Ordered(s.rel) /\ s.path = raised.path /\ s.profiles = raised.profiles
          /\ Latest(raised) = p /\ raised.path.owner = Latest(raised)
      BY <1>3, <1>4 DEF Fit, Rest, Latest, p
    <2>2. Moves(raised, analysed)
      <3>1. LET u == Analyze(raised, s, s, Latest(raised), cands, revised)
            IN Moves(raised, u) /\ u.path.owner = Latest(u)
        BY <1>3, <1>b, <2>1, AnalyzeMoves
      <3> QED BY <2>1, <3>1
    <2> HIDE DEF analysed
    <2>3. Fit(analysed) /\ n \in DOMAIN analysed.props
      BY <1>3, <2>2, MovesFit DEF Moves, Keeps
    <2>4. Moves(analysed, judged)
      BY <2>3, JudgedMoves
    <2> HIDE DEF judged
    <2> QED BY <1>3, <2>2, <2>4, MovesOn
  <1>5. /\ Moves(s, s) /\ Moves(s, TryAdvance(s, stored, r))
        /\ Moves(s, Govern(s, {r}, "pending", 0))
    BY MovesSelf, TryAdvanceMoves, GovernMoves
  <1> HIDE DEF judged
  <1> QED BY <1>1, <1>4, <1>5

-----------------------------------------------------------------------------
(* Several answers judged one after another                                *)

LEMMA EvaluatedMoves ==
  ASSUME NEW t, Fit(t), NEW mine, NEW outcome
  PROVE  Moves(t, Evaluated(t, mine, outcome))
  <1> DEFINE n == Len(t.records)
  <1>1. PICK u : n \in Nat /\ Successive(t, u, n, outcome) /\ Evaluated(t, mine, outcome) = u[n]
    BY EvaluatedIs DEF Fit
  <1> HIDE DEF n
  <1> DEFINE Moved == {m \in Nat : m <= n => Moves(t, u[m])}
  <1>2. 0 \in Moved
    BY <1>1, MovesSelf DEF Successive
  <1>3. ASSUME NEW m \in Moved
        PROVE  m + 1 \in Moved
    <2>1. SUFFICES ASSUME m + 1 <= n
                   PROVE  Moves(t, u[m + 1])
      OBVIOUS
    <2>2. Moves(t, u[m])
      BY <1>1, <2>1
    <2> DEFINE s == u[m]
    <2>3. u[m + 1] = s \/ u[m + 1] = Evaluate(s, s.mistakes, m + 1, outcome)
      BY <1>1, <2>1 DEF Successive
    <2> HIDE DEF s
    <2>4. Moves(t, s) /\ Fit(s)
      BY <2>2, MovesFit DEF s
    <2>5. Moves(s, Evaluate(s, s.mistakes, m + 1, outcome))
      BY <2>4, EvaluateMoves
    <2> QED BY <2>3, <2>4, <2>5, MovesOn
  <1>4. Moved = Nat
    <2> HIDE DEF Moved
    <2> QED BY <1>2, <1>3, SetInduction DEF Moved
  <1> QED BY <1>1, <1>4

-----------------------------------------------------------------------------
(* What a request does to the path and the profiles                        *)

Grows(s, t) ==
  \A i \in DOMAIN s.records : i \in DOMAIN t.records /\ t.records[i].q = s.records[i].q

\* The tables t bear out that unit ids of the path in s is done.
Borne(s, t, ids) ==
  Unmastered(t, ids) = {} /\ Blockers(t.mistakes, ids) = {} /\ QuizDoneAt(t, ids, s.path.row)

\* What every request does but an answer on an old view.
Steady(s, t) ==
  /\ Fit(t) /\ Grows(s, t)
  /\ Sole(s) => Sole(t) /\ Done(s.path) \subseteq Done(t.path)

\* What every request on the committed tables does.
Lawful(s, t) ==
  /\ Steady(s, t)
  /\ Sole(s) /\ RowsBehind(s) =>
       /\ RowsBehind(t)
       /\ \A ids \in Done(t.path) \ Done(s.path) : Packaged(s, ids) => Borne(s, t, ids)

\* The path and the profiles are left alone.
Aside(s, t) ==
  /\ Shaped(t) /\ t.path = s.path /\ t.profiles = s.profiles /\ Grows(s, t)
  /\ Ordered(s.rel) => Ordered(t.rel)
  /\ RowsBehind(s) => RowsBehind(t)

LEMMA GrowsOn == ASSUME NEW s, NEW t, NEW u, Grows(s, t), Grows(t, u) PROVE Grows(s, u)
  BY DEF Grows

LEMMA AsideOn == ASSUME NEW s, NEW t, NEW u, Aside(s, t), Aside(t, u) PROVE Aside(s, u)
  BY GrowsOn DEF Aside

LEMMA AsideFit ==
  ASSUME NEW s, Fit(s), NEW t, Aside(s, t)
  PROVE  Fit(t) /\ (Sole(s) => Sole(t))
  <1>1. CountRows(t) /\ (Chained(s) => Chained(t)) /\ Latest(t) = Latest(s)
    BY CountsOn DEF Aside, Fit, Grows
  <1> QED BY <1>1 DEF Aside, Fit, Sole

LEMMA AsideLawful ==
  ASSUME NEW s, Fit(s), NEW t, Aside(s, t)
  PROVE  Lawful(s, t)
  <1>1. Fit(t) /\ (Sole(s) => Sole(t))
    BY AsideFit
  <1>2. Done(t.path) = Done(s.path) /\ Grows(s, t) /\ (RowsBehind(s) => RowsBehind(t))
    BY DEF Aside
  <1> QED BY <1>1, <1>2 DEF Lawful, Steady

\* Evidence is judged after the tables have changed beside the path.
LEMMA AsideMoves ==
  ASSUME NEW s, Fit(s), NEW a, Aside(s, a), NEW t, Moves(a, t)
  PROVE  Lawful(s, t)
  <1>1. Fit(a) /\ (Sole(s) => Sole(a)) /\ a.path = s.path
    BY AsideFit DEF Aside
  <1>2. Fit(t) /\ SameGrades(a, t) /\ t.mistakes = a.mistakes /\ DOMAIN a.records \subseteq Nat
    BY <1>1, MovesFit, MovesGrades
  <1>3. Grows(a, t)
    BY <1>2 DEF SameGrades, Grows
  <1>4. Grows(s, t)
    BY <1>3, GrowsOn DEF Aside
  <1>5. (Sole(s) => Sole(t)) /\ Done(s.path) \subseteq Done(t.path)
    BY <1>1 DEF Moves
  <1>6. a.path.row \in Nat /\ t.path.row \in Nat /\ a.path.row <= t.path.row
    BY <1>1, <1>2 DEF Fit, IsPath, Moves
  <1>7. ASSUME RowsBehind(s)
        PROVE  RowsBehind(t) /\ \A ids \in Done(t.path) \ Done(s.path) : Borne(s, t, ids)
    <2>1. RowsBehind(a)
      BY <1>7 DEF Aside
    <2>2. t.tasks = a.tasks /\ t.quizzes = a.quizzes
      BY <1>2 DEF SameGrades
    <2>3. \A k \in DOMAIN t.tasks : t.tasks[k].row \in 0..t.path.row
      <3>1. SUFFICES ASSUME NEW k \in DOMAIN t.tasks
                     PROVE  t.tasks[k].row \in 0..t.path.row
        OBVIOUS
      <3>2. a.tasks[k].row \in 0..a.path.row /\ t.tasks[k] = a.tasks[k]
        BY <2>1, <2>2 DEF RowsBehind
      <3> QED BY <1>6, <3>2
    <2>4. RowsBehind(t)
      BY <2>1, <2>2, <2>3 DEF RowsBehind
    <2>5. ASSUME NEW ids \in Done(t.path) \ Done(s.path)
          PROVE  Borne(s, t, ids)
      <3>1. Cleared(a, ids, a.path.row)
        BY <1>1, <2>5 DEF Moves
      <3>2. PICK row \in Nat : a.path.row <= row /\ QuizDoneAt(a, ids, row)
        BY <3>1 DEF Cleared
      <3>3. row = a.path.row
        <4>1. PICK q \in DOMAIN a.quizzes : a.tasks[a.quizzes[q].task].row = row
          BY <3>2 DEF QuizDoneAt
        <4>2. a.tasks[a.quizzes[q].task].row \in 0..a.path.row
          BY <2>1, <4>1 DEF RowsBehind
        <4> QED BY <1>6, <3>2, <4>1, <4>2
      <3>4. QuizDoneAt(t, ids, s.path.row)
        BY <1>1, <1>2, <3>2, <3>3, QuizDecided
      <3>5. Unmastered(t, ids) = {} /\ Blockers(t.mistakes, ids) = {}
        BY <1>2, <3>1, MasteryDecided DEF Cleared
      <3> QED BY <3>4, <3>5 DEF Borne
    <2> QED BY <2>4, <2>5
  <1> QED BY <1>2, <1>4, <1>5, <1>7 DEF Lawful, Steady

-----------------------------------------------------------------------------
(* Requests beside the path                                                *)

\* Only the columns named here matter to the path and the profiles.
LEMMA ColumnsAside ==
  ASSUME NEW s, NEW t, Shaped(t), t.path = s.path, t.profiles = s.profiles, t.rel = s.rel,
         t.tasks = s.tasks, Grows(s, t),
         \A a \in DOMAIN t.quizzes : a \in DOMAIN s.quizzes /\ t.quizzes[a].task = s.quizzes[a].task
  PROVE  Aside(s, t)
  BY DEF Aside, RowsBehind

LEMMA SidesAside ==
  ASSUME NEW s, NEW t, Shaped(t), t.path = s.path, t.profiles = s.profiles, t.rel = s.rel,
         t.tasks = s.tasks, t.records = s.records, t.quizzes = s.quizzes
  PROVE  Aside(s, t)
  BY ColumnsAside DEF Grows

LEMMA InvalidatedAside ==
  ASSUME NEW s, Shaped(s), NEW a \in DOMAIN s.quizzes, Shaped(Invalidated(s, a))
  PROVE  Aside(s, Invalidated(s, a))
  <1> DEFINE t == Invalidated(s, a)
             x == s.quizzes
             y == [x EXCEPT ![a].status = "invalidated"]
  <1>1. DOMAIN s = Lists \cup Others /\ Rows(x, RowFields.quizzes)
    BY ShapedRows
  <1>2. /\ t.path = s.path /\ t.profiles = s.profiles /\ t.rel = s.rel /\ t.tasks = s.tasks
        /\ t.records = s.records /\ t.quizzes = y
    BY <1>1, ListsAre DEF Invalidated, Others
  <1>3. \A b \in DOMAIN y : b \in DOMAIN x /\ y[b].task = x[b].task
    BY <1>1 DEF Rows, RowFields
  <1> HIDE DEF t, x, y
  <1>4. Grows(s, t)
    BY <1>2 DEF Grows
  <1> QED BY <1>2, <1>3, <1>4, ColumnsAside DEF t, x

LEMMA OpenQuizLawful ==
  ASSUME Fit(db), Whole(db), NEW k \in DOMAIN db.tasks, OpenQuiz(k)
  PROVE  Lawful(db, db')
  <1> DEFINE e == NewQuiz(db, k)
             x == db.quizzes
             y == Append(x, e)
             t == [db EXCEPT !.quizzes = y]
             n == Len(t.quizzes)
  <1>1. db' = t \/ db' = Invalidated(t, n)
    BY DEF OpenQuiz, Commit, CommitOn
  <1>2. DOMAIN db = Lists \cup Others /\ Rows(x, RowFields.quizzes)
    BY ShapedRows DEF Fit
  <1>3. DOMAIN e = RowFields.quizzes /\ e.task = k
    BY DEF NewQuiz, RowFields
  <1> HIDE DEF e
  <1>4. /\ Rows(y, RowFields.quizzes) /\ DOMAIN y = DOMAIN x \cup {Len(x) + 1} /\ y[Len(x) + 1] = e
        /\ \A i \in DOMAIN x : y[i] = x[i]
    BY <1>2, <1>3, RowsAppend
  <1>5. /\ t.path = db.path /\ t.profiles = db.profiles /\ t.rel = db.rel /\ t.tasks = db.tasks
        /\ t.records = db.records /\ t.quizzes = y
    <2> HIDE DEF y
    <2> QED BY <1>2, ListsAre DEF Others
  <1>6. Shaped(t)
    <2>1. Shaped(db) /\ "quizzes" \in Lists
      BY ListsAre DEF Fit
    <2> HIDE DEF y
    <2> QED BY <1>4, <2>1, ListPut
  <1> HIDE DEF t, y
  <1>7. RowsBehind(db) => RowsBehind(t)
    <2>1. ASSUME RowsBehind(db), NEW a \in DOMAIN t.quizzes
          PROVE  t.quizzes[a].task \in DOMAIN t.tasks
      <3>1. CASE a \in DOMAIN x
        BY <1>4, <1>5, <2>1, <3>1 DEF RowsBehind
      <3>2. CASE a = Len(x) + 1
        BY <1>3, <1>4, <1>5, <3>2
      <3> QED BY <1>4, <1>5, <2>1, <3>1, <3>2
    <2> QED BY <1>5, <2>1 DEF RowsBehind
  <1>8. Aside(db, t)
    BY <1>5, <1>6, <1>7 DEF Aside, Grows
  <1>9. db' = Invalidated(t, n) => Aside(t, db')
    <2>1. n \in DOMAIN t.quizzes
      <3>1. Rows(t.quizzes, RowFields.quizzes) /\ t.quizzes = y /\ Len(x) + 1 \in DOMAIN t.quizzes
        BY <1>4, <1>5
      <3>2. Len(t.quizzes) \in Nat /\ DOMAIN t.quizzes = 1..Len(t.quizzes)
        BY <3>1, RowsAre
      <3>3. Len(t.quizzes) \in DOMAIN t.quizzes
        BY <3>1, <3>2
      <3> QED BY <3>3
    <2> HIDE DEF n
    <2>2. Shaped(db')
      BY OpenQuizHolds DEF Holds, Whole
    <2> QED BY <1>6, <2>1, <2>2, InvalidatedAside
  <1>10. Aside(db, db')
    BY <1>1, <1>8, <1>9, AsideOn
  <1> QED BY <1>10, AsideLawful

-----------------------------------------------------------------------------
(* Requests that write beside the path alone                               *)

LEMMA SaveAnswerLawful ==
  ASSUME Fit(db), Shaped(db'), NEW a \in DOMAIN db.quizzes, NEW q, NEW ok, SaveAnswer(a, q, ok)
  PROVE  Lawful(db, db')
  <1> DEFINE x == db.quizzes
             m == IF ok THEN db.mistakes ELSE Upsert(db.mistakes, a, q)
             z == [x[a].answers EXCEPT ![q] = IF ok THEN "right" ELSE "wrong"]
             row == [x[a] EXCEPT !.answers = z]
             y == [x EXCEPT ![a] = row]
  <1>1. DOMAIN db = Lists \cup Others /\ Rows(x, RowFields.quizzes)
    BY ShapedRows DEF Fit
  <1>2. db' = [db EXCEPT !.quizzes = y, !.mistakes = m]
    <2>1. db' = [db EXCEPT !.quizzes[a].answers[q] = IF ok THEN "right" ELSE "wrong", !.mistakes = m]
      BY DEF SaveAnswer, Commit, CommitOn
    <2> HIDE DEF m
    <2> QED BY <2>1
  <1>3. row.task = x[a].task
    <2>1. DOMAIN x[a] = {"task", "status", "answers"}
      BY <1>1 DEF Rows, RowFields
    <2> HIDE DEF x, z
    <2> QED BY <2>1
  <1> HIDE DEF m, row, x
  <1>4. \A b \in DOMAIN y : b \in DOMAIN x /\ y[b].task = x[b].task
    BY <1>3
  <1> HIDE DEF y
  <1>5. /\ db'.path = db.path /\ db'.profiles = db.profiles /\ db'.rel = db.rel
        /\ db'.tasks = db.tasks /\ db'.records = db.records /\ db'.quizzes = y
    BY <1>1, <1>2, ListsAre DEF Others
  <1>6. Grows(db, db')
    BY <1>5 DEF Grows
  <1>7. Aside(db, db')
    BY <1>4, <1>5, <1>6, ColumnsAside DEF x
  <1> QED BY <1>7, AsideLawful

\* Columns that matter to neither the path nor the profiles
Loose == {"mistakes", "tries", "props", "signals", "bank"}

LEMMA LooseAside ==
  ASSUME NEW s, Shaped(s), NEW f \in Loose, NEW g \in Loose, NEW x, NEW y,
         NEW t, t = [s EXCEPT ![f] = x, ![g] = y], Shaped(t)
  PROVE  Aside(s, t)
  <1>1. DOMAIN s = Lists \cup Others
    BY ShapedRows
  <1>2. /\ t.path = s.path /\ t.profiles = s.profiles /\ t.rel = s.rel
        /\ t.tasks = s.tasks /\ t.records = s.records /\ t.quizzes = s.quizzes
    BY <1>1, ListsAre DEF Others, Loose
  <1> QED BY <1>2, SidesAside

LEMMA LooseOnce ==
  ASSUME NEW s, Shaped(s), NEW f \in Loose, NEW x, NEW t, t = [s EXCEPT ![f] = x], Shaped(t)
  PROVE  Aside(s, t)
  <1>1. t = [s EXCEPT ![f] = x, ![f] = x]
    OBVIOUS
  <1> QED BY <1>1, LooseAside

LEMMA RequestMasteryLawful ==
  ASSUME Fit(db), Shaped(db'), NEW v, NEW k, NEW q, RequestMastery(v, k, q)
  PROVE  Lawful(db, db')
  <1> DEFINE y == Append(db.props, Assessment(v, "mastery_up", q))
  <1>1. db' = [db EXCEPT !["props"] = y]
    BY DEF RequestMastery, CommitOn
  <1> HIDE DEF y
  <1>2. Aside(db, db')
    BY <1>1, LooseOnce DEF Loose, Fit
  <1> QED BY <1>2, AsideLawful

LEMMA TutorLawful ==
  ASSUME Fit(db), Shaped(db'), NEW k, NEW intent, Tutor(k, intent)
  PROVE  Lawful(db, db')
  <1> DEFINE sig  == Append(db.signals, intent)
             last == Len(sig)
             hypothesis == IF intent = "too_easy" THEN "mastery_up" ELSE "support_down"
             New(q) == IF q = NoQuestion THEN Proposal(db, hypothesis, q, "collecting")
                                         ELSE Assessment(db, hypothesis, q)
             More(q) == Append(db.props, New(q))
             found == Checkable(db, k, CurrentIds(db.path))
  <1>1. \/ \E x : db' = [db EXCEPT !["signals"] = x]
        \/ \E x, y : db' = [db EXCEPT !["signals"] = x, !["props"] = y]
    <2> HIDE DEF found
    <2>1. CASE Pending(db) # {} \/ last < 2
      BY <2>1 DEF Tutor, Commit, CommitOn
    <2>2. CASE ~(Pending(db) # {} \/ last < 2) /\ sig[last - 1] # intent
      BY <2>2 DEF Tutor, Commit, CommitOn
    <2>3. CASE ~(Pending(db) # {} \/ last < 2) /\ sig[last - 1] = intent
      <3>1. \E q : db' = [db EXCEPT !.signals = SubSeq(sig, 1, last - 2), !.props = More(q)]
        BY <2>3 DEF Tutor, Commit, CommitOn, found
      <3> HIDE DEF More
      <3> QED BY <3>1
    <2> QED BY <2>1, <2>2, <2>3
  <1>2. Aside(db, db')
    <2>1. {"signals", "props"} \subseteq Loose /\ Shaped(db)
      BY DEF Loose, Fit
    <2> QED BY <1>1, <2>1, LooseOnce, LooseAside
  <1> QED BY <1>2, AsideLawful

LEMMA SweptAside ==
  ASSUME NEW s, Whole(s)
  PROVE  Aside(s, Swept(s)) /\ Whole(Swept(s))
  <1> DEFINE gone == {i \in DOMAIN s.mistakes : /\ s.mistakes[i].status \in Unresolved
                                                /\ s.mistakes[i].q \notin s.bank}
             z == [i \in DOMAIN s.mistakes |->
                     IF i \in gone THEN [s.mistakes[i] EXCEPT !.status = "retired"] ELSE s.mistakes[i]]
             w == [j \in DOMAIN s.tries |->
                     IF /\ s.tries[j].status = "created" /\ s.tries[j].item \in gone
                        /\ s.mistakes[s.tries[j].item].try = j
                       THEN [s.tries[j] EXCEPT !.status = "retired"] ELSE s.tries[j]]
  <1>1. Swept(s) = [s EXCEPT !["mistakes"] = z, !["tries"] = w]
    BY DEF Swept
  <1>2. Whole(Swept(s)) /\ Shaped(Swept(s)) /\ Shaped(s)
    BY SweptHolds DEF Holds, Whole
  <1>3. {"mistakes", "tries"} \subseteq Loose
    BY DEF Loose
  <1> HIDE DEF z, w
  <1>4. Aside(s, Swept(s))
    BY <1>1, <1>2, <1>3, LooseAside
  <1> QED BY <1>2, <1>4

LEMMA ListMistakesLawful ==
  ASSUME Fit(db), Whole(db), ListMistakes
  PROVE  Lawful(db, db')
  <1>1. db' = Swept(db)
    BY DEF ListMistakes, Commit, CommitOn
  <1> QED BY <1>1, SweptAside, AsideLawful

LEMMA StartCorrectionLawful ==
  ASSUME Fit(db), Whole(db), Shaped(db'), NEW i \in DOMAIN db.mistakes, StartCorrection(i)
  PROVE  Lawful(db, db')
  <1> DEFINE t == Swept(db)
             y == Append(t.tries, NewTry(i))
             n == Len(t.tries) + 1
             m == [t.mistakes EXCEPT ![i].try = n]
             w == [m EXCEPT ![i].status = "reviewing"]
  <1>1. db' = [t EXCEPT !.tries = Append(@, NewTry(i)), !.mistakes[i].try = n,
                        !.mistakes[i].status = "reviewing"]
    BY DEF StartCorrection, Commit, CommitOn
  <1>2. Aside(db, t) /\ Whole(t)
    BY SweptAside
  <1> HIDE DEF t, n
  <1>3. DOMAIN t = Lists \cup Others /\ Shaped(t)
    BY <1>2, ShapedRows DEF Whole
  <1>4. /\ db'.path = t.path /\ db'.profiles = t.profiles /\ db'.rel = t.rel
        /\ db'.tasks = t.tasks /\ db'.records = t.records /\ db'.quizzes = t.quizzes
    <2>1. db' = [t EXCEPT !.tries = y, !.mistakes = w]
      <3> DEFINE e == NewTry(i)
      <3> HIDE DEF e
      <3>1. db' = [t EXCEPT !.tries = Append(@, e), !.mistakes[i].try = n,
                            !.mistakes[i].status = "reviewing"]
        BY <1>1 DEF e
      <3>2. y = Append(t.tries, e)
        BY DEF e
      <3> HIDE DEF y
      <3> QED BY <1>3, <3>1, <3>2, ListsAre
    <2> HIDE DEF y, w
    <2> QED BY <1>3, <2>1, ListsAre DEF Others
  <1>5. Aside(t, db')
    BY <1>4, SidesAside
  <1>6. Aside(db, db')
    BY <1>2, <1>5, AsideOn
  <1> QED BY <1>6, AsideLawful

LEMMA SkipLawful ==
  ASSUME Fit(db), Shaped(db'), NEW p \in DOMAIN db.props, Skip(p)
  PROVE  Lawful(db, db')
  <1> DEFINE y == [db.props EXCEPT ![p].status = "resource_skipped"]
  <1>1. db' = [db EXCEPT !["props"] = y]
    BY DEF Skip, Commit, CommitOn
  <1> HIDE DEF y
  <1>2. Aside(db, db')
    BY <1>1, LooseOnce DEF Loose, Fit
  <1> QED BY <1>2, AsideLawful

LEMMA DisableQuestionLawful ==
  ASSUME Fit(db), Shaped(db'), NEW q, DisableQuestion(q)
  PROVE  Lawful(db, db')
  <1> DEFINE y == db.bank \ {q}
  <1>1. db' = [db EXCEPT !["bank"] = y]
    BY DEF DisableQuestion, Edit
  <1> HIDE DEF y
  <1>2. Aside(db, db')
    BY <1>1, LooseOnce DEF Loose, Fit
  <1> QED BY <1>2, AsideLawful

-----------------------------------------------------------------------------
(* Requests whose answers are judged                                       *)

LEMMA RowsGrow ==
  ASSUME NEW F, NEW x, Rows(x, F), NEW z, Rows(z, F)
  PROVE  \A i \in DOMAIN x : i \in DOMAIN (x \o z) /\ (x \o z)[i] = x[i]
  <1> DEFINE T == {x[i] : i \in DOMAIN x} \cup {z[i] : i \in DOMAIN z}
             y == x \o z
             m == Len(x)
             n == Len(z)
  <1>1. x \in Seq(T) /\ z \in Seq(T)
    <2>1. x \in Seq({x[i] : i \in DOMAIN x}) /\ z \in Seq({z[i] : i \in DOMAIN z})
      BY RowsInSeq
    <2> QED BY <2>1, SeqMonotonic
  <1> HIDE DEF T
  <1>2. /\ y \in Seq(T) /\ Len(y) = m + n
        /\ \A i \in 1..(m + n) : y[i] = IF i <= m THEN x[i] ELSE z[i - m]
    BY <1>1, ConcatProperties
  <1> HIDE DEF y
  <1>3. m \in Nat /\ n \in Nat /\ DOMAIN x = 1..m /\ DOMAIN z = 1..n /\ DOMAIN y = 1..(m + n)
    BY <1>1, <1>2, LenProperties
  <1> HIDE DEF m, n
  <1>4. \A i \in DOMAIN x : i \in DOMAIN y /\ y[i] = x[i]
    BY <1>2, <1>3
  <1> QED BY <1>4 DEF y

LEMMA MaterializedAside ==
  ASSUME NEW s, Whole(s), NEW a \in DOMAIN s.quizzes
  PROVE  Aside(s, Materialized(s, a))
  <1> DEFINE t == Materialized(s, a)
             x == s.records
  <1>1. PICK z : Graded(s, a, z)
    BY MaterializedIs
  <1> DEFINE y == x \o z
  <1>2. t = [s EXCEPT !.records = y] /\ Rows(x, RowFields.records) /\ Rows(z, RowFields.records)
    BY <1>1, ShapedRows DEF Graded, Whole
  <1>3. DOMAIN s = Lists \cup Others /\ Shaped(t)
    BY ShapedRows, MaterializedHolds DEF Holds, Whole
  <1> HIDE DEF x, t
  <1>4. \A i \in DOMAIN x : i \in DOMAIN y /\ y[i] = x[i]
    BY <1>2, RowsGrow
  <1> HIDE DEF y
  <1>5. /\ t.path = s.path /\ t.profiles = s.profiles /\ t.rel = s.rel
        /\ t.tasks = s.tasks /\ t.quizzes = s.quizzes /\ t.records = y
    BY <1>2, <1>3, ListsAre DEF Others
  <1>6. Grows(s, t)
    BY <1>4, <1>5 DEF Grows, x
  <1>7. Aside(s, t)
    BY <1>3, <1>5, <1>6, ColumnsAside
  <1> QED BY <1>7 DEF t

LEMMA CompleteQuizLawful ==
  ASSUME Fit(db), Whole(db), NEW a \in DOMAIN db.quizzes, NEW outcome, CompleteQuiz(a, outcome)
  PROVE  Lawful(db, db')
  <1> DEFINE x == db.quizzes
             row == [db.quizzes[a] EXCEPT !.status = "completed"]
             y == [x EXCEPT ![a] = row]
             b == [db EXCEPT !.quizzes = y]
             t == Materialized(b, a)
             mine == {i \in DOMAIN t.records : /\ t.records[i].kind = "graded_quiz"
                                               /\ t.records[i].src = a}
             u == Evaluated(t, mine, outcome)
  <1>1. db' = Invalidated(db, a) \/ db' = u
    <2>1. b = [db EXCEPT !.quizzes[a].status = "completed"]
      OBVIOUS
    <2> HIDE DEF b
    <2> QED BY <2>1 DEF CompleteQuiz, Commit, CommitOn
  <1>2. /\ DOMAIN row = RowFields.quizzes /\ DOMAIN row.answers \subseteq QuizBank
        /\ row.task = x[a].task /\ \A c \in DOMAIN x : DOMAIN x[c].answers \subseteq QuizBank
    BY SideRows DEF RowFields
  <1>3. Rows(x, RowFields.quizzes) /\ DOMAIN db = Lists \cup Others
    BY ShapedRows DEF Whole
  <1> HIDE DEF row, x
  <1>4. /\ Rows(y, RowFields.quizzes) /\ DOMAIN y = DOMAIN x
        /\ \A c \in DOMAIN y : DOMAIN y[c].answers \subseteq QuizBank
        /\ \A c \in DOMAIN y : c \in DOMAIN x /\ y[c].task = x[c].task
    <2>1. /\ Rows(y, RowFields.quizzes) /\ DOMAIN y = DOMAIN x /\ y[a] = row
          /\ \A c \in DOMAIN x : c # a => y[c] = x[c]
      BY <1>2, <1>3, RowsPut DEF x
    <2> QED BY <1>2, <2>1
  <1> HIDE DEF y
  <1>5. Whole(b) /\ Shaped(b)
    BY <1>4, QuizzesPut DEF Holds, Whole
  <1>6. /\ b.path = db.path /\ b.profiles = db.profiles /\ b.rel = db.rel
        /\ b.tasks = db.tasks /\ b.quizzes = y /\ b.records = db.records
    BY <1>3, ListsAre DEF Others
  <1> HIDE DEF b
  <1>7. Aside(db, b)
    <2>1. Grows(db, b)
      BY <1>6 DEF Grows
    <2> QED BY <1>4, <1>5, <1>6, <2>1, ColumnsAside DEF x
  <1>8. Aside(b, t)
    <2>1. a \in DOMAIN b.quizzes
      BY <1>4, <1>6 DEF x
    <2> QED BY <1>5, <2>1, MaterializedAside
  <1> HIDE DEF t, mine
  <1>9. Aside(db, t)
    BY <1>7, <1>8, AsideOn
  <1>10. Moves(t, u)
    BY <1>9, AsideFit, EvaluatedMoves
  <1> HIDE DEF u
  <1>11. Lawful(db, u)
    BY <1>9, <1>10, AsideMoves
  <1>12. Lawful(db, Invalidated(db, a))
    <2>1. Shaped(Invalidated(db, a)) /\ Shaped(db)
      BY InvalidatedHolds DEF Holds, Whole
    <2>2. Aside(db, Invalidated(db, a))
      BY <2>1, InvalidatedAside
    <2> QED BY <2>2, AsideLawful
  <1> QED BY <1>1, <1>11, <1>12

LEMMA CorrectedAside ==
  ASSUME NEW t, Whole(t), NEW j \in DOMAIN t.tries, NEW ok
  PROVE  LET s == Corrected(t, j, ok) IN
         /\ Aside(t, s)
         /\ s.records[Len(s.records)].ok => \A ids : Blockers(t.mistakes, ids) = {} => Blockers(s.mistakes, ids) = {}
  <1> DEFINE s == Corrected(t, j, ok)
             i == t.tries[j].item
             x == t.records
             e == Record(t.mistakes[i].q, "mistake_correction", j, ok)
             m == [t.mistakes[i] EXCEPT !.status = IF ok THEN "consolidated" ELSE "needs_more_practice"]
             w == [t.mistakes EXCEPT ![i] = m]
  <1>1. /\ Holds(t, s) /\ Whole(s)
        /\ s.records = Append(x, e) /\ s.mistakes = w
        /\ \A g \in {"path", "profiles", "rel", "bank", "tasks", "quizzes"} : s[g] = t[g]
    BY CorrectedIs
  <1>2. /\ i \in DOMAIN t.mistakes /\ DOMAIN t.mistakes[i] = {"src", "q", "status", "try"}
        /\ Rows(x, RowFields.records)
    BY ShapedRows, SideRows DEF Whole
  <1>3. DOMAIN e = RowFields.records /\ (e.ok <=> ok)
    BY DEF Record, RowFields
  <1>4. m.q = t.mistakes[i].q /\ (ok => m.status = "consolidated")
    BY <1>2
  <1> HIDE DEF s, e, x, m, i
  <1> DEFINE y == Append(x, e)
             n == Len(x) + 1
  <1>5. /\ Rows(y, RowFields.records) /\ DOMAIN y = DOMAIN x \cup {n} /\ n \notin DOMAIN x
        /\ y[n] = e /\ \A h \in DOMAIN x : y[h] = x[h]
    BY <1>2, <1>3, RowsAppend
  <1>6. Len(y) = n
    <2>1. x \in Seq({x[h] : h \in DOMAIN x})
      BY <1>2, RowsInSeq
    <2> QED BY <2>1
  <1> HIDE DEF y, n
  <1>7. s.records = y
    BY <1>1 DEF y
  <1>8. Aside(t, s)
    <2>1. /\ s.path = t.path /\ s.profiles = t.profiles /\ s.rel = t.rel /\ s.tasks = t.tasks
          /\ s.quizzes = t.quizzes /\ Shaped(s)
      BY <1>1 DEF Whole
    <2>2. Grows(t, s)
      BY <1>5, <1>7 DEF Grows, x
    <2> QED BY <2>1, <2>2, ColumnsAside
  <1>9. ASSUME s.records[Len(s.records)].ok, NEW ids, Blockers(t.mistakes, ids) = {}
        PROVE  Blockers(s.mistakes, ids) = {}
    <2>1. m.status = "consolidated"
      <3>1. s.records[Len(s.records)] = e
        BY <1>5, <1>6, <1>7
      <3> QED BY <1>3, <1>4, <1>9, <3>1
    <2>2. SUFFICES ASSUME NEW h \in Blockers(w, ids)
                   PROVE  FALSE
      BY <1>1
    <2>3. /\ h \in DOMAIN t.mistakes /\ w[h].status \in Unresolved /\ KnowledgeOf[w[h].q] \in Core(ids)
      BY <2>2 DEF Blockers
    <2>4. h # i
      BY <1>2, <2>1, <2>3 DEF Unresolved
    <2>5. w[h] = t.mistakes[h]
      BY <2>3, <2>4
    <2> QED BY <1>9, <2>3, <2>5 DEF Blockers
  <1> QED BY <1>8, <1>9 DEF s

LEMMA AnswerCorrectionLawful ==
  ASSUME Fit(db), Whole(db), Shaped(db'), NEW j \in DOMAIN db.tries, NEW ok, NEW outcome,
         AnswerCorrection(j, ok, outcome)
  PROVE  Lawful(db, db')
  <1> DEFINE t == Swept(db)
             i == t.tries[j].item
             w == [t.mistakes EXCEPT ![i].status = "retired"]
             d == [t EXCEPT !["mistakes"] = w]
             s == Corrected(t, j, ok)
             r == Len(s.records)
             u == Evaluate(s, t.mistakes, r, outcome)
  <1>1. Aside(db, t) /\ j \in DOMAIN t.tries /\ Whole(t)
    BY SweptAside, SweptHolds
  <1>2. db' = u \/ db' = d
    <2> HIDE DEF t
    <2> USE DEF t
    <2> QED BY DEF AnswerCorrection, Corrected, Commit, CommitOn
  <1> HIDE DEF t, w
  <1>3. db' = d => Aside(db, db')
    <2>1. "mistakes" \in Loose /\ Shaped(t)
      BY <1>1 DEF Loose, Whole
    <2>2. db' = d => Aside(t, db')
      BY <2>1, LooseOnce
    <2> HIDE DEF d
    <2> QED BY <1>1, <2>2, AsideOn
  <1>4. /\ Aside(t, s)
        /\ s.records[r].ok => \A ids : Blockers(t.mistakes, ids) = {} => Blockers(s.mistakes, ids) = {}
    BY <1>1, CorrectedAside
  <1> HIDE DEF s, r, d
  <1>5. Aside(db, s) /\ Fit(s)
    BY <1>1, <1>4, AsideOn, AsideFit
  <1>6. Moves(s, u)
    BY <1>4, <1>5, EvaluateMoves
  <1> HIDE DEF u
  <1>7. Lawful(db, u)
    BY <1>5, <1>6, AsideMoves
  <1> QED BY <1>2, <1>3, <1>7, AsideLawful

-----------------------------------------------------------------------------
(* Requests on packages and on the path itself                             *)

LEMMA PathSteady ==
  ASSUME NEW s, Fit(s), NEW t, Shaped(t), IsPath(t.path), Follows(t.path),
         t.path.owner = s.path.owner, t.profiles = s.profiles, Ordered(t.rel), Grows(s, t),
         Done(s.path) \subseteq Done(t.path)
  PROVE  Steady(s, t)
  <1>1. CountRows(t) /\ (Chained(s) => Chained(t)) /\ Latest(t) = Latest(s)
    BY CountsOn DEF Fit, Grows
  <1> QED BY <1>1 DEF Steady, Fit, Sole

LEMMA FinishTaskLawful ==
  ASSUME Fit(db), Shaped(db'), NEW k \in DOMAIN db.tasks, NEW ok, FinishTask(k, ok)
  PROVE  Lawful(db, db')
  <1> DEFINE quiz == {q \in QuizBank \cap db.bank : KnowledgeOf[q] \in ToSet(db.tasks[k].node)}
             status == IF ok THEN "completed" ELSE "failed"
             own == IF ok THEN quiz ELSE {}
             z == db.tasks
             x == [z[k] EXCEPT !.status = status, !.quiz = own]
             y == [z EXCEPT ![k] = x]
  <1>1. db' = [db EXCEPT !.tasks = y]
    <2>1. db' = [db EXCEPT !.tasks[k].status = status, !.tasks[k].quiz = own]
      BY DEF FinishTask, Commit, CommitOn
    <2> HIDE DEF status, own
    <2> QED BY <2>1
  <1> HIDE DEF status, own
  <1>2. DOMAIN db = Lists \cup Others /\ Rows(z, RowFields.tasks)
    BY ShapedRows DEF Fit
  <1>3. x.row = z[k].row
    <2>1. DOMAIN z[k] = {"node", "row", "prop", "status", "quiz"}
      BY <1>2 DEF Rows, RowFields
    <2> HIDE DEF z
    <2> QED BY <2>1
  <1> HIDE DEF z, x
  <1>4. DOMAIN y = DOMAIN z /\ \A i \in DOMAIN y : y[i].row = z[i].row
    BY <1>3
  <1> HIDE DEF y
  <1>5. /\ db'.path = db.path /\ db'.profiles = db.profiles /\ db'.rel = db.rel
        /\ db'.records = db.records /\ db'.quizzes = db.quizzes /\ db'.tasks = y
    BY <1>1, <1>2, ListsAre DEF Others
  <1>6. RowsBehind(db) => RowsBehind(db')
    BY <1>4, <1>5 DEF RowsBehind, z
  <1>7. Aside(db, db')
    BY <1>5, <1>6 DEF Aside, Grows
  <1> QED BY <1>7, AsideLawful

\* A package is added for the row of the path.
LEMMA TaskBehind ==
  ASSUME NEW s, Shaped(s), IsPath(s.path), NEW t, t.path.row = s.path.row, t.quizzes = s.quizzes,
         NEW e, e.row = s.path.row, t.tasks = Append(s.tasks, e), DOMAIN e = RowFields.tasks
  PROVE  RowsBehind(s) => RowsBehind(t)
  <1> DEFINE z == s.tasks
             y == Append(z, e)
             n == Len(z) + 1
  <1>1. Rows(z, RowFields.tasks)
    BY ShapedRows
  <1> HIDE DEF z
  <1>2. DOMAIN y = DOMAIN z \cup {n} /\ y[n] = e /\ \A i \in DOMAIN z : y[i] = z[i]
    BY <1>1, RowsAppend
  <1> HIDE DEF y, n
  <1>3. t.tasks = y /\ s.path.row \in 0..s.path.row
    BY DEF y, z, IsPath
  <1> QED BY <1>2, <1>3 DEF RowsBehind, z

LEMMA GenerateLawful ==
  ASSUME Fit(db), Shaped(db'), NEW v, NEW p \in DOMAIN db.props, Generate(v, p)
  PROVE  Steady(db, db') /\ (v = db => Lawful(db, db'))
  <1> DEFINE e == NewTask(v.path, p)
             x == [db.props EXCEPT ![p].status = "stale"]
             y == [[db.props EXCEPT ![p].task = Len(db.tasks) + 1] EXCEPT ![p].status = "resource_started"]
             z == Append(db.tasks, e)
  <1>1. db' = [db EXCEPT !.props = x] \/ db' = [db EXCEPT !.tasks = z, !.props = y]
    <2>1. CASE v.path.status # "active" \/ CurrentIds(v.path) # db.props[p].target
      BY <2>1 DEF Generate, CommitOn
    <2>2. CASE ~(v.path.status # "active" \/ CurrentIds(v.path) # db.props[p].target)
      <3> DEFINE n == Len(db.tasks) + 1
      <3>1. db' = [db EXCEPT !.tasks = z, !.props[p].task = n, !.props[p].status = "resource_started"]
        BY <2>2 DEF Generate, CommitOn
      <3> HIDE DEF z, n
      <3>2. db' = [db EXCEPT !.tasks = z,
                             !.props = [[db.props EXCEPT ![p].task = n] EXCEPT ![p].status = "resource_started"]]
        BY <3>1
      <3> QED BY <3>2 DEF n
    <2> QED BY <2>1, <2>2
  <1>2. DOMAIN db = Lists \cup Others /\ Shaped(db)
    BY ShapedRows DEF Fit
  <1>3. DOMAIN e = RowFields.tasks /\ e.row = v.path.row
    BY DEF NewTask, RowFields
  <1> HIDE DEF x, y, z, e
  <1>4. /\ db'.path = db.path /\ db'.profiles = db.profiles /\ db'.rel = db.rel
        /\ db'.records = db.records /\ db'.quizzes = db.quizzes
        /\ db'.tasks = db.tasks \/ db'.tasks = z
    BY <1>1, <1>2, ListsAre DEF Others
  <1>5. Steady(db, db')
    BY <1>4, PathSteady DEF Fit, Grows
  <1>6. ASSUME v = db
        PROVE  Aside(db, db')
    <2>1. RowsBehind(db) => RowsBehind(db')
      <3>1. CASE db'.tasks = db.tasks
        BY <1>4, <3>1 DEF RowsBehind
      <3>2. CASE db'.tasks = z
        <4>1. /\ IsPath(db.path) /\ db'.path.row = db.path.row /\ db'.quizzes = db.quizzes
              /\ e.row = db.path.row /\ db'.tasks = Append(db.tasks, e) /\ DOMAIN e = RowFields.tasks
          BY <1>3, <1>4, <1>6, <3>2 DEF z, Fit
        <4> QED BY ONLY <1>2, <4>1, TaskBehind
      <3> QED BY <1>4, <3>1, <3>2
    <2> QED BY <1>4, <2>1 DEF Aside, Grows
  <1> QED BY <1>5, <1>6, AsideLawful

LEMMA CreateTaskLawful ==
  ASSUME Fit(db), Shaped(db'), CreateTask
  PROVE  Lawful(db, db')
  <1> DEFINE path == Normalize(db.path, db.rel)
             e == NewTask(path, 0)
             z == Append(db.tasks, e)
  <1>1. db' = [db EXCEPT !.path = path, !.tasks = z]
    BY DEF CreateTask, Commit, CommitOn
  <1>2. DOMAIN e = RowFields.tasks /\ e.row = path.row
    BY DEF NewTask, RowFields
  <1>3. /\ IsPath(path) /\ Done(path) = Done(db.path) /\ Follows(path)
        /\ path.row = db.path.row /\ path.owner = db.path.owner
    BY NormalizeIs DEF Fit, Ordered
  <1>4. DOMAIN db = Lists \cup Others /\ Shaped(db)
    BY ShapedRows DEF Fit
  <1> HIDE DEF path, e, z
  <1>5. /\ db'.path = path /\ db'.profiles = db.profiles /\ db'.rel = db.rel
        /\ db'.records = db.records /\ db'.quizzes = db.quizzes /\ db'.tasks = z
    BY <1>1, <1>4, ListsAre DEF Others
  <1>6. Steady(db, db')
    BY <1>3, <1>5, PathSteady DEF Fit, Grows
  <1>7. RowsBehind(db) => RowsBehind(db')
    <2>1. /\ IsPath(db.path) /\ db'.path.row = db.path.row /\ db'.quizzes = db.quizzes
          /\ e.row = db.path.row /\ db'.tasks = Append(db.tasks, e) /\ DOMAIN e = RowFields.tasks
      BY <1>2, <1>3, <1>5 DEF z, Fit
    <2> QED BY ONLY <1>4, <2>1, TaskBehind
  <1>8. Done(db'.path) \ Done(db.path) = {}
    BY <1>3, <1>5
  <1> QED BY <1>6, <1>7, <1>8 DEF Lawful

\* A path in place of another on the same row
LEMMA PathPlaced ==
  ASSUME Fit(db), NEW path, IsPath(path), path.row = db.path.row, db' = [db EXCEPT !.path = path]
  PROVE  /\ db'.path = path /\ db'.profiles = db.profiles /\ db'.rel = db.rel
         /\ db'.mistakes = db.mistakes /\ SameGrades(db, db') /\ Grows(db, db')
         /\ RowsBehind(db) => RowsBehind(db')
  <1>1. DOMAIN db = Lists \cup Others
    BY ShapedRows DEF Fit
  <1>2. /\ db'.path = path /\ db'.profiles = db.profiles /\ db'.rel = db.rel /\ db'.bank = db.bank
        /\ db'.records = db.records /\ db'.quizzes = db.quizzes /\ db'.tasks = db.tasks
        /\ db'.mistakes = db.mistakes
    BY <1>1, ListsAre DEF Others
  <1> QED BY <1>2 DEF SameGrades, Grows, RowsBehind

LEMMA VerifyNodeLawful ==
  ASSUME Fit(db), Shaped(db'), VerifyNode
  PROVE  Lawful(db, db')
  <1> DEFINE path == Normalize(db.path, db.rel)
  <1>1. db' = [db EXCEPT !.path = path]
    BY DEF VerifyNode, Commit, CommitOn
  <1>2. /\ IsPath(path) /\ Done(path) = Done(db.path) /\ Follows(path)
        /\ path.row = db.path.row /\ path.owner = db.path.owner
    BY NormalizeIs DEF Fit, Ordered
  <1> HIDE DEF path
  <1>3. /\ db'.path = path /\ db'.profiles = db.profiles /\ db'.rel = db.rel /\ Grows(db, db')
        /\ RowsBehind(db) => RowsBehind(db')
    BY <1>1, <1>2, PathPlaced
  <1>4. Steady(db, db')
    BY <1>2, <1>3, PathSteady DEF Fit
  <1>5. Done(db'.path) \ Done(db.path) = {}
    BY <1>2, <1>3
  <1> QED BY <1>3, <1>4, <1>5 DEF Lawful

LEMMA CompleteNodeLawful ==
  ASSUME Fit(db), Shaped(db'), CompleteNode
  PROVE  Lawful(db, db')
  <1> DEFINE path == Normalize(db.path, db.rel)
             ids  == CurrentIds(path)
             t    == [db EXCEPT !.path = path]
             next == Advance(path, ids, db.rel)
  <1>1. /\ db' = [db EXCEPT !.path = next]
        /\ Packaged(db, ids) => GateOpen(t, ids)
    BY DEF CompleteNode, Commit, CommitOn
  <1>2. /\ IsPath(path) /\ Done(path) = Done(db.path)
        /\ path.row = db.path.row /\ path.owner = db.path.owner
    BY NormalizeIs DEF Fit, Ordered
  <1> HIDE DEF path
  <1>3. /\ IsPath(next) /\ Follows(next) /\ next.row = db.path.row /\ next.owner = db.path.owner
        /\ Done(db.path) \subseteq Done(next) /\ Done(next) \subseteq Done(db.path) \cup {ids}
    BY <1>2, AdvanceIs DEF Fit
  <1> HIDE DEF next, ids
  <1>4. /\ db'.path = next /\ db'.profiles = db.profiles /\ db'.rel = db.rel /\ Grows(db, db')
        /\ RowsBehind(db) => RowsBehind(db')
        /\ db'.mistakes = db.mistakes /\ SameGrades(db, db')
    BY <1>1, <1>3, PathPlaced
  <1>5. Steady(db, db')
    BY <1>3, <1>4, PathSteady DEF Fit
  <1>6. ASSUME Packaged(db, ids)
        PROVE  Borne(db, db', ids)
    <2>1. GateOpen(t, ids)
      BY <1>1, <1>6
    <2>2. SameGrades(t, db') /\ t.mistakes = db.mistakes /\ t.path = path
          /\ DOMAIN t.records \subseteq Nat
      <3>1. DOMAIN db = Lists \cup Others
        BY ShapedRows DEF Fit
      <3>2. t.mistakes = db.mistakes /\ t.path = path /\ SameGrades(db, t) /\ t.records = db.records
        BY <3>1, ListsAre DEF Others, SameGrades
      <3>3. DOMAIN db.records \subseteq Nat
        BY MovesSelf, MovesGrades
      <3> HIDE DEF t
      <3> QED BY <1>4, <3>2, <3>3 DEF SameGrades
    <2> HIDE DEF t
    <2>3. Unmastered(t, ids) = {} /\ Blockers(t.mistakes, ids) = {} /\ QuizDone(t, ids)
      BY <2>1 DEF GateOpen
    <2>4. Unmastered(db', ids) = {}
      BY <2>2, <2>3, MasteryDecided
    <2>5. QuizDoneAt(db', ids, db.path.row)
      <3>1. QuizDoneAt(t, ids, t.path.row)
        BY <2>3, QuizAt
      <3> QED BY <1>2, <2>2, <3>1, QuizDecided
    <2> QED BY <1>4, <2>2, <2>3, <2>4, <2>5 DEF Borne
  <1>7. \A x \in Done(db'.path) \ Done(db.path) : Packaged(db, x) => Borne(db, db', x)
    BY <1>3, <1>4, <1>6
  <1> QED BY <1>4, <1>5, <1>7 DEF Lawful

-----------------------------------------------------------------------------
(* The catalog changes                                                     *)

LEMMA AcyclicLess ==
  ASSUME NEW F, Acyclic(F), NEW E \in SUBSET F
  PROVE  Acyclic(E)
  <1>1. UNION Ends(E) \subseteq UNION Ends(F)
    BY DEF Ends
  <1>2. SUFFICES ASSUME NEW S \in SUBSET UNION Ends(E), S # {}
                 PROVE  \E x \in S : \A e \in E : e[2] = x => e[1] \notin S
    BY DEF Acyclic
  <1>3. S \in SUBSET UNION Ends(F)
    BY <1>1
  <1>4. PICK x \in S : \A e \in F : e[2] = x => e[1] \notin S
    BY <1>2, <1>3 DEF Acyclic
  <1> QED BY <1>4

\* The prerequisites among the relations R are pairs of B.
Within(R, B) == \A r \in R : r.type = "prerequisite" => <<r.from, r.to>> \in B

LEMMA WithinLess ==
  ASSUME NEW B, NEW R, Within(R, B), NEW Q \in SUBSET R
  PROVE  Within(Q, B)
  BY DEF Within

LEMMA DecidedWithin ==
  ASSUME NEW B, NEW pairs, \A pair \in pairs : \A k, x \in pair : <<k, x>> \in B,
         NEW R \in Decided(pairs)
  PROVE  Within(R, B)
  <1> DEFINE types == {"prerequisite", "depends_on", "next_step", "related_to"}
             Answers(pair) == {{}} \cup
               {{Relation(k, x, type, "model")} : k \in pair, x \in pair, type \in types}
             all == UNION {Answers(pair) : pair \in pairs}
  <1>1. PICK f \in [pairs -> all] : /\ \A pair \in pairs : f[pair] \in Answers(pair)
                                    /\ R = UNION {f[pair] : pair \in pairs}
    <2>1. R \in {UNION {f[pair] : pair \in pairs} :
                   f \in {g \in [pairs -> all] : \A pair \in pairs : g[pair] \in Answers(pair)}}
      BY DEF Decided
    <2> HIDE DEF Answers, all
    <2> QED BY <2>1
  <1>2. ASSUME NEW r \in R, r.type = "prerequisite"
        PROVE  <<r.from, r.to>> \in B
    <2>1. PICK pair \in pairs : r \in f[pair]
      BY <1>1
    <2>2. f[pair] \in Answers(pair)
      BY <1>1
    <2>3. PICK k \in pair, x \in pair, type \in types : r = Relation(k, x, type, "model")
      BY <2>1, <2>2
    <2>4. r.from = k /\ r.to = x
      BY <2>3 DEF Relation
    <2> QED BY <2>4
  <1> QED BY <1>2 DEF Within

LEMMA RepairsAre ==
  ASSUME NEW doc, NEW R, NEW B
  PROVE  Within(Repairs(doc, R), B)
  <1>1. \A p : Relation(p[1], p[2], "next_step", "rule").type = "next_step"
    BY DEF Relation
  <1>2. \A r \in Repairs(doc, R) : r.type = "next_step"
    BY <1>1, Zenon DEF Repairs
  <1> QED BY <1>2 DEF Within

LEMMA RepairedWithin ==
  ASSUME NEW doc, NEW R, NEW B, Within(R, B), NEW Q \in Repaired(doc, R)
  PROVE  Within(Q, B)
  <1>1. Q = R \/ Q \in Pruned(Persisted(R, Repairs(doc, R)))
    BY DEF Repaired
  <1>2. Within(Persisted(R, Repairs(doc, R)), B)
    <2>1. Within(Repairs(doc, R), B)
      BY RepairsAre
    <2> QED BY <2>1 DEF Within, Persisted
  <1>3. Pruned(Persisted(R, Repairs(doc, R))) \subseteq SUBSET Persisted(R, Repairs(doc, R))
    BY DEF Pruned
  <1> QED BY <1>1, <1>2, <1>3, WithinLess

LEMMA AskedWithin ==
  ASSUME NEW doc, NEW E, NEW pair \in Asked(doc, E), NEW k \in pair, NEW x \in pair
  PROVE  <<k, x>> \in Items(doc) \X Items(doc)
  <1>1. pair \subseteq Items(doc)
    BY DEF Asked
  <1> QED BY <1>1

LEMMA DraftsWithin ==
  ASSUME NEW doc, NEW B, \A p \in doc.stated : <<p[1], p[2]>> \in B, Items(doc) \X Items(doc) \subseteq B,
         NEW R \in Drafts(doc)
  PROVE  Within(R, B)
  <1> DEFINE planned == {{Relation(e[1], e[2], "next_step", "rule") : e \in E} : E \in Curricula(doc)}
             read(P)   == UNION {Reviewed(F) : F \in Decided(Asked(doc, Edges(P)))}
             first     == UNION {UNION {Pruned(Persisted(Persisted(Stated(doc), P), F)) : F \in read(P)} : P \in planned}
             second    == UNION {Repaired(doc, Q) : Q \in first}
             third     == UNION {Repaired(doc, Q) : Q \in second}
  <1>1. Within(Stated(doc), B)
    <2>1. \A p : Relation(p[1], p[2], "prerequisite", "document").from = p[1]
               /\ Relation(p[1], p[2], "prerequisite", "document").to = p[2]
      BY DEF Relation
    <2>2. ASSUME NEW r \in Stated(doc)
          PROVE  <<r.from, r.to>> \in B
      <3>1. PICK p \in doc.stated : r = Relation(p[1], p[2], "prerequisite", "document")
        BY DEF Stated
      <3>2. r.from = p[1] /\ r.to = p[2]
        BY <2>1, <3>1
      <3> QED BY <3>2
    <2> QED BY <2>2 DEF Within
  <1>2. R \in IF ~doc.models THEN {Stated(doc)} ELSE third
    BY DEF Drafts
  <1>3. \A P \in planned : Within(P, B)
    <2>1. \A p : Relation(p[1], p[2], "next_step", "rule").type = "next_step"
      BY DEF Relation
    <2> QED BY <2>1 DEF Within
  <1>4. \A P : \A F \in read(P) : Within(F, B)
    <2>1. SUFFICES ASSUME NEW P, NEW F \in read(P)
                   PROVE  Within(F, B)
      OBVIOUS
    <2>2. PICK G \in Decided(Asked(doc, Edges(P))) : F \in Reviewed(G)
      BY <2>1
    <2>3. \A pair \in Asked(doc, Edges(P)) : \A k, x \in pair : <<k, x>> \in B
      BY AskedWithin
    <2>4. Within(G, B)
      BY <2>3, DecidedWithin
    <2> QED BY <2>2, <2>4, WithinLess DEF Reviewed
  <1>5. \A Q \in first : Within(Q, B)
    <2>1. SUFFICES ASSUME NEW Q \in first
                   PROVE  Within(Q, B)
      OBVIOUS
    <2> HIDE DEF planned, read
    <2>0. PICK P \in planned :
                Q \in UNION {Pruned(Persisted(Persisted(Stated(doc), P), F)) : F \in read(P)}
      BY <2>1
    <2>2. PICK F \in read(P) : Q \in Pruned(Persisted(Persisted(Stated(doc), P), F))
      BY <2>0
    <2>3. Q \subseteq Persisted(Persisted(Stated(doc), P), F)
      BY <2>2 DEF Pruned
    <2>4. Q \subseteq Stated(doc) \cup P \cup F
      BY <2>3 DEF Persisted
    <2>5. Within(P, B) /\ Within(F, B)
      BY <1>3, <1>4, <2>0, <2>2
    <2> QED BY <1>1, <2>4, <2>5 DEF Within
  <1> HIDE DEF first
  <1>6. \A Q \in second : Within(Q, B)
    BY <1>5, RepairedWithin
  <1> HIDE DEF second
  <1>7. \A Q \in third : Within(Q, B)
    BY <1>6, RepairedWithin
  <1> HIDE DEF third
  <1> QED BY <1>1, <1>2, <1>7

\* The prerequisites of a proposal are some of its edges, and finitely many.
LEMMA ProposalPairs ==
  ASSUME NEW doc, IsFiniteSet(doc.stated), IsList(doc.order), NEW catalog, NEW tagsOf,
         NEW g \in Proposals(doc, catalog, tagsOf)
  PROVE  g.pairs \subseteq g.edges /\ IsFiniteSet(g.pairs)
  <1> DEFINE Prior(R) == {<<r.from, r.to>> : r \in {x \in R : x.type = "prerequisite"}}
             named == {<<p[1], p[2]>> : p \in doc.stated}
             B == named \cup (Items(doc) \X Items(doc))
  <1>1. PICK c \in Drafts(doc) \X Links(doc, catalog, tagsOf) :
               g = [edges |-> Edges(c[1] \cup c[2]), pairs |-> Prior(c[1])]
    BY DEF Proposals
  <1>2. c[1] \in Drafts(doc) /\ g.edges = Edges(c[1] \cup c[2]) /\ g.pairs = Prior(c[1])
    BY <1>1
  <1>3. Prior(c[1]) \subseteq Edges(c[1] \cup c[2])
    <2>1. SUFFICES ASSUME NEW r \in c[1], r.type = "prerequisite"
                   PROVE  <<r.from, r.to>> \in Edges(c[1] \cup c[2])
      OBVIOUS
    <2> QED BY <2>1 DEF Edges
  <1>4. Prior(c[1]) \subseteq B
    <2>1. Within(c[1], B)
      BY <1>2, DraftsWithin
    <2> QED BY <2>1 DEF Within
  <1>5. IsFiniteSet(B)
    <2>1. IsFiniteSet(Items(doc))
      BY ListFinite DEF Items
    <2> DEFINE f == [p \in doc.stated |-> <<p[1], p[2]>>]
    <2>2. f \in Surjection(doc.stated, named)
      BY DEF Surjection
    <2>3. IsFiniteSet(named)
      BY <2>2, FS_Surjection
    <2> HIDE DEF named
    <2> QED BY <2>1, <2>3, FS_Product, FS_Union
  <1> HIDE DEF Prior, B
  <1>6. IsFiniteSet(g.pairs)
    BY <1>2, <1>4, <1>5, FS_Subset
  <1> QED BY <1>2, <1>3, <1>6

\* The catalog and the bank change, and nothing else.
LEMMA CatalogAside ==
  ASSUME NEW s, Shaped(s), NEW rel, Ordered(rel), NEW bank,
         NEW t, t = [s EXCEPT !.rel = rel, !.bank = bank], Shaped(t)
  PROVE  Aside(s, t)
  <1>1. DOMAIN s = Lists \cup Others
    BY ShapedRows
  <1>2. /\ t.path = s.path /\ t.profiles = s.profiles /\ t.rel = rel
        /\ t.tasks = s.tasks /\ t.records = s.records /\ t.quizzes = s.quizzes
    BY <1>1, ListsAre DEF Others
  <1> QED BY <1>2 DEF Aside, Grows, RowsBehind

LEMMA PublishDocumentLawful ==
  ASSUME Fit(db), Shaped(db'), NEW d \in Documents, PublishDocument(d)
  PROVE  Lawful(db, db')
  <1>1. PICK g \in ProposalsOf[d] :
               /\ \E rel \in {db.rel, db.rel \ Rewritten} : Projectable(g, rel)
               /\ Edit([db EXCEPT !.rel = @ \cup g.pairs, !.bank = Kept(@, Items(d))])
    BY DEF PublishDocument
  <1>2. g.pairs \subseteq g.edges /\ IsFiniteSet(g.pairs)
    <2>1. g \in Proposals(d, DOMAIN TagsOf, TagsOf)
      BY <1>1 DEF ProposalsOf
    <2> QED BY <2>1, CatalogAssumption, ProposalPairs
  <1> DEFINE rel == db.rel \cup g.pairs
             bank == Kept(db.bank, Items(d))
  <1>3. db' = [db EXCEPT !.rel = rel, !.bank = bank]
    BY <1>1 DEF Edit
  <1>4. Ordered(rel)
    <2>1. IsFiniteSet(db.rel) /\ Acyclic(db.rel \ Rewritten)
      BY DEF Fit, Ordered
    <2>2. PICK now \in {db.rel, db.rel \ Rewritten} : Acyclic(g.edges \cup now)
      BY <1>1 DEF Projectable
    <2>3. rel \ Rewritten \subseteq g.edges \cup now
      BY <1>2
    <2>4. Acyclic(rel \ Rewritten)
      BY <2>2, <2>3, AcyclicLess
    <2>5. IsFiniteSet(rel)
      BY <1>2, <2>1, FS_Union
    <2> QED BY <2>4, <2>5 DEF Ordered
  <1> HIDE DEF rel, bank
  <1>5. Aside(db, db')
    BY <1>3, <1>4, CatalogAside DEF Fit
  <1> QED BY <1>5, AsideLawful

LEMMA RewriteItemLawful ==
  ASSUME Fit(db), Shaped(db'), NEW w \in Rewrites, RewriteItem(w.item, w.needs)
  PROVE  Lawful(db, db')
  <1> DEFINE more == {<<k, w.item>> : k \in w.needs}
             rel == {r \in db.rel : r[2] # w.item} \cup more
             bank == Kept(db.bank, {w.item})
  <1>1. db' = [db EXCEPT !.rel = rel, !.bank = bank]
    BY DEF RewriteItem, Edit
  <1>2. Ordered(rel)
    <2>1. IsFiniteSet(db.rel) /\ Acyclic(db.rel \ Rewritten)
      BY DEF Fit, Ordered
    <2>2. more \subseteq Rewritten
      BY DEF Rewritten
    <2>3. rel \ Rewritten \subseteq db.rel \ Rewritten
      BY <2>2
    <2>4. IsFiniteSet(more)
      <3>1. IsFiniteSet(w.needs) /\ IsFiniteSet({w.item})
        BY CatalogAssumption, FS_Singleton
      <3>2. more \subseteq w.needs \X {w.item}
        OBVIOUS
      <3> QED BY <3>1, <3>2, FS_Product, FS_Subset
    <2>5. IsFiniteSet(rel)
      <3>1. {r \in db.rel : r[2] # w.item} \subseteq db.rel
        OBVIOUS
      <3> HIDE DEF more
      <3> QED BY <2>1, <2>4, <3>1, FS_Subset, FS_Union
    <2> QED BY <2>1, <2>3, <2>5, AcyclicLess DEF Ordered
  <1> HIDE DEF rel, bank
  <1>3. Aside(db, db')
    BY <1>1, <1>2, CatalogAside DEF Fit
  <1> QED BY <1>3, AsideLawful

-----------------------------------------------------------------------------
(* The answer to a check                                                   *)

\* The tables of v with the records of s as a request on v reads them
ReadAs(t, v, s) ==
  /\ DOMAIN t = Lists \cup Others
  /\ DOMAIN t.records = DOMAIN s.records
  /\ \A i \in DOMAIN s.records : t.records[i].q = s.records[i].q
  /\ \A f \in Lists \cup Others : f # "records" => t[f] = v[f]
  /\ DOMAIN s.records = DOMAIN v.records \cup {Len(v.records) + 1} =>
       \A i \in DOMAIN s.records : t.records[i] = s.records[i]

LEMMA ReadingIs ==
  ASSUME NEW v, Shaped(v), NEW s, Shaped(s)
  PROVE  ReadAs(Reading(v, s), v, s)
  <1> DEFINE unseen(i) == [s.records[i] EXCEPT !.kind = "unseen"]
             y == [i \in DOMAIN s.records |->
                     IF i <= Len(v.records) \/ i = Len(s.records) THEN s.records[i] ELSE unseen(i)]
             t == Reading(v, s)
  <1>1. t = [v EXCEPT !.records = y]
    BY DEF Reading
  <1>2. DOMAIN v = Lists \cup Others /\ "records" \in Lists
    BY ShapedRows, ListsAre
  <1>3. \A i \in DOMAIN s.records : y[i].q = s.records[i].q
    <2>1. TAKE i \in DOMAIN s.records
    <2>2. DOMAIN s.records[i] = {"q", "kind", "src", "ok", "gov", "by"}
      BY RecordRow
    <2>3. unseen(i).q = s.records[i].q
      BY <2>2
    <2> HIDE DEF unseen
    <2> QED BY <2>3
  <1> HIDE DEF unseen
  <1>4. ASSUME DOMAIN s.records = DOMAIN v.records \cup {Len(v.records) + 1}
        PROVE  \A i \in DOMAIN s.records : y[i] = s.records[i]
    <2> DEFINE m == Len(v.records)
    <2>1. DOMAIN v.records = 1..m /\ m \in Nat
      BY ShapedRows, RowsAre
    <2> HIDE DEF m
    <2>2. DOMAIN s.records = 1..Len(s.records) /\ Len(s.records) \in Nat
      BY ShapedRows, RowsAre
    <2>3. \A i \in DOMAIN s.records : i <= m \/ i = m + 1
      BY <1>4, <2>1 DEF m
    <2>4. Len(s.records) = m + 1
      <3>1. m + 1 \in 1..Len(s.records) /\ Len(s.records) \in 1..(m + 1)
        <4>1. 1..Len(s.records) = 1..m \cup {m + 1}
          BY <1>4, <2>1, <2>2 DEF m
        <4>2. 1..m \cup {m + 1} = 1..(m + 1)
          BY <2>1
        <4>3. 1..Len(s.records) = 1..(m + 1)
          BY <4>1, <4>2
        <4>4. Len(s.records) # 0
          BY <2>1, <4>3
        <4> QED BY <2>1, <2>2, <4>3, <4>4
      <3> QED BY <2>1, <2>2, <3>1
    <2> QED BY <2>3, <2>4 DEF m
  <1> HIDE DEF y
  <1>5. DOMAIN y = DOMAIN s.records
    BY DEF y
  <1>6. DOMAIN t = Lists \cup Others /\ t.records = y /\ \A f \in Lists \cup Others : f # "records" => t[f] = v[f]
    BY <1>1, <1>2
  <1> HIDE DEF t
  <1> QED BY <1>3, <1>4, <1>5, <1>6 DEF t, ReadAs

\* The tables that are the same but for the decision p.
LEMMA NotedMoves ==
  ASSUME NEW s, Fit(s), NEW p \in DOMAIN s.props, NEW x, DOMAIN x = PropFields,
         x.q = s.props[p].q, x.task = s.props[p].task, x.status # "pending_validation"
  PROVE  LET t == [s EXCEPT !.props[p] = x] IN Moves(s, t) /\ Rest(s, t) /\ t.records = s.records
  <1> DEFINE t == [s EXCEPT !.props[p] = x]
             y == [s.props EXCEPT ![p] = x]
  <1>1. Keeps(s, t)
    BY PropWritten DEF Fit
  <1>2. t = [s EXCEPT !.props = y]
    OBVIOUS
  <1> HIDE DEF t, y
  <1> QED BY <1>1, <1>2, PropsMove DEF t

\* A confirmed assessment on the tables s, seen as t: the decision is noted, and the path
\* that comes of t's is written.
Noted(s, t, p, u, q) ==
  /\ \E c : /\ Moves(s, c) /\ Rest(s, c) /\ c.records = s.records
            /\ u = c \/ u = [c EXCEPT !.path = q]
  /\ \E next, affected, match :
       /\ next = t.path \/ (Leaves(t, p) /\ next = Advance(t.path, CurrentIds(t.path), t.rel))
       /\ q = Reordered(next, affected, match)

LEMMA SettledIs ==
  ASSUME NEW s, Fit(s), NEW t, NEW p \in DOMAIN s.props, NEW k, NEW revise
  PROVE  \E q : Noted(s, t, p, Settled(s, t, p, k, revise), q)
  <1> DEFINE ids  == CurrentIds(t.path)
             go   == Leaves(t, p)
             next == IF go THEN Advance(t.path, ids, t.rel) ELSE t.path
             affected == {k} \cup Unmastered(t, ids)
             x == [s.props[p] EXCEPT !.status = "evidence_recorded"]
             a == Recommend(s, p, next, affected, go)
             b == [s EXCEPT !.props[p] = x]
             c == IF revise THEN a ELSE b
             match == c.props[p].match
             q == Reordered(next, affected, match)
             u == Settled(s, t, p, k, revise)
  <1>1. u = Written(c, p, t.path, next, affected)
    <2>1. [s EXCEPT !.props[p].status = "evidence_recorded"] = b
      OBVIOUS
    <2> HIDE DEF b
    <2> QED BY <2>1 DEF Settled
  <1>2. next = t.path \/ (Leaves(t, p) /\ next = Advance(t.path, CurrentIds(t.path), t.rel))
    OBVIOUS
  <1> HIDE DEF go, next, affected
  <1>3. Moves(s, a) /\ Rest(s, a) /\ a.records = s.records
    BY RecommendMoves
  <1> HIDE DEF a
  <1>4. Moves(s, b) /\ Rest(s, b) /\ b.records = s.records
    <2>1. DOMAIN s.props[p] = {"node", "row", "hypothesis", "q", "status", "match", "target",
                               "task"}
      BY PropRow DEF Fit
    <2>2. /\ DOMAIN x = PropFields /\ x.q = s.props[p].q /\ x.task = s.props[p].task
          /\ x.status # "pending_validation"
      BY <2>1 DEF PropFields, RowFields
    <2> HIDE DEF x
    <2> QED BY <2>2, NotedMoves
  <1> HIDE DEF b
  <1>5. Moves(s, c) /\ Rest(s, c) /\ c.records = s.records
    BY <1>3, <1>4
  <1> HIDE DEF c, u
  <1>6. u = c \/ u = [c EXCEPT !.path = q]
    <2> HIDE DEF match
    <2> DEFINE d == [c EXCEPT !.path = q]
    <2> HIDE DEF d, q
    <2>1. Written(c, p, t.path, next, affected) = IF q # t.path /\ q.row = c.path.row THEN d ELSE c
      BY DEF Written, d, q, match
    <2> QED BY <1>1, <2>1 DEF d
  <1> HIDE DEF match
  <1>7. Noted(s, t, p, u, q)
    BY <1>2, <1>5, <1>6 DEF Noted
  <1> HIDE DEF q
  <1> QED BY <1>7 DEF u

\* The path that comes of the path of t
LEMMA NotedPath ==
  ASSUME NEW s, NEW t, IsPath(t.path), Follows(t.path), Ordered(t.rel), NEW p, NEW u, NEW q,
         Noted(s, t, p, u, q)
  PROVE  /\ IsPath(q) /\ Follows(q) /\ q.row = t.path.row /\ q.owner = t.path.owner
         /\ Done(t.path) \subseteq Done(q)
         /\ \A ids \in Done(q) \ Done(t.path) : GateOpen(t, ids)
  <1> DEFINE own == CurrentIds(t.path)
             far == Advance(t.path, own, t.rel)
  <1>1. PICK next, affected, match :
             /\ next = t.path \/ (Leaves(t, p) /\ next = far)
             /\ q = Reordered(next, affected, match)
    BY DEF Noted
  <1>2. /\ IsPath(far) /\ Follows(far) /\ far.row = t.path.row /\ far.owner = t.path.owner
        /\ Done(t.path) \subseteq Done(far) /\ Done(far) \subseteq Done(t.path) \cup {own}
    BY AdvanceIs
  <1>3. Leaves(t, p) => GateOpen(t, own)
    BY DEF Leaves
  <1> HIDE DEF far, own
  <1>4. /\ IsPath(next) /\ Follows(next) /\ next.row = t.path.row /\ next.owner = t.path.owner
        /\ Done(t.path) \subseteq Done(next)
        /\ \A ids \in Done(next) \ Done(t.path) : GateOpen(t, ids)
    BY <1>1, <1>2, <1>3
  <1>5. /\ IsPath(q) /\ Follows(q) /\ Done(q) = Done(next) /\ q.row = next.row /\ q.owner = next.owner
    BY <1>1, <1>4, ReorderedIs
  <1> QED BY <1>4, <1>5

LEMMA NotedFit ==
  ASSUME NEW s, Fit(s), NEW t, IsPath(t.path), Follows(t.path), Ordered(t.rel), NEW p, NEW u, NEW q,
         Noted(s, t, p, u, q)
  PROVE  Fit(u) /\ Keeps(s, u)
  <1>1. PICK c : /\ Moves(s, c) /\ Rest(s, c) /\ c.records = s.records
                 /\ u = c \/ u = [c EXCEPT !.path = q]
    BY DEF Noted
  <1>2. Fit(c) /\ Keeps(s, c)
    BY <1>1, MovesFit DEF Moves
  <1>3. IsPath(q) /\ Follows(q)
    BY NotedPath
  <1> DEFINE d == [c EXCEPT !["path"] = q]
  <1>4. Shaped(c) /\ DOMAIN c = Lists \cup Others /\ "path" \in Others
    BY <1>2, ShapedRows DEF Fit, Others
  <1>5. Keeps(c, d)
    BY <1>4, OtherKeeps
  <1>6. /\ d.path = q /\ d.rel = c.rel /\ d.profiles = c.profiles /\ d.records = c.records
    BY <1>4, ListsAre DEF Others
  <1>7. u = c \/ u = d
    BY <1>1
  <1> HIDE DEF d
  <1>8. Fit(d)
    <2>1. \A i \in DOMAIN c.records : i \in DOMAIN d.records /\ d.records[i].q = c.records[i].q
      BY <1>6
    <2>2. CountRows(d)
      BY <1>2, <1>6, <2>1, CountsOn DEF Fit
    <2> QED BY <1>2, <1>3, <1>5, <1>6, <2>2 DEF Fit, Keeps
  <1> QED BY <1>2, <1>5, <1>7, <1>8, KeepsOn

\* Tables with the units and the grades of others
Likewise(s, t) ==
  /\ t.path.units = s.path.units /\ t.path.rel = s.path.rel
  /\ t.path.row = s.path.row /\ t.path.owner = s.path.owner
  /\ SameGrades(s, t) /\ t.mistakes = s.mistakes

LEMMA NotedMovesOn ==
  ASSUME NEW s, Fit(s), NEW t, IsPath(t.path), Follows(t.path), Ordered(t.rel), Likewise(s, t),
         NEW p, NEW u, NEW q, Noted(s, t, p, u, q)
  PROVE  Moves(s, u)
  <1>1. PICK c : /\ Moves(s, c) /\ Rest(s, c) /\ c.records = s.records
                 /\ u = c \/ u = [c EXCEPT !.path = q]
    BY DEF Noted
  <1>2. /\ IsPath(q) /\ Follows(q) /\ q.row = t.path.row /\ q.owner = t.path.owner
        /\ Done(t.path) \subseteq Done(q)
        /\ \A ids \in Done(q) \ Done(t.path) : GateOpen(t, ids)
    BY NotedPath
  <1>3. Done(t.path) = Done(s.path)
    BY UnitsAlone DEF Likewise, Fit
  <1>4. \A ids \in Done(q) \ Done(s.path) : Cleared(s, ids, s.path.row)
    <2>1. TAKE ids \in Done(q) \ Done(s.path)
    <2>2. GateOpen(t, ids) /\ SameGrades(s, t) /\ t.path.row = s.path.row
          /\ (Blockers(t.mistakes, ids) = {} => Blockers(s.mistakes, ids) = {})
      BY <1>2, <1>3 DEF Likewise
    <2> QED BY <2>2, GateClears
  <1>5. /\ Fit(c) /\ c.path = s.path
        /\ \A ids \in Done(q) \ Done(c.path) : Cleared(c, ids, c.path.row)
    BY <1>1, <1>4, MovesFit, ClearedOn DEF Rest
  <1> DEFINE d == [c EXCEPT !.path = q]
  <1>6. q.row = c.path.row /\ q.owner = c.path.owner /\ Done(c.path) \subseteq Done(q)
    BY <1>2, <1>3, <1>5 DEF Likewise
  <1>7. Moves(c, d)
    <2>1. d = [c EXCEPT !.path = q]
      OBVIOUS
    <2> HIDE DEF d
    <2> QED BY ONLY <1>2, <1>5, <1>6, <2>1, PathMoves
  <1> HIDE DEF d
  <1>8. Moves(s, d)
    BY <1>1, <1>5, <1>7, MovesOn
  <1> QED BY <1>1, <1>8 DEF d

\* What the analysis leaves on the tables s, whoever reads the path and the profiles of v
\* with the records of s.
LEMMA AnalysedFit ==
  ASSUME NEW s, Fit(s), NEW v, Fit(v), Grows(v, s), NEW t, t = Reading(v, s),
         NEW evidence, NEW revised \in BOOLEAN, NEW u, u = Analyze(s, v, t, Latest(v), evidence, revised)
  PROVE  /\ Fit(u) /\ Keeps(s, u) /\ u.rel = s.rel /\ u.bank = s.bank
         /\ \A i \in DOMAIN s.records : u.records[i].ok = s.records[i].ok
         /\ u.path.row = s.path.row => u.path.units = s.path.units /\ u.path.rel = s.path.rel
  <1> DEFINE p == Latest(v)
             new == Len(s.profiles) + 1
             next == CountedNext(t, p, evidence)
             more == IF revised THEN Append(s.profiles, [prev |-> p, counted |-> next])
                                ELSE [s.profiles EXCEPT ![p].counted = next]
             path == IF revised THEN Rehome(s, v, p, new) ELSE s.path
  <1>1. /\ DOMAIN t.records = DOMAIN s.records
        /\ \A i \in DOMAIN s.records : t.records[i].q = s.records[i].q
        /\ t.profiles = v.profiles
    <2>1. "profiles" \in Lists \cup Others
      BY DEF Others
    <2> QED BY <2>1, ReadingIs DEF Fit, ReadAs
  <1>2. CountRows(t) /\ p \in DOMAIN t.profiles
    <2>1. \A i \in DOMAIN v.records : i \in DOMAIN t.records /\ t.records[i].q = v.records[i].q
      BY <1>1 DEF Grows
    <2>2. CountRows(t)
      BY <1>1, <2>1, CountsOn DEF Fit
    <2> QED BY <1>1, <2>2, LatestIn DEF Fit
  <1>3. Shaped(s) /\ CountRows(s) /\ IsPath(s.path) /\ Follows(s.path) /\ Ordered(s.rel) /\ Ordered(v.rel)
    BY DEF Fit
  <1>4. Keeps(s, u)
    BY <1>3, AnalyzeKeeps
  <1>5. Analysed(s, u, more, path)
    <2> HIDE DEF p, next
    <2> QED BY <1>3, AnalyzeIs DEF next, p
  <1>6. CountRows(u)
    <2> HIDE DEF p
    <2>1. LET w == Analyze(s, v, t, p, evidence, revised) IN CountRows(w)
      BY <1>1, <1>2, <1>3, AnalyzeCounts
    <2> QED BY <2>1 DEF p
  <1>7. /\ IsPath(path) /\ Follows(path)
        /\ path.row = s.path.row => path.units = s.path.units /\ path.rel = s.path.rel
    <2>1. CASE revised
      <3> DEFINE q == Rehome(s, v, p, new)
      <3>1. /\ IsPath(q) /\ Follows(q)
            /\ q.row = s.path.row => q.units = s.path.units /\ q.rel = s.path.rel
        <4> HIDE DEF p, new
        <4> QED BY <1>3, RehomeIs
      <3>2. path = q
        BY <2>1
      <3> HIDE DEF q, path
      <3> QED BY <3>1, <3>2
    <2>2. CASE ~revised
      BY <1>3, <2>2
    <2> QED BY <2>1, <2>2
  <1> HIDE DEF path, more
  <1>8. /\ u.path = path /\ u.rel = s.rel /\ u.bank = s.bank
        /\ \A i \in DOMAIN s.records : u.records[i].ok = s.records[i].ok
    BY <1>5 DEF Analysed
  <1> QED BY <1>3, <1>4, <1>6, <1>7, <1>8 DEF Fit, Keeps

LEMMA SeenIs ==
  ASSUME NEW v, Fit(v), NEW s, Fit(s), NEW t, t = Seen(v, s)
  PROVE  /\ IsPath(t.path) /\ Follows(t.path) /\ Ordered(t.rel)
         /\ s.path.row # db.path.row => t.path = s.path
         /\ s.path.row = db.path.row =>
              /\ t.path.units = v.path.units /\ t.path.rel = v.path.rel
              /\ t.path.row = v.path.row /\ t.path.owner = s.path.owner
         /\ \A f \in Lists \cup Others : f \notin {"records", "path"} => t[f] = v[f]
         /\ DOMAIN t.records = DOMAIN s.records
         /\ DOMAIN s.records = DOMAIN v.records \cup {Len(v.records) + 1} =>
              \A i \in DOMAIN s.records : t.records[i] = s.records[i]
  <1> DEFINE r == Reading(v, s)
             y == [v.path EXCEPT !.owner = s.path.owner]
             x == IF s.path.row # db.path.row THEN s.path ELSE y
  <1>1. t = [r EXCEPT !.path = x]
    BY DEF Seen
  <1>2. /\ DOMAIN r = Lists \cup Others
        /\ DOMAIN r.records = DOMAIN s.records
        /\ \A f \in Lists \cup Others : f # "records" => r[f] = v[f]
        /\ DOMAIN s.records = DOMAIN v.records \cup {Len(v.records) + 1} =>
              \A i \in DOMAIN s.records : r.records[i] = s.records[i]
    <2>1. Shaped(v) /\ Shaped(s)
      BY DEF Fit
    <2>2. ReadAs(r, v, s)
      BY <2>1, ReadingIs
    <2> QED BY <2>2 DEF ReadAs
  <1>3. "path" \in Others /\ "rel" \in Others /\ "records" \in Lists /\ "path" # "records"
    BY ListsAre DEF Others
  <1> HIDE DEF r, x
  <1>4. /\ t.path = x /\ t.records = r.records
        /\ \A f \in Lists \cup Others : f \notin {"records", "path"} => t[f] = v[f]
    BY <1>1, <1>2, <1>3
  <1>5. /\ IsPath(y) /\ Follows(y) /\ y.units = v.path.units /\ y.rel = v.path.rel
        /\ y.row = v.path.row /\ y.owner = s.path.owner
    <2>1. IsPath(v.path) /\ Follows(v.path) /\ DOMAIN v.path = PathFields
      BY DEF Fit, IsPath, PathFields
    <2>2. /\ y.units = v.path.units /\ y.rel = v.path.rel /\ y.order = v.path.order
          /\ y.row = v.path.row /\ y.owner = s.path.owner /\ DOMAIN y = PathFields
      BY <2>1 DEF PathFields
    <2>3. IsList(y.order) /\ y.row \in Nat
      BY <2>1, <2>2 DEF IsPath
    <2> HIDE DEF y
    <2> QED BY <2>1, <2>2, <2>3, UnitsAlone
  <1> HIDE DEF y
  <1>6. IsPath(x) /\ Follows(x)
    BY <1>5 DEF x, Fit
  <1>7. Ordered(t.rel)
    BY <1>3, <1>4 DEF Fit
  <1> QED BY <1>2, <1>4, <1>5, <1>6, <1>7 DEF x

\* A confirmed answer, on the tables s with its record: the evidence used is analysed and
\* the assessment p settled.
Decides(v, s, used, k, p, revise) ==
  LET u == Analyze(s, v, Reading(v, s), Latest(v), used, revise) IN
  /\ Aside(db, s) /\ p \in DOMAIN s.props
  /\ DOMAIN s.records = DOMAIN db.records \cup {Len(db.records) + 1}
  /\ s.bank = db.bank /\ s.quizzes = db.quizzes /\ s.tasks = db.tasks
  /\ s.mistakes = db.mistakes /\ s.rel = db.rel
  /\ db' = Settled(u, Seen(v, u), p, k, revise)

LEMMA AnswerAssessmentIs ==
  ASSUME Fit(db), NEW v, NEW p \in DOMAIN db.props, NEW ok, NEW revise,
         AnswerAssessment(v, p, ok, revise)
  PROVE  Aside(db, db') \/ \E s, used, k : Decides(v, s, used, k, p, revise)
  <1> DEFINE q    == v.props[p].q
             k    == KnowledgeOf[q]
             e    == Record(q, "path_validation", p, ok)
             b    == [db EXCEPT !.records = Append(@, e)]
             s0   == [db EXCEPT !.records = Append(@, e), !.signals = <<>>]
             t0   == Reading(v, s0)
             confirmed == Confirms(t0, CurrentIds(v.path), v.props[p].hypothesis, k, ok)
             used == IF v.props[p].hypothesis = "mastery_up" THEN Evidence(t0, k)
                                                             ELSE {Len(s0.records)}
             s1   == Analyze(s0, v, t0, Latest(v), used, revise)
             t1   == Seen(v, s1)
             x    == [s0.props[p] EXCEPT !.status = IF ok THEN "evidence_recorded" ELSE "rejected"]
             c    == [s0 EXCEPT !.props[p] = x]
             n    == Len(db.records) + 1
  <1>1. db' = IF confirmed THEN Settled(s1, t1, p, k, revise) ELSE c
    <2>1. [s0 EXCEPT !.props[p].status = IF ok THEN "evidence_recorded" ELSE "rejected"] = c
      <3> HIDE DEF s0
      <3> QED OBVIOUS
    <2>2. db' = IF confirmed THEN Settled(s1, t1, p, k, revise)
                ELSE [s0 EXCEPT !.props[p].status = IF ok THEN "evidence_recorded" ELSE "rejected"]
      BY DEF AnswerAssessment, CommitOn, Basis
    <2> HIDE DEF s0, c, s1, t1, confirmed
    <2> QED BY <2>1, <2>2
  <1>b. s0 = [b EXCEPT !["signals"] = <<>>]
    <2>1. DOMAIN db = Lists \cup Others
      BY ShapedRows DEF Fit
    <2> HIDE DEF e
    <2> QED BY <2>1, ListsAre DEF Others
  <1>3. DOMAIN e = RecordFields
    BY DEF Record, RecordFields, RowFields
  <1> HIDE DEF q, e, confirmed, k
  <1>4. /\ Shaped(b) /\ DOMAIN b.records = DOMAIN db.records \cup {n}
        /\ \A i \in DOMAIN db.records : b.records[i] = db.records[i] /\ i < n
        /\ \A g \in Lists \cup Others : g # "records" => b[g] = db[g]
    <2>1. Shaped(db)
      BY DEF Fit
    <2> QED BY <1>3, <2>1, RecordAdded
  <1> HIDE DEF b, n
  <1>5. /\ Shaped(s0) /\ s0.records = b.records
        /\ \A g \in Lists \cup Others : g \notin {"records", "signals"} => s0[g] = db[g]
    <2>1. "signals" \in Others /\ "records" \in Lists /\ "signals" # "records"
      BY ListsAre DEF Others
    <2>2. Shaped(s0) /\ \A g \in Lists \cup Others : g # "signals" => s0[g] = b[g]
      <3>1. Keeps(b, [b EXCEPT !["signals"] = <<>>])
        BY <1>4, <2>1, OtherKeeps
      <3> HIDE DEF s0
      <3>2. DOMAIN b = Lists \cup Others
        BY <1>4, ShapedRows
      <3>3. \A g \in Lists \cup Others : g # "signals" => s0[g] = b[g]
        BY <1>b, <3>2
      <3> QED BY <1>b, <3>1, <3>3 DEF Keeps
    <2> HIDE DEF s0
    <2> QED BY <1>4, <2>1, <2>2
  <1> HIDE DEF s0
  <1>6. /\ s0.path = db.path /\ s0.profiles = db.profiles /\ s0.rel = db.rel /\ s0.bank = db.bank
        /\ s0.quizzes = db.quizzes /\ s0.tasks = db.tasks /\ s0.mistakes = db.mistakes
        /\ s0.props = db.props
    BY <1>5, ListsAre DEF Others
  <1>7. Grows(db, s0) /\ DOMAIN s0.records = DOMAIN db.records \cup {Len(db.records) + 1}
    BY <1>4, <1>5 DEF Grows, n
  <1>8. Aside(db, s0)
    BY <1>5, <1>6, <1>7, ColumnsAside
  <1>9. Aside(s0, c)
    <2>1. DOMAIN s0.props[p] = {"node", "row", "hypothesis", "q", "status", "match", "target",
                                "task"} /\ p \in DOMAIN s0.props
      BY <1>5, <1>6, PropRow
    <2>2. DOMAIN x = PropFields
      BY <2>1 DEF PropFields, RowFields
    <2> HIDE DEF x
    <2>3. Shaped(c) /\ \A g \in Lists \cup Others : g # "props" => c[g] = s0[g]
      BY <1>5, <2>1, <2>2, PropPut
    <2> HIDE DEF c
    <2>4. /\ c.path = s0.path /\ c.profiles = s0.profiles /\ c.rel = s0.rel
          /\ c.quizzes = s0.quizzes /\ c.tasks = s0.tasks /\ c.records = s0.records
      BY <2>3, ListsAre DEF Others
    <2> QED BY <2>3, <2>4, SidesAside
  <1> HIDE DEF c
  <1>10. db' = Settled(s1, t1, p, k, revise) => Decides(v, s0, used, k, p, revise)
    <2> HIDE DEF used
    <2> QED BY <1>6, <1>7, <1>8 DEF Decides
  <1> HIDE DEF used, s1, t1, t0
  <1>11. db' = c => Aside(db, db')
    BY <1>8, <1>9, AsideOn
  <1> QED BY <1>1, <1>10, <1>11

\* Whatever view an answer is judged on, the path stays in order and nothing is counted
\* too early.
LEMMA DecidesFit ==
  ASSUME Fit(db), NEW v, Fit(v), Grows(v, db), NEW s, NEW used, NEW k, NEW p, NEW revise \in BOOLEAN,
         Decides(v, s, used, k, p, revise)
  PROVE  Fit(db') /\ Grows(db, db')
  <1> DEFINE r == Reading(v, s)
             u == Analyze(s, v, r, Latest(v), used, revise)
             t == Seen(v, u)
  <1>1. Aside(db, s) /\ p \in DOMAIN s.props /\ db' = Settled(u, t, p, k, revise)
    BY DEF Decides
  <1>2. Fit(s) /\ Grows(v, s) /\ Grows(db, s)
    BY <1>1, AsideFit, GrowsOn DEF Aside
  <1>3. Fit(u) /\ Keeps(s, u)
    <2> HIDE DEF u, r
    <2> QED BY <1>2, AnalysedFit DEF u, r
  <1> HIDE DEF u
  <1>4. IsPath(t.path) /\ Follows(t.path) /\ Ordered(t.rel)
    <2> HIDE DEF t
    <2> QED BY <1>3, SeenIs DEF t
  <1> HIDE DEF t
  <1>5. p \in DOMAIN u.props
    BY <1>1, <1>3 DEF Keeps
  <1>6. PICK q : Noted(u, t, p, db', q)
    BY <1>1, <1>3, <1>5, SettledIs
  <1>7. Fit(db') /\ Keeps(u, db')
    BY <1>3, <1>4, <1>6, NotedFit
  <1>8. Keeps(s, db')
    BY <1>3, <1>7, KeepsOn
  <1>9. Grows(s, db')
    BY <1>8 DEF Keeps, Grows
  <1> QED BY <1>2, <1>7, <1>9, GrowsOn

\* Judged on the committed tables, it also keeps one history and passes the gate.
LEMMA DecidesLawful ==
  ASSUME Fit(db), Sole(db), NEW s, NEW used, NEW k, NEW p, NEW revise \in BOOLEAN,
         Decides(db, s, used, k, p, revise)
  PROVE  Lawful(db, db')
  <1> DEFINE r == Reading(db, s)
             u == Analyze(s, db, r, Latest(db), used, revise)
             t == Seen(db, u)
             n == Len(db.records) + 1
  <1>1. /\ Aside(db, s) /\ p \in DOMAIN s.props /\ db' = Settled(u, t, p, k, revise)
        /\ DOMAIN s.records = DOMAIN db.records \cup {n}
        /\ s.bank = db.bank /\ s.quizzes = db.quizzes /\ s.tasks = db.tasks
        /\ s.mistakes = db.mistakes /\ s.rel = db.rel
    BY DEF Decides
  <1>2. Fit(s) /\ Sole(s) /\ s.path = db.path /\ s.profiles = db.profiles
        /\ Grows(db, s) /\ Latest(s) = Latest(db)
    BY <1>1, AsideFit DEF Aside, Latest
  <1>3. ReadAs(r, db, s)
    BY <1>2, ReadingIs DEF Fit
  <1>4. /\ Fit(u) /\ Keeps(s, u) /\ u.rel = s.rel /\ u.bank = s.bank
        /\ \A i \in DOMAIN s.records : u.records[i].ok = s.records[i].ok
        /\ u.path.row = s.path.row => u.path.units = s.path.units /\ u.path.rel = s.path.rel
    <2> HIDE DEF u, r
    <2> QED BY <1>2, AnalysedFit DEF u, r
  <1>5. Moves(s, u)
    <2> DEFINE w == Analyze(s, r, r, Latest(s), used, revise)
    <2>1. r.path = db.path /\ r.profiles = db.profiles /\ r.rel = db.rel
          /\ DOMAIN r.records = DOMAIN s.records
          /\ \A i \in DOMAIN s.records : r.records[i].q = s.records[i].q
      BY <1>3 DEF ReadAs, Others
    <2> HIDE DEF r
    <2>2. CountRows(r) /\ Ordered(r.rel)
      <3>1. \A i \in DOMAIN db.records : i \in DOMAIN r.records /\ r.records[i].q = db.records[i].q
        BY <1>2, <2>1 DEF Grows
      <3> QED BY <2>1, <3>1, CountsOn DEF Fit
    <2>3. s.path.owner = Latest(s) /\ r.path = s.path /\ r.profiles = s.profiles
      BY <1>2, <2>1 DEF Sole
    <2>4. Moves(s, w)
      <3>1. LET z == Analyze(s, r, r, Latest(s), used, revise)
            IN Moves(s, z) /\ z.path.owner = Latest(z)
        BY <1>2, <2>1, <2>2, <2>3, AnalyzeMoves
      <3> QED BY <3>1
    <2>5. \A x, y : Rehome(s, r, x, y) = Rehome(s, db, x, y)
      BY <2>1, Zenon DEF Rehome
    <2>6. u = w
      BY <1>2, <2>5, Zenon DEF Analyze
    <2> HIDE DEF u, w
    <2> QED BY <2>4, <2>6
  <1> HIDE DEF u, r
  <1>6. /\ IsPath(t.path) /\ Follows(t.path) /\ Ordered(t.rel)
        /\ u.path.row # db.path.row => t.path = u.path
        /\ u.path.row = db.path.row =>
             /\ t.path.units = db.path.units /\ t.path.rel = db.path.rel
             /\ t.path.row = db.path.row /\ t.path.owner = u.path.owner
        /\ \A f \in Lists \cup Others : f \notin {"records", "path"} => t[f] = db[f]
        /\ DOMAIN t.records = DOMAIN u.records
        /\ DOMAIN u.records = DOMAIN db.records \cup {n} =>
              \A i \in DOMAIN u.records : t.records[i] = u.records[i]
    <2> HIDE DEF t, n
    <2> QED BY <1>4, SeenIs DEF t, n
  <1> HIDE DEF t, n
  <1>7. Likewise(u, t)
    <2>1. DOMAIN u.records = DOMAIN s.records /\ u.quizzes = s.quizzes /\ u.tasks = s.tasks
          /\ u.mistakes = s.mistakes
      BY <1>4 DEF Keeps
    <2>2. t.bank = db.bank /\ t.quizzes = db.quizzes /\ t.tasks = db.tasks /\ t.mistakes = db.mistakes
      BY <1>6, ListsAre DEF Others
    <2>3. SameGrades(u, t) /\ t.mistakes = u.mistakes
      BY <1>1, <1>4, <1>6, <2>1, <2>2 DEF SameGrades
    <2>4. /\ t.path.units = u.path.units /\ t.path.rel = u.path.rel
          /\ t.path.row = u.path.row /\ t.path.owner = u.path.owner
      BY <1>2, <1>4, <1>6
    <2> QED BY <2>3, <2>4 DEF Likewise
  <1>8. p \in DOMAIN u.props
    BY <1>1, <1>4 DEF Keeps
  <1>9. PICK q : Noted(u, t, p, db', q)
    BY <1>1, <1>4, <1>8, SettledIs
  <1>10. Moves(u, db')
    BY <1>4, <1>6, <1>7, <1>9, NotedMovesOn
  <1>11. Moves(s, db')
    BY <1>2, <1>5, <1>10, MovesOn
  <1> QED BY <1>1, <1>11, AsideMoves

-----------------------------------------------------------------------------
(* The invariant of the path and the profiles                              *)

\* The tables and those before the last commit are in order, the profiles are one history
\* that the path follows, and no package is for a row that is yet to come.
PathInv ==
  /\ Fit(db) /\ Fit(before) /\ Grows(before, db)
  /\ "AnswerAssessment" \notin late => Sole(db)
  /\ late = {} => RowsBehind(db)

\* What every step does
Proceeds ==
  /\ Fit(db') /\ Grows(db, db') /\ before' = db /\ late \subseteq late'
  /\ "AnswerAssessment" \notin late' => Steady(db, db')
  /\ late' = {} => Lawful(db, db')

LEMMA LawfulProceeds ==
  ASSUME Lawful(db, db'), before' = db, late \subseteq late'
  PROVE  Proceeds
  BY DEF Lawful, Steady, Proceeds

LEMMA ProceedsNext ==
  ASSUME PathInv, Proceeds
  PROVE  PathInv'
  <1>1. Fit(db') /\ Fit(before') /\ Grows(before', db')
    BY DEF PathInv, Proceeds
  <1>2. "AnswerAssessment" \notin late' => Sole(db')
    BY DEF PathInv, Proceeds, Steady
  <1>3. late' = {} => RowsBehind(db')
    BY DEF PathInv, Proceeds, Lawful
  <1> QED BY <1>1, <1>2, <1>3 DEF PathInv

LEMMA AnswerProceeds ==
  ASSUME PathInv, NEW v \in {db, before}, NEW p \in DOMAIN db.props, NEW ok, NEW r \in BOOLEAN,
         AnswerAssessment(v, p, ok, r)
  PROVE  Proceeds
  <1>1. /\ before' = db /\ late \subseteq late'
        /\ v # db => "AnswerAssessment" \in late'
    BY DEF AnswerAssessment, CommitOn
  <1>2. Fit(db) /\ Fit(v) /\ Grows(v, db)
    BY DEF PathInv, Grows
  <1>3. Aside(db, db') \/ \E s, used, k : Decides(v, s, used, k, p, r)
    BY <1>2, AnswerAssessmentIs
  <1>4. CASE Aside(db, db')
    BY <1>1, <1>2, <1>4, AsideLawful, LawfulProceeds
  <1>5. ASSUME NEW s, NEW used, NEW k, Decides(v, s, used, k, p, r)
        PROVE  Proceeds
    <2>1. Fit(db') /\ Grows(db, db')
      BY <1>2, <1>5, DecidesFit
    <2>2. "AnswerAssessment" \notin late' => Lawful(db, db')
      <3>1. SUFFICES ASSUME "AnswerAssessment" \notin late'
                     PROVE  Lawful(db, db')
        OBVIOUS
      <3>2. v = db /\ Sole(db)
        BY <1>1, <3>1 DEF PathInv
      <3> QED BY <1>2, <1>5, <3>2, DecidesLawful
    <2> QED BY <1>1, <2>1, <2>2 DEF Proceeds, Lawful
  <1> QED BY <1>3, <1>4, <1>5

LEMMA RequestProceeds ==
  ASSUME PathInv, Whole(db), Shaped(db'), Request
  PROVE  Proceeds
  <1>1. Fit(db)
    BY DEF PathInv
  <1>2. ASSUME NEW t, Commit(t)
        PROVE  before' = db /\ late \subseteq late'
    BY <1>2 DEF Commit, CommitOn
  <1>3. ASSUME NEW k \in DOMAIN db.tasks, OpenQuiz(k)
        PROVE  Proceeds
    BY <1>1, <1>2, <1>3, OpenQuizLawful, LawfulProceeds DEF OpenQuiz
  <1>4. ASSUME NEW a \in DOMAIN db.quizzes, NEW q \in QuizBank, NEW ok \in BOOLEAN, SaveAnswer(a, q, ok)
        PROVE  Proceeds
    BY <1>1, <1>2, <1>4, SaveAnswerLawful, LawfulProceeds DEF SaveAnswer
  <1>5. ASSUME NEW a \in DOMAIN db.quizzes, NEW o \in Outcomes, CompleteQuiz(a, o)
        PROVE  Proceeds
    <2>1. \E t : Commit(t)
      BY <1>5 DEF CompleteQuiz
    <2> QED BY <1>1, <1>2, <1>5, <2>1, CompleteQuizLawful, LawfulProceeds
  <1>6. ASSUME NEW v \in Views, NEW k \in DOMAIN db.tasks, NEW q \in CheckBank, RequestMastery(v, k, q)
        PROVE  Proceeds
    <2>1. before' = db /\ late \subseteq late'
      BY <1>6 DEF RequestMastery, CommitOn
    <2> QED BY <1>1, <1>6, <2>1, RequestMasteryLawful, LawfulProceeds
  <1>7. ASSUME NEW k \in DOMAIN db.tasks, NEW i \in {"too_easy", "too_hard"}, Tutor(k, i)
        PROVE  Proceeds
    <2>1. \E t : Commit(t)
      BY <1>7 DEF Tutor
    <2> QED BY <1>1, <1>2, <1>7, <2>1, TutorLawful, LawfulProceeds
  <1>8. ASSUME NEW v \in Views, NEW p \in DOMAIN db.props, NEW ok \in BOOLEAN, NEW r \in BOOLEAN,
               AnswerAssessment(v, p, ok, r)
        PROVE  Proceeds
    BY <1>8, ViewsAre, AnswerProceeds
  <1>9. CASE ListMistakes
    BY <1>1, <1>2, <1>9, ListMistakesLawful, LawfulProceeds DEF ListMistakes
  <1>10. ASSUME NEW i \in DOMAIN db.mistakes, StartCorrection(i)
         PROVE  Proceeds
    <2>1. \E t : Commit(t)
      BY <1>10 DEF StartCorrection
    <2> QED BY <1>1, <1>2, <1>10, <2>1, StartCorrectionLawful, LawfulProceeds
  <1>11. ASSUME NEW j \in DOMAIN db.tries, NEW ok \in BOOLEAN, NEW o \in Outcomes,
                AnswerCorrection(j, ok, o)
         PROVE  Proceeds
    <2>1. \E t : Commit(t)
      BY <1>11 DEF AnswerCorrection
    <2> QED BY <1>1, <1>2, <1>11, <2>1, AnswerCorrectionLawful, LawfulProceeds
  <1>12. CASE VerifyNode
    BY <1>1, <1>2, <1>12, VerifyNodeLawful, LawfulProceeds DEF VerifyNode
  <1>13. CASE CompleteNode
    <2>1. \E t : Commit(t)
      BY <1>13 DEF CompleteNode
    <2> QED BY <1>1, <1>2, <1>13, <2>1, CompleteNodeLawful, LawfulProceeds
  <1>14. ASSUME NEW p \in DOMAIN db.props, Skip(p)
         PROVE  Proceeds
    BY <1>1, <1>2, <1>14, SkipLawful, LawfulProceeds DEF Skip
  <1>15. ASSUME NEW v \in Views, NEW p \in DOMAIN db.props, Generate(v, p)
         PROVE  Proceeds
    <2>1. before' = db /\ late \subseteq late' /\ (v # db => late' # {})
      BY <1>15 DEF Generate, CommitOn
    <2>2. Steady(db, db') /\ (v = db => Lawful(db, db'))
      BY <1>1, <1>15, GenerateLawful
    <2> QED BY <2>1, <2>2 DEF Proceeds, Steady
  <1>16. CASE CreateTask
    <2>1. \E t : Commit(t)
      BY <1>16 DEF CreateTask
    <2> QED BY <1>1, <1>2, <1>16, <2>1, CreateTaskLawful, LawfulProceeds
  <1>17. ASSUME NEW k \in DOMAIN db.tasks, NEW ok \in BOOLEAN, FinishTask(k, ok)
         PROVE  Proceeds
    <2>1. \E t : Commit(t)
      BY <1>17 DEF FinishTask
    <2> QED BY <1>1, <1>2, <1>17, <2>1, FinishTaskLawful, LawfulProceeds
  <1> QED BY <1>3, <1>4, <1>5, <1>6, <1>7, <1>8, <1>9, <1>10, <1>11, <1>12, <1>13, <1>14, <1>15, <1>16,
             <1>17 DEF Request

LEMMA NextProceeds ==
  ASSUME PathInv, IInv, IInv', Next
  PROVE  Proceeds
  <1>1. Whole(db) /\ Shaped(db') /\ Fit(db)
    BY DEF IInv, Whole, PathInv
  <1>2. CASE Request
    BY <1>1, <1>2, RequestProceeds
  <1>3. CASE \/ \E q \in Questions : DisableQuestion(q)
             \/ \E d \in Documents : PublishDocument(d)
             \/ \E w \in Rewrites : RewriteItem(w.item, w.needs)
    <2>1. before' = db /\ late' = late
      BY <1>1, <1>3, EditsHold
    <2>2. Lawful(db, db')
      BY <1>1, <1>3, DisableQuestionLawful, PublishDocumentLawful, RewriteItemLawful
    <2> QED BY <2>1, <2>2, LawfulProceeds
  <1> QED BY <1>2, <1>3 DEF Next

LEMMA PathStep == PathInv /\ IInv /\ IInv' /\ [Next]_vars => PathInv'
  <1> SUFFICES ASSUME PathInv, IInv, IInv', [Next]_vars PROVE PathInv'
    OBVIOUS
  <1>1. CASE Next
    BY <1>1, NextProceeds, ProceedsNext
  <1>2. CASE UNCHANGED vars
    BY <1>2 DEF vars, PathInv
  <1> QED BY <1>1, <1>2

-----------------------------------------------------------------------------
(* The tables at the start                                                 *)

LEMMA BegunFits == Fit(Begun) /\ Sole(Begun) /\ RowsBehind(Begun)
  <1> DEFINE path == NewPath(Recommended, Relations, 1)
             quiz == {q \in QuizBank : KnowledgeOf[q] \in ToSet(CurrentIds(path))}
             e == [node |-> CurrentIds(path), row |-> 1, prop |-> 0, status |-> "completed", quiz |-> quiz]
             first == [prev |-> 0, counted |-> <<>>]
             profiles == <<first>>
             tasks == <<e>>
  <1>1. /\ Begun.path = path /\ Begun.rel = Relations /\ Begun.profiles = profiles
        /\ Begun.quizzes = <<>> /\ Begun.tasks = tasks
    BY DEF Begun, Diagnosed
  <1>2. e.row = 1
    OBVIOUS
  <1>3. /\ first.prev = 0 /\ first.counted = <<>> /\ DOMAIN first = {"prev", "counted"}
    OBVIOUS
  <1>4. Len(profiles) = 1
    OBVIOUS
  <1>5. DOMAIN e = RowFields.tasks
    BY DEF RowFields
  <1> HIDE DEF e, first, path
  <1>6. Rows(profiles, {"prev", "counted"}) /\ DOMAIN profiles = {1} /\ profiles[1] = first
    BY <1>3, RowsOfOne
  <1>7. DOMAIN tasks = {1} /\ tasks[1] = e
    BY <1>5, RowsOfOne
  <1>8. DOMAIN (<<>>) = {}
    OBVIOUS
  <1>9. IsPath(path) /\ Follows(path) /\ path.row = 1 /\ path.owner = 1 /\ Ordered(Relations)
    BY CatalogAssumption, NewPathIs DEF path
  <1> HIDE DEF profiles, tasks
  <1>10. CountRows(Begun)
    <2>1. Begun.profiles # <<>>
      BY <1>1, <1>6, <1>8
    <2>2. <<>> \in Seq(DOMAIN Begun.records)
      BY EmptySeq
    <2>3. Spaced(Begun, <<>>)
      BY <1>8 DEF Spaced
    <2> QED BY <1>1, <1>3, <1>6, <2>1, <2>2, <2>3 DEF CountRows
  <1>11. Chained(Begun)
    BY <1>1, <1>3, <1>6 DEF Chained
  <1>12. Latest(Begun) = 1
    BY <1>1, <1>4 DEF Latest
  <1>13. RowsBehind(Begun)
    BY <1>1, <1>2, <1>7, <1>8, <1>9 DEF RowsBehind
  <1>14. Shaped(Begun)
    BY BegunIs DEF Consistent
  <1> QED BY <1>1, <1>9, <1>10, <1>11, <1>12, <1>13, <1>14 DEF Fit, Sole

LEMMA PathStart == Init => PathInv
  <1> SUFFICES ASSUME Init PROVE PathInv
    OBVIOUS
  <1>1. CASE db = Begun
    BY <1>1, BegunFits DEF Init, PathInv, Grows
  <1>2. CASE db \in Later
    <2>1. Consistent(db) /\ Grounded(db)
      BY <1>2, LaterAssumption
    <2>2. Fit(db) /\ Sole(db) /\ RowsBehind(db)
      BY <2>1 DEF Consistent, Grounded, Fit, Sole
    <2> QED BY <2>2 DEF Init, PathInv, Grows
  <1> QED BY <1>1, <1>2 DEF Init

THEOREM PathAgrees == Spec => []PathInv
  BY ProgressHolds, PathStart, PathStep, PTL DEF Spec

-----------------------------------------------------------------------------
(* What they promise                                                       *)

\* The learner is never put on a unit before what it requires, by the relations the path
\* was last grouped by, whatever is published, rewritten or done in whatever order
\* (normalize_path_for_domain, _advance_path_node, reprioritize_future_nodes).
THEOREM PathFollows == Spec => []CurrentFollowsPrerequisites
  <1>1. PathInv => CurrentFollowsPrerequisites
    BY DEF PathInv, Fit, CurrentFollowsPrerequisites
  <1> QED BY <1>1, PathAgrees, PTL

\* The profiles of a learner are one history that counts no answer twice within the
\* window, and only an assessment answered on an old view forks it (build_knowledge_state,
\* persist_profile_revision).
THEOREM AnswersCountedOnce == Spec => []CountedOnce
  <1>1. PathInv => CountedOnce
    BY DEF PathInv, Fit, CountRows, Sole, CountedOnce
  <1> QED BY <1>1, PathAgrees, PTL

LEMMA StepKeepsDone ==
  ASSUME PathInv, IInv, IInv', [Next]_vars, "AnswerAssessment" \notin late'
  PROVE  Done(db.path) \subseteq Done(db'.path)
  <1>1. CASE Next
    <2>1. Proceeds
      BY <1>1, NextProceeds
    <2>2. Steady(db, db') /\ Sole(db)
      BY <2>1 DEF Proceeds, PathInv
    <2> QED BY <2>2 DEF Steady
  <1>2. CASE UNCHANGED vars
    BY <1>2 DEF vars
  <1> QED BY <1>1, <1>2

\* What is completed stays completed through every revision, regrouping, publication and
\* correction, when no assessment was answered on an old view (normalize_path_for_domain
\* keeps the completed units, persist_profile_revision takes them over).
THEOREM CompletionStays == Spec => CompletedStays
  <1>1. PathInv /\ IInv /\ IInv' /\ [Next]_vars =>
          ("AnswerAssessment" \notin late' => CompletedIds(db.path) \subseteq CompletedIds(db'.path))
    <2> SUFFICES ASSUME PathInv, IInv, IInv', [Next]_vars, "AnswerAssessment" \notin late'
                 PROVE  CompletedIds(db.path) \subseteq CompletedIds(db'.path)
      OBVIOUS
    <2>1. Done(db.path) \subseteq Done(db'.path)
      BY StepKeepsDone
    <2> QED BY <2>1, CompletedIs
  <1> QED BY <1>1, PathAgrees, ProgressHolds, PTL DEF Spec, CompletedStays

LEMMA UnitDone ==
  ASSUME NEW path, NEW i \in DOMAIN path.units, path.units[i].status = "completed"
  PROVE  path.units[i].ids \in Done(path)
  BY DEF Done, At

LEMMA StepHeldGate ==
  ASSUME PathInv, IInv, IInv', Next, late' = {}, NEW ids \in Done(db'.path),
         ~(ToSet(ids) \subseteq CompletedIds(db.path)), Packaged(db, ids)
  PROVE  Borne(db, db', ids)
  <1>1. Proceeds
    BY NextProceeds
  <1>2. late = {} /\ Lawful(db, db')
    BY <1>1 DEF Proceeds
  <1>3. Sole(db) /\ RowsBehind(db)
    BY <1>2 DEF PathInv
  <1>4. ids \notin Done(db.path)
    BY CompletedIs
  <1> QED BY <1>2, <1>3, <1>4 DEF Lawful

\* The gate of a unit with a package, with the quiz of row of the path
LEMMA BorneIs ==
  ASSUME Fit(db), Fit(db'), NEW ids, Borne(db, db', ids)
  PROVE  /\ Unmastered(db', ids) = {}
         /\ Blockers(db'.mistakes, ids) = {}
         /\ QuizDone([db' EXCEPT !.path.row = db.path.row], ids)
  <1> DEFINE t == [db' EXCEPT !.path.row = db.path.row]
  <1>1. DOMAIN db' = DOMAIN RowFields \cup {"rel", "bank", "path", "profiles", "signals"}
    BY DEF Fit, Shaped
  <1>2. "row" \in DOMAIN db'.path
    BY DEF Fit, IsPath
  <1>3. /\ t.path.row = db.path.row
        /\ t.records = db'.records /\ t.bank = db'.bank /\ t.quizzes = db'.quizzes
        /\ t.tasks = db'.tasks
    BY <1>1, <1>2 DEF RowFields
  <1> HIDE DEF t
  <1>4. SameGrades(db', t)
    BY <1>3 DEF SameGrades
  <1>5. QuizDoneAt(db', ids, db.path.row)
    BY DEF Borne
  <1>6. QuizDoneAt(t, ids, db.path.row)
    BY <1>4, <1>5, QuizDecided
  <1>7. QuizDone(t, ids)
    BY <1>3, <1>6, QuizAt
  <1> QED BY <1>7 DEF Borne, t

\* A unit with a package is completed only when the tables committed with it bear it out:
\* its core is mastered, no mistake blocks it and its quiz is done (build_node_gate and
\* its callers); only a request on an old view escapes.
THEOREM GateIsHeld == Spec => GateHeldAtCommit
  <1> DEFINE Held == \A i \in DOMAIN db'.path.units :
                       LET ids == db'.path.units[i].ids IN
                       ( /\ db'.path.units[i].status = "completed"
                         /\ ~(ToSet(ids) \subseteq CompletedIds(db.path))
                         /\ Packaged(db, ids) /\ late' = {} )
                       => /\ Unmastered(db', ids) = {}
                          /\ Blockers(db'.mistakes, ids) = {}
                          /\ QuizDone([db' EXCEPT !.path.row = db.path.row], ids)
  <1>1. PathInv /\ PathInv' /\ IInv /\ IInv' /\ [Next]_vars => Held
    <2> SUFFICES ASSUME PathInv, PathInv', IInv, IInv', [Next]_vars,
                        NEW i \in DOMAIN db'.path.units,
                        db'.path.units[i].status = "completed",
                        ~(ToSet(db'.path.units[i].ids) \subseteq CompletedIds(db.path)),
                        Packaged(db, db'.path.units[i].ids), late' = {}
                 PROVE  LET ids == db'.path.units[i].ids IN
                        /\ Unmastered(db', ids) = {}
                        /\ Blockers(db'.mistakes, ids) = {}
                        /\ QuizDone([db' EXCEPT !.path.row = db.path.row], ids)
      BY DEF Held
    <2> DEFINE ids == db'.path.units[i].ids
    <2>1. ids \in Done(db'.path)
      BY UnitDone
    <2>2. CASE Next
      <3>1. Borne(db, db', ids)
        BY <2>1, <2>2, StepHeldGate
      <3>2. Fit(db) /\ Fit(db')
        BY DEF PathInv
      <3> QED BY <3>1, <3>2, BorneIs
    <2>3. CASE UNCHANGED vars
      <3>1. ids \in Done(db.path)
        BY <2>1, <2>3 DEF vars
      <3> QED BY <3>1, CompletedIs
    <2> QED BY <2>2, <2>3
  <1> QED BY <1>1, PathAgrees, ProgressHolds, PTL DEF Spec, GateHeldAtCommit
=============================================================================
