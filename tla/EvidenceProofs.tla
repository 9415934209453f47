---------------------------- MODULE EvidenceProofs ----------------------------
(***************************************************************************)
(* What is taken from a learner counts for what it is: the signals of a    *)
(* tutoring conversation (Tutoring) and the answers a profile is revised   *)
(* by (ProfileRevision), for any number of messages, sessions, questions   *)
(* and answers.                                                            *)
(*                                                                         *)
(* The argument for the conversation: a committed feedback row is never    *)
(* removed and keeps its intent, a turn that reads old rows writes back    *)
(* only those it marks, and a row that a proposal rests on is not eligible *)
(* again.  For the profile: the state kept of a knowledge point agrees     *)
(* with the answers it names, in number and in weight, so that a point it  *)
(* calls known has two right answers; and an analysis that is dropped left *)
(* every weak point as it was, which four right answers alone do against a *)
(* wrong one.                                                              *)
(***************************************************************************)
EXTENDS Tutoring, ProfileRevision, FiniteSetTheorems, SequenceTheorems, WellFoundedInduction, TLAPS

IsRow(r) ==
    /\ r = [id |-> r.id, session |-> r.session, intent |-> r.intent, action |-> r.action,
            evidence |-> r.evidence]
    /\ r.id \in Nat

IsTable(f) ==
    /\ f = [t \in Turns |-> f[t]]
    /\ \A t \in Turns : f[t] = NoFeedback \/ IsRow(f[t])

Proposal == [status : {"collecting", "pending_validation", "closed"},
             sources : SUBSET Turns, late : BOOLEAN]

TypeInv ==
    /\ DOMAIN db = {"count", "reply", "feedback", "proposals", "current", "task"}
    /\ IsTable(db.feedback) /\ db.proposals \in Seq(Proposal)
    /\ turns = [t \in Turns |-> turns[t]] /\ \A t \in Turns : turns[t].id \in Nat

\* A row that was read is still there and means what it meant.
Kept(row, later) ==
    row # NoFeedback => later # NoFeedback /\ later.intent = row.intent

\* A turn leaves feedback when it ends.
OwnInv == \A t \in Turns : db.feedback[t] # NoFeedback => turns[t].at = "done"

ViewInv ==
    \A t \in Turns : turns[t].at = "running" =>
        /\ IsTable(turns[t].view.feedback)
        /\ \A u \in Turns : Kept(turns[t].view.feedback[u], db.feedback[u])

SourcesInv ==
    \A p \in DOMAIN db.proposals : \A u \in db.proposals[p].sources :
        db.feedback[u] # NoFeedback /\ db.feedback[u].evidence # "eligible"

IInv == TypeInv /\ OwnInv /\ ViewInv /\ SourcesInv /\ SignalsCountedOnce

-----------------------------------------------------------------------------
(* Induction over the natural numbers, for sets                            *)

LEMMA LeastNumber ==
  ASSUME NEW T \in SUBSET Nat, T # {}
  PROVE  \E x \in T : \A y \in T : x <= y
  <1> DEFINE R == {ss \in Nat \X Nat : ss[1] < ss[2]}
  <1>1. IsWellFoundedOn(R, Nat)
    BY ONLY NatLessThanWellFounded, Zenon DEF OpToRel
  <1>2. \A x, y \in Nat : y < x => <<y, x>> \in R
    OBVIOUS
  <1> HIDE DEF R
  <1>3. PICK x \in T : \A y \in T : ~(<<y, x>> \in R)
    BY <1>1, WFMin
  <1>4. \A y \in T : ~(y < x)
    BY <1>2, <1>3
  <1> QED BY <1>4

LEMMA SetInduction ==
  ASSUME NEW S \in SUBSET Nat, 0 \in S, \A n \in S : n + 1 \in S
  PROVE  S = Nat
  <1>1. SUFFICES ASSUME Nat \ S # {}
                 PROVE  FALSE
    OBVIOUS
  <1>2. PICK x \in Nat \ S : \A y \in Nat \ S : x <= y
    BY <1>1, LeastNumber
  <1>3. x - 1 \in S /\ x - 1 + 1 = x
    BY <1>2
  <1> QED BY <1>2, <1>3

-----------------------------------------------------------------------------
(* The two latest signals                                                  *)

LEMMA NewestExists ==
  ASSUME NEW rows, NEW S \in SUBSET Turns, S # {}, \A u \in S : rows[u].id \in Nat
  PROVE  Newest(rows, S) \in S
  <1> DEFINE Greatest(U) == \E u \in U : \A w \in U : rows[w].id <= rows[u].id
             N == {n \in Nat : \A U \in SUBSET S : U # {} /\ U \subseteq 1..n => Greatest(U)}
  <1>1. 0 \in N
    OBVIOUS
  <1>2. ASSUME NEW n \in N
        PROVE  n + 1 \in N
    <2>1. SUFFICES ASSUME NEW U \in SUBSET S, U # {}, U \subseteq 1..(n + 1)
                   PROVE  Greatest(U)
      OBVIOUS
    <2>2. CASE n + 1 \notin U
      <3>1. U \subseteq 1..n
        BY <2>1, <2>2
      <3> QED BY <2>1, <3>1
    <2>3. CASE n + 1 \in U /\ U \ {n + 1} = {}
      <3>1. rows[n + 1].id <= rows[n + 1].id
        BY <2>3
      <3>2. \A w \in U : w = n + 1
        BY <2>3
      <3> QED BY <2>3, <3>1, <3>2
    <2>4. CASE n + 1 \in U /\ U \ {n + 1} # {}
      <3>1. U \ {n + 1} \in SUBSET S /\ U \ {n + 1} \subseteq 1..n
        BY <2>1
      <3>2. PICK u \in U \ {n + 1} : \A w \in U \ {n + 1} : rows[w].id <= rows[u].id
        BY <2>4, <3>1
      <3>3. \A w \in U : rows[w].id \in Nat
        OBVIOUS
      <3>4. CASE rows[n + 1].id <= rows[u].id
        BY <3>2, <3>4
      <3>5. CASE ~(rows[n + 1].id <= rows[u].id)
        <4>1. \A w \in U : rows[w].id <= rows[n + 1].id
          BY <2>4, <3>2, <3>3, <3>5
        <4> QED BY <2>4, <4>1
      <3> QED BY <3>4, <3>5
    <2> QED BY <2>2, <2>3, <2>4
  <1> HIDE DEF N
  <1>3. N = Nat
    <2>1. N \in SUBSET Nat
      BY DEF N
    <2> QED BY <1>1, <1>2, <2>1, SetInduction
  <1>4. Greatest(S)
    <2>1. MaxTurns \in N
      BY <1>3, TurnsAssumption
    <2> QED BY <2>1 DEF N, Turns
  <1> QED BY <1>4 DEF Newest

LEMMA PairIsTwo ==
  ASSUME NEW rows, IsTable(rows), LatestPair(rows) # {}
  PROVE  LatestPair(rows) \subseteq Signals(rows) /\ Cardinality(LatestPair(rows)) = 2
  <1> DEFINE S == Signals(rows)
             a == Newest(rows, S)
             b == Newest(rows, S \ {a})
  <1>1. /\ S \in SUBSET Turns /\ \A u \in S : rows[u].id \in Nat
        /\ IsFiniteSet(S) /\ Cardinality(S) \in Nat
    <2>1. IsFiniteSet(Turns)
      BY FS_Interval, TurnsAssumption DEF Turns
    <2>2. S \in SUBSET Turns /\ \A u \in S : rows[u].id \in Nat
      BY DEF Signals, IsTable, IsRow
    <2> QED BY <2>1, <2>2, FS_Subset, FS_CardinalityType
  <1>2. LatestPair(rows) = {a, b} /\ ~(Cardinality(S) < 2)
    BY DEF LatestPair
  <1> HIDE DEF S, a, b
  <1>3. S # {} /\ a \in S
    <2>1. S # {}
      BY <1>2, FS_EmptySet
    <2> QED BY <1>1, <2>1, NewestExists DEF a
  <1>4. S \ {a} # {} /\ b \in S \ {a}
    <2>1. S # {a}
      <3>1. Cardinality({a}) = 1
        BY FS_Singleton
      <3> QED BY <1>2, <3>1
    <2>2. S \ {a} # {}
      BY <1>3, <2>1
    <2> QED BY <1>1, <2>2, NewestExists DEF b
  <1>5. Cardinality({a, b}) = 2
    <2>1. IsFiniteSet({b}) /\ Cardinality({b}) = 1
      BY FS_Singleton
    <2>2. a \notin {b} /\ {b} \cup {a} = {a, b}
      BY <1>4
    <2>3. Cardinality({b} \cup {a}) = 1 + 1
      BY <2>1, <2>2, FS_AddElement
    <2> QED BY <2>2, <2>3
  <1> QED BY <1>2, <1>3, <1>4, <1>5 DEF S

-----------------------------------------------------------------------------
(* What a turn writes                                                      *)

LEMMA MarkedRows ==
  ASSUME NEW rows, IsTable(rows), NEW S \in SUBSET Turns,
         \A u \in S : rows[u] # NoFeedback, NEW status
  PROVE  /\ IsTable(Marked(rows, S, status))
         /\ \A u \in S : /\ Marked(rows, S, status)[u] # NoFeedback
                         /\ Marked(rows, S, status)[u].evidence = status
                         /\ Marked(rows, S, status)[u].intent = rows[u].intent
         /\ \A u \in Turns \ S : Marked(rows, S, status)[u] = rows[u]
  <1>1. ASSUME NEW r, IsRow(r)
        PROVE  /\ IsRow([r EXCEPT !.evidence = status])
               /\ [r EXCEPT !.evidence = status].evidence = status
               /\ [r EXCEPT !.evidence = status].intent = r.intent
               /\ [r EXCEPT !.evidence = status] # NoFeedback
    <2>1. [r EXCEPT !.evidence = status] =
             [id |-> r.id, session |-> r.session, intent |-> r.intent, action |-> r.action,
              evidence |-> status]
      BY <1>1 DEF IsRow
    <2> QED BY <1>1, <2>1 DEF IsRow, NoFeedback
  <1> QED BY <1>1 DEF Marked, IsTable

\* A turn t that read the rows before has a row of its own to add to the committed ones.
Adds(t, own, before, committed) ==
    /\ IsTable(before) /\ IsTable(committed) /\ IsRow(own)
    /\ before[t] = NoFeedback /\ committed[t] = NoFeedback
    /\ \A u \in Turns : Kept(before[u], committed[u])

\* W has the row of t, the marks on S and otherwise what was committed.
Rewrites(W, t, S, status, rows, committed) ==
    /\ IsTable(W) /\ W[t] # NoFeedback
    /\ \A u \in Turns : Kept(committed[u], W[u])
    /\ \A u \in Turns \ {t} :
          \/ W[u] = committed[u]
          \/ committed[u] # NoFeedback /\ W[u] # NoFeedback /\ W[u].evidence = status
    /\ \A u \in S : /\ W[u] # NoFeedback /\ W[u].evidence = status
                    /\ W[u].intent = rows[u].intent

LEMMA WrittenRows ==
  ASSUME NEW t \in Turns, NEW own, NEW before, NEW committed, Adds(t, own, before, committed),
         NEW rows, rows = [before EXCEPT ![t] = own],
         NEW S \in SUBSET (Signals(rows) \cup {t}), NEW status, status # "eligible"
  PROVE  Rewrites(Written(before, Marked(rows, S, status), committed), t, S, status, rows, committed)
  <1> USE DEF Adds
  <1> DEFINE after == Marked(rows, S, status)
             W == Written(before, after, committed)
  <1>1. /\ IsTable(rows) /\ rows[t] = own /\ own # NoFeedback
        /\ \A u \in Turns \ {t} : rows[u] = before[u]
    BY DEF IsTable, IsRow, NoFeedback
  <1>2. /\ S \in SUBSET Turns
        /\ \A u \in S : rows[u] # NoFeedback
        /\ \A u \in S \ {t} : rows[u].evidence = "eligible"
    BY <1>1 DEF Signals
  <1>3. /\ IsTable(after)
        /\ \A u \in S : /\ after[u] # NoFeedback /\ after[u].evidence = status
                        /\ after[u].intent = rows[u].intent
        /\ \A u \in Turns \ S : after[u] = rows[u]
    BY ONLY <1>1, <1>2, MarkedRows
  <1> HIDE DEF after
  <1>4. W = [u \in Turns |-> IF after[u] # before[u] THEN after[u] ELSE committed[u]]
    BY DEF Written, after
  <1> HIDE DEF W
  <1>5. IsTable(W)
    BY <1>3, <1>4 DEF IsTable
  <1>6. after[t] # NoFeedback /\ W[t] = after[t]
    BY <1>1, <1>3, <1>4
  <1>7. ASSUME NEW u \in S \ {t}
        PROVE  W[u] = after[u] /\ before[u] # NoFeedback /\ after[u].intent = before[u].intent
    <2>1. u \in Turns /\ rows[u] = before[u] /\ rows[u].evidence = "eligible"
      BY <1>1, <1>2
    <2>2. after[u].evidence = status /\ after[u].intent = rows[u].intent
      BY <1>3
    <2>3. after[u] # before[u]
      BY <2>1, <2>2
    <2>4. W[u] = after[u]
      BY <1>4, <2>1, <2>3
    <2>5. rows[u] # NoFeedback
      BY <1>2
    <2> QED BY <2>1, <2>2, <2>4, <2>5
  <1>8. ASSUME NEW u \in Turns \ (S \cup {t})
        PROVE  W[u] = committed[u]
    <2>1. after[u] = rows[u] /\ rows[u] = before[u]
      BY <1>1, <1>3
    <2> QED BY <1>4, <2>1
  <1>9. \A u \in Turns : Kept(committed[u], W[u])
    <2>1. ASSUME NEW u \in S \ {t}
          PROVE  Kept(committed[u], W[u])
      <3>1. committed[u] # NoFeedback /\ committed[u].intent = before[u].intent
        BY <1>2, <1>7 DEF Kept
      <3>2. W[u] # NoFeedback /\ W[u].intent = before[u].intent
        BY <1>3, <1>7
      <3> QED BY <3>1, <3>2 DEF Kept
    <2> QED BY <1>8, <2>1 DEF Kept
  <1>10. \A u \in S : /\ W[u] # NoFeedback /\ W[u].evidence = status
                      /\ W[u].intent = rows[u].intent
    BY <1>3, <1>6, <1>7
  <1>11. \A u \in Turns \ {t} :
           \/ W[u] = committed[u]
           \/ committed[u] # NoFeedback /\ W[u] # NoFeedback /\ W[u].evidence = status
    BY <1>7, <1>8, <1>10 DEF Kept
  <1> QED BY <1>5, <1>6, <1>9, <1>10, <1>11 DEF Rewrites, W, after

\* A turn adds its own row, makes no other row eligible and adds one proposal at most.
Proposes(P, t) ==
    /\ P \in Proposal /\ P.sources # {} /\ Cardinality(P.sources) = 2
    /\ db'.proposals = Append(db.proposals, P)
    /\ Agree(db'.feedback, P.sources)
    /\ \A u \in P.sources : db'.feedback[u] # NoFeedback /\ db'.feedback[u].evidence = "consumed"
    /\ ~P.late => /\ Open(db) = {}
                  /\ \A u \in P.sources \ {t} : db.feedback[u].evidence = "eligible"

Leaves(t) ==
    /\ DOMAIN db' = DOMAIN db
    /\ IsTable(db'.feedback) /\ db'.feedback[t] # NoFeedback
    /\ db.feedback[t] = NoFeedback
    /\ \A u \in Turns : Kept(db.feedback[u], db'.feedback[u])
    /\ \A u \in Turns \ {t} :
          \/ db'.feedback[u] = db.feedback[u]
          \/ /\ db.feedback[u] # NoFeedback /\ db'.feedback[u] # NoFeedback
             /\ db'.feedback[u].evidence # "eligible"
    /\ db'.proposals = db.proposals \/ \E P \in Proposal : Proposes(P, t)

LEMMA CommitLeaves ==
  ASSUME TypeInv, OwnInv, ViewInv, NEW t \in Turns, Commit(t)
  PROVE  Leaves(t)
  <1> DEFINE turn == turns[t]
             before == turn.view.feedback
  <1>1. PICK m \in Messages, bank \in BOOLEAN :
          LET rows == [before EXCEPT ![t] = OwnFeedback(turn, m)]
              out  == IF Founded(m) THEN Collected(turn, rows, t, bank)
                      ELSE Outcome(rows, NoProposal)
          IN  db' = [db EXCEPT
                !.count[turn.session] = IF turn.streamed THEN @ ELSE Number(turn),
                !.feedback = Written(before, out.rows, @),
                !.proposals = IF out.proposal = NoProposal THEN @ ELSE Append(@, out.proposal),
                !.reply[t] = "completed",
                !.task[t] = IF Verdict(turn, m).action # "review" THEN "none"
                            ELSE IF turn.streamed THEN "pending" ELSE "handed"]
    BY DEF Commit
  <1> DEFINE own == OwnFeedback(turn, m)
             rows == [before EXCEPT ![t] = own]
             out == IF Founded(m) THEN Collected(turn, rows, t, bank)
                    ELSE Outcome(rows, NoProposal)
  <1>2. /\ DOMAIN db' = DOMAIN db
        /\ db'.feedback = Written(before, out.rows, db.feedback)
        /\ db'.proposals = IF out.proposal = NoProposal THEN db.proposals
                           ELSE Append(db.proposals, out.proposal)
    BY <1>1 DEF TypeInv
  <1>3. /\ turn.at = "running" /\ IsTable(before) /\ IsTable(db.feedback)
        /\ db.feedback[t] = NoFeedback /\ before[t] = NoFeedback
        /\ \A u \in Turns : Kept(before[u], db.feedback[u])
    BY DEF Commit, Ends, TypeInv, OwnInv, ViewInv, Kept
  <1>4. IsRow(own)
    <2>1. turn.id \in Nat
      BY DEF TypeInv
    <2> QED BY <2>1 DEF OwnFeedback, IsRow
  <1> HIDE DEF own
  <1>5. IsTable(rows) /\ rows[t] = own /\ \A u \in Turns \ {t} : rows[u] = before[u]
    BY <1>3, <1>4 DEF IsTable
  <1> DEFINE pair == LatestPair(rows)
  <1>6. pair # {} => pair \subseteq Signals(rows) /\ Cardinality(pair) = 2
    BY <1>5, PairIsTwo
  <1> HIDE DEF pair
  <1>7. ASSUME NEW S \in SUBSET (Signals(rows) \cup {t}), NEW status, status # "eligible",
               out.rows = Marked(rows, S, status)
        PROVE  /\ IsTable(db'.feedback) /\ db'.feedback[t] # NoFeedback
               /\ \A u \in Turns : Kept(db.feedback[u], db'.feedback[u])
               /\ \A u \in Turns \ {t} :
                     \/ db'.feedback[u] = db.feedback[u]
                     \/ /\ db.feedback[u] # NoFeedback /\ db'.feedback[u] # NoFeedback
                        /\ db'.feedback[u].evidence # "eligible"
               /\ \A u \in S : /\ db'.feedback[u] # NoFeedback
                               /\ db'.feedback[u].evidence = status
                               /\ db'.feedback[u].intent = rows[u].intent
    <2>1. db'.feedback = Written(before, Marked(rows, S, status), db.feedback)
      BY <1>2, <1>7
    <2>2. Adds(t, own, before, db.feedback)
      BY <1>3, <1>4 DEF Adds
    <2>3. Rewrites(db'.feedback, t, S, status, rows, db.feedback)
      BY <1>7, <2>1, <2>2, WrittenRows
    <2> QED BY <1>7, <2>3 DEF Rewrites
  <1>8. CASE out.proposal = NoProposal
    <2>1. \E S \in SUBSET (Signals(rows) \cup {t}), status \in {"stale", "conflict"} :
             out.rows = Marked(rows, S, status)
      <3>1. CASE out.rows = rows
        <4>1. rows = Marked(rows, {}, "stale")
          BY <1>5 DEF Marked, IsTable
        <4> QED BY <3>1, <4>1
      <3>2. CASE out.rows = Marked(rows, {t}, "stale")
        BY <3>2
      <3>3. CASE out.rows = Marked(rows, pair, "conflict") /\ pair # {}
        BY <1>6, <3>3
      <3>4. \/ out.rows = rows \/ out.rows = Marked(rows, {t}, "stale")
            \/ (out.rows = Marked(rows, pair, "conflict") /\ pair # {})
        BY <1>8 DEF Collected, Outcome, NoProposal, pair
      <3> QED BY <3>1, <3>2, <3>3, <3>4
    <2> QED BY <1>2, <1>3, <1>7, <1>8, <2>1 DEF Leaves
  <1>9. CASE out.proposal # NoProposal
    <2> DEFINE P == out.proposal
    <2> DEFINE late == turn.view.proposals # db.proposals \/ before # db.feedback
               status == IF bank THEN "pending_validation" ELSE "collecting"
    <2>1. /\ Open(turn.view) = {} /\ pair # {} /\ Agree(rows, pair)
          /\ out.rows = Marked(rows, pair, "consumed")
          /\ P = [status |-> status, sources |-> pair, late |-> late]
      BY <1>9 DEF Collected, Outcome, NoProposal, pair
    <2>2. late \in BOOLEAN /\ status \in {"pending_validation", "collecting"}
      OBVIOUS
    <2>3. ~late => turn.view.proposals = db.proposals /\ before = db.feedback
      OBVIOUS
    <2> HIDE DEF late, status
    <2>4. P \in Proposal /\ P.sources = pair /\ P.late = late
      <3>1. pair \in SUBSET Turns
        BY <1>6, <2>1 DEF Signals
      <3> QED BY <2>1, <2>2, <3>1 DEF Proposal
    <2> HIDE DEF P, out
    <2>5. db'.proposals = Append(db.proposals, P)
      BY <1>2, <1>9 DEF P, out
    <2>6. pair \subseteq Signals(rows) /\ Cardinality(pair) = 2
      BY <1>6, <2>1
    <2>7. /\ IsTable(db'.feedback) /\ db'.feedback[t] # NoFeedback
          /\ \A u \in Turns : Kept(db.feedback[u], db'.feedback[u])
          /\ \A u \in Turns \ {t} :
                \/ db'.feedback[u] = db.feedback[u]
                \/ /\ db.feedback[u] # NoFeedback /\ db'.feedback[u] # NoFeedback
                   /\ db'.feedback[u].evidence # "eligible"
          /\ \A u \in pair : /\ db'.feedback[u] # NoFeedback
                             /\ db'.feedback[u].evidence = "consumed"
                             /\ db'.feedback[u].intent = rows[u].intent
      BY <1>7, <2>1, <2>6
    <2>8. Agree(db'.feedback, pair)
      BY <2>1, <2>7 DEF Agree
    <2>9. ASSUME ~P.late
          PROVE  Open(db) = {} /\ \A u \in pair \ {t} : db.feedback[u].evidence = "eligible"
      <3>1. Open(db) = {}
        BY <2>1, <2>3, <2>4, <2>9 DEF Open
      <3>2. \A u \in pair \ {t} : db.feedback[u].evidence = "eligible"
        BY <1>5, <2>3, <2>4, <2>6, <2>9 DEF Signals
      <3> QED BY <3>1, <3>2
    <2>10. Proposes(P, t)
      BY <2>1, <2>4, <2>5, <2>6, <2>7, <2>8, <2>9 DEF Proposes
    <2> QED BY <1>2, <1>3, <2>4, <2>7, <2>10 DEF Leaves
  <1> QED BY <1>8, <1>9

-----------------------------------------------------------------------------
(* The invariant                                                           *)

\* Steps that leave feedback and proposals alone and end no turn but by a restart.
Aside ==
    /\ DOMAIN db' = DOMAIN db
    /\ db'.feedback = db.feedback /\ db'.proposals = db.proposals
    /\ turns' = [t \in Turns |-> turns'[t]]
    /\ \A t \in Turns : /\ turns'[t].id \in Nat
                        /\ turns'[t].at = "running" => turns'[t] = turns[t]
                        /\ turns[t].at = "done" => turns'[t].at = "done"

LEMMA AsideKeeps ==
  ASSUME IInv, Aside
  PROVE  IInv'
  <1> USE DEF IInv, Aside
  <1>1. TypeInv'
    BY DEF TypeInv
  <1>2. OwnInv'
    BY DEF OwnInv
  <1>3. ViewInv'
    BY DEF ViewInv
  <1>4. SourcesInv'
    BY DEF SourcesInv
  <1>5. SignalsCountedOnce'
    BY DEF SignalsCountedOnce, Open
  <1> QED BY <1>1, <1>2, <1>3, <1>4, <1>5

LEMMA RunningKeeps ==
  ASSUME IInv, NEW t \in Turns, turns[t].at \in {"free", "accepted"}, NEW s, NEW streamed,
         Running(t, s, streamed), db' = db
  PROVE  IInv'
  <1> USE DEF IInv
  <1>1. NextId \in Nat
    <2>1. IsFiniteSet(Turns)
      BY FS_Interval, TurnsAssumption DEF Turns
    <2>2. Cardinality({u \in Turns : turns[u].id > 0}) \in Nat
      BY <2>1, FS_Subset, FS_CardinalityType
    <2> QED BY <2>2 DEF NextId
  <1>2. /\ turns' = [u \in Turns |-> turns'[u]]
        /\ turns'[t].id = NextId /\ turns'[t].at = "running"
        /\ turns'[t].view.feedback = db.feedback
        /\ \A u \in Turns \ {t} : turns'[u] = turns[u]
    BY DEF Running, View, TypeInv
  <1>3. TypeInv'
    BY <1>1, <1>2 DEF TypeInv
  <1>4. OwnInv'
    BY <1>2 DEF OwnInv
  <1>5. ViewInv'
    BY <1>2 DEF ViewInv, TypeInv, Kept
  <1>6. SourcesInv' /\ SignalsCountedOnce'
    BY DEF SourcesInv, SignalsCountedOnce, Open
  <1> QED BY <1>3, <1>4, <1>5, <1>6

LEMMA CommitKeeps ==
  ASSUME IInv, NEW t \in Turns, Commit(t)
  PROVE  IInv'
  <1> USE DEF IInv
  <1>1. Leaves(t)
    BY CommitLeaves
  <1>2. /\ turns' = [u \in Turns |-> turns'[u]]
        /\ turns'[t].id = turns[t].id /\ turns'[t].at = "done"
        /\ \A u \in Turns \ {t} : turns'[u] = turns[u]
    BY DEF Commit, Ends, TypeInv
  <1>3. /\ DOMAIN db' = DOMAIN db
        /\ IsTable(db'.feedback) /\ db'.feedback[t] # NoFeedback
        /\ db.feedback[t] = NoFeedback
        /\ \A u \in Turns : Kept(db.feedback[u], db'.feedback[u])
        /\ \A u \in Turns \ {t} :
              \/ db'.feedback[u] = db.feedback[u]
              \/ /\ db.feedback[u] # NoFeedback /\ db'.feedback[u] # NoFeedback
                 /\ db'.feedback[u].evidence # "eligible"
    BY <1>1 DEF Leaves
  <1>4. TypeInv' /\ db.proposals \in Seq(Proposal)
    <2>1. db'.proposals \in Seq(Proposal)
      BY <1>1, AppendProperties DEF Leaves, Proposes, TypeInv
    <2> QED BY <1>2, <1>3, <2>1 DEF TypeInv
  <1>5. OwnInv'
    BY <1>2, <1>3 DEF OwnInv
  <1>6. ViewInv'
    BY <1>2, <1>3 DEF ViewInv, Kept
  <1>7. \A u \in Turns : db.feedback[u] # NoFeedback /\ db.feedback[u].evidence # "eligible" =>
           db'.feedback[u] # NoFeedback /\ db'.feedback[u].evidence # "eligible"
    BY <1>3
  <1>8. \A p \in DOMAIN db.proposals : db.proposals[p].sources \subseteq Turns
    <2>1. \A p \in DOMAIN db.proposals : db.proposals[p] \in Proposal
      BY <1>4, ElementOfSeq, LenProperties
    <2> QED BY <2>1 DEF Proposal
  <1>9. \A p \in DOMAIN db.proposals : \A u \in db.proposals[p].sources :
           /\ db.feedback[u] # NoFeedback /\ db.feedback[u].evidence # "eligible"
           /\ db'.feedback[u] # NoFeedback /\ db'.feedback[u].evidence # "eligible"
           /\ db'.feedback[u].intent = db.feedback[u].intent
    BY <1>3, <1>7, <1>8 DEF SourcesInv, Kept
  <1>10. CASE db'.proposals = db.proposals
    <2>1. SourcesInv'
      BY <1>9, <1>10 DEF SourcesInv
    <2>2. \A p \in DOMAIN db.proposals :
             Agree(db.feedback, db.proposals[p].sources) =>
                Agree(db'.feedback, db.proposals[p].sources)
      BY <1>9 DEF Agree
    <2>3. SignalsCountedOnce'
      BY <1>10, <2>2 DEF SignalsCountedOnce, Open
    <2> QED BY <1>4, <1>5, <1>6, <2>1, <2>3
  <1>11. ASSUME NEW P \in Proposal, Proposes(P, t)
         PROVE  IInv'
    <2> DEFINE ps == db.proposals
               n == Len(ps)
    <2>1. /\ n \in Nat /\ DOMAIN ps = 1..n /\ DOMAIN db'.proposals = 1..(n + 1)
          /\ db'.proposals[n + 1] = P
          /\ \A p \in 1..n : db'.proposals[p] = ps[p]
      BY <1>4, <1>11, AppendProperties, LenProperties DEF Proposes
    <2> HIDE DEF n
    <2>2. SourcesInv'
      BY <1>9, <1>11, <2>1 DEF SourcesInv, Proposes
    <2>3. ASSUME NEW p \in 1..n, ps[p].sources # {}
          PROVE  /\ Cardinality(ps[p].sources) = 2 /\ Agree(db'.feedback, ps[p].sources)
                 /\ ~ps[p].late =>
                       \A q \in 1..(p - 1) : ps[q].sources \cap ps[p].sources = {}
                 /\ p \in Open(db)' /\ ~ps[p].late => \A q \in 1..(p - 1) : q \notin Open(db)'
      <3>1. p \in DOMAIN ps /\ \A q \in 1..(p - 1) : q \in 1..n
        BY <2>1
      <3>2. /\ Cardinality(ps[p].sources) = 2 /\ Agree(db.feedback, ps[p].sources)
            /\ ~ps[p].late =>
                  \A q \in 1..(p - 1) : ps[q].sources \cap ps[p].sources = {}
            /\ p \in Open(db) /\ ~ps[p].late => \A q \in 1..(p - 1) : q \notin Open(db)
        BY <2>3, <3>1 DEF SignalsCountedOnce
      <3>3. Agree(db'.feedback, ps[p].sources)
        BY <1>9, <3>1, <3>2 DEF Agree
      <3>4. \A q \in 1..n : q \in Open(db)' <=> q \in Open(db)
        BY <2>1 DEF Open
      <3> QED BY <3>1, <3>2, <3>3, <3>4
    <2>4. /\ Cardinality(P.sources) = 2 /\ Agree(db'.feedback, P.sources)
          /\ ~P.late => \A q \in 1..n : ps[q].sources \cap P.sources = {}
          /\ ~P.late => \A q \in 1..n : q \notin Open(db)'
      <3>1. ASSUME ~P.late, NEW q \in 1..n
            PROVE  ps[q].sources \cap P.sources = {}
        BY <1>3, <1>9, <1>11, <2>1, <3>1 DEF Proposes
      <3>2. ASSUME ~P.late, NEW q \in 1..n
            PROVE  q \notin Open(db)'
        BY <1>11, <2>1, <3>2 DEF Proposes, Open
      <3> QED BY <1>11, <3>1, <3>2 DEF Proposes
    <2>5. SignalsCountedOnce'
      <3>1. SUFFICES ASSUME NEW p \in 1..(n + 1), db'.proposals[p].sources # {}
                     PROVE  /\ Cardinality(db'.proposals[p].sources) = 2
                            /\ Agree(db'.feedback, db'.proposals[p].sources)
                            /\ ~db'.proposals[p].late => \A q \in 1..(p - 1) :
                                  db'.proposals[q].sources \cap db'.proposals[p].sources = {}
                            /\ p \in Open(db)' /\ ~db'.proposals[p].late =>
                                  \A q \in 1..(p - 1) : q \notin Open(db)'
        BY <2>1 DEF SignalsCountedOnce
      <3>2. CASE p \in 1..n
        <4>1. \A q \in 1..(p - 1) : q \in 1..n
          BY <2>1, <3>2
        <4> QED BY <2>1, <2>3, <3>1, <3>2, <4>1
      <3>3. CASE p = n + 1
        <4>1. \A q \in 1..(p - 1) : q \in 1..n
          BY <2>1, <3>3
        <4> QED BY <2>1, <2>4, <3>3, <4>1
      <3> QED BY <2>1, <3>1, <3>2, <3>3
    <2> QED BY <1>4, <1>5, <1>6, <2>2, <2>5
  <1> QED BY <1>1, <1>10, <1>11 DEF Leaves

LEMMA RequestKeeps ==
  ASSUME IInv, RequestMastery
  PROVE  IInv'
  <1> DEFINE ps == db.proposals
             n == Len(ps)
             P == [status |-> "pending_validation", sources |-> {}, late |-> FALSE]
  <1> USE DEF IInv
  <1>1. /\ DOMAIN db' = DOMAIN db /\ db'.feedback = db.feedback
        /\ db'.proposals = Append(ps, P) /\ turns' = turns /\ Open(db) = {}
    BY DEF RequestMastery, TypeInv
  <1>2. P \in Proposal /\ P.sources = {} /\ ps \in Seq(Proposal)
    BY DEF Proposal, TypeInv
  <1> HIDE DEF P
  <1>3. /\ n \in Nat /\ DOMAIN ps = 1..n /\ DOMAIN db'.proposals = 1..(n + 1)
        /\ db'.proposals[n + 1] = P /\ db'.proposals \in Seq(Proposal)
        /\ \A p \in 1..n : db'.proposals[p] = ps[p]
    BY <1>1, <1>2, AppendProperties, LenProperties
  <1> HIDE DEF n
  <1>4. TypeInv' /\ OwnInv' /\ ViewInv'
    BY <1>1, <1>3 DEF TypeInv, OwnInv, ViewInv
  <1>5. SourcesInv'
    BY <1>1, <1>2, <1>3 DEF SourcesInv
  <1>6. SignalsCountedOnce'
    <2>1. SUFFICES ASSUME NEW p \in 1..n, ps[p].sources # {}
                   PROVE  /\ Cardinality(ps[p].sources) = 2 /\ Agree(db'.feedback, ps[p].sources)
                          /\ ~ps[p].late =>
                                \A q \in 1..(p - 1) :
                                   db'.proposals[q].sources \cap ps[p].sources = {}
                          /\ p \in Open(db)' /\ ~ps[p].late =>
                                \A q \in 1..(p - 1) : q \notin Open(db)'
      BY <1>2, <1>3 DEF SignalsCountedOnce
    <2>2. p \in DOMAIN ps /\ \A q \in 1..(p - 1) : q \in 1..n
      BY <1>3
    <2>3. /\ Cardinality(ps[p].sources) = 2 /\ Agree(db.feedback, ps[p].sources)
          /\ ~ps[p].late => \A q \in 1..(p - 1) : ps[q].sources \cap ps[p].sources = {}
      BY <2>1, <2>2 DEF SignalsCountedOnce
    <2>4. \A q \in 1..n : q \notin Open(db)'
      BY <1>1, <1>3 DEF Open
    <2> QED BY <1>1, <1>3, <2>2, <2>3, <2>4
  <1> QED BY <1>4, <1>5, <1>6

LEMMA AnswerKeeps ==
  ASSUME IInv, AnswerCheck
  PROVE  IInv'
  <1> DEFINE ps == db.proposals
  <1> USE DEF IInv
  <1>1. PICK p \in DOMAIN ps :
          /\ ps[p].status = "pending_validation" /\ UNCHANGED turns
          /\ \E stays \in {db.current, FALSE} :
                db' = [db EXCEPT !.proposals[p].status = "closed", !.current = stays]
    BY DEF AnswerCheck
  <1>2. /\ DOMAIN db' = DOMAIN db /\ db'.feedback = db.feedback
        /\ db'.proposals = [ps EXCEPT ![p].status = "closed"]
    BY <1>1 DEF TypeInv
  <1>3. ps \in Seq(Proposal) /\ ps[p] \in Proposal /\ DOMAIN ps = 1..Len(ps) /\ Len(ps) \in Nat
    BY ElementOfSeq, LenProperties DEF TypeInv
  <1>4. /\ [ps[p] EXCEPT !.status = "closed"] \in Proposal
        /\ [ps[p] EXCEPT !.status = "closed"].status = "closed"
        /\ [ps[p] EXCEPT !.status = "closed"].sources = ps[p].sources
        /\ [ps[p] EXCEPT !.status = "closed"].late = ps[p].late
    BY <1>3 DEF Proposal
  <1>5. /\ db'.proposals = [ps EXCEPT ![p] = [ps[p] EXCEPT !.status = "closed"]]
        /\ db'.proposals \in Seq(Proposal) /\ DOMAIN db'.proposals = DOMAIN ps
    <2>1. db'.proposals = [ps EXCEPT ![p] = [ps[p] EXCEPT !.status = "closed"]]
      BY <1>2
    <2> QED BY <1>3, <1>4, <2>1, ExceptSeq
  <1>6. \A q \in DOMAIN ps : /\ db'.proposals[q].sources = ps[q].sources
                             /\ db'.proposals[q].late = ps[q].late
                             /\ db'.proposals[q].status \in {ps[q].status, "closed"}
    BY <1>4, <1>5
  <1>7. TypeInv' /\ OwnInv' /\ ViewInv'
    BY <1>1, <1>2, <1>5 DEF TypeInv, OwnInv, ViewInv
  <1>8. SourcesInv'
    BY <1>2, <1>5, <1>6 DEF SourcesInv
  <1>9. SignalsCountedOnce'
    <2>1. \A q \in DOMAIN ps : q \in Open(db)' => q \in Open(db)
      BY <1>5, <1>6 DEF Open
    <2>2. \A q \in DOMAIN ps : \A r \in 1..(q - 1) : r \in DOMAIN ps
      BY <1>3
    <2>3. \A r : r \in Open(db)' => r \in DOMAIN ps
      BY <1>5 DEF Open
    <2> QED BY <1>2, <1>5, <1>6, <2>1, <2>2, <2>3 DEF SignalsCountedOnce
  <1> QED BY <1>7, <1>8, <1>9

LEMMA StepKeeps ==
  ASSUME IInv, [Next]_vars
  PROVE  IInv'
  <1>1. ASSUME NEW t \in Turns, NEW s \in Sessions, Send(t, s)
        PROVE  IInv'
    <2>1. turns[t].at = "free"
      BY <1>1 DEF Send, IsNext
    <2> QED BY <1>1, <2>1, AsideKeeps DEF Send, Aside, IInv, TypeInv
  <1>2. ASSUME NEW t \in Turns, NEW s \in Sessions, Post(t, s)
        PROVE  IInv'
    BY <1>2, RunningKeeps DEF Post, IsNext
  <1>3. ASSUME NEW t \in Turns, Begin(t)
        PROVE  IInv'
    BY <1>3, RunningKeeps DEF Begin
  <1>4. ASSUME NEW t \in Turns, Commit(t)
        PROVE  IInv'
    BY <1>4, CommitKeeps
  <1>5. ASSUME NEW t \in Turns, Raise(t)
        PROVE  IInv'
    BY <1>5, AsideKeeps DEF Raise, Ends, Aside, IInv, TypeInv
  <1>6. ASSUME NEW t \in Turns, Deliver(t)
        PROVE  IInv'
    BY <1>6, AsideKeeps DEF Deliver, Aside, IInv, TypeInv
  <1>7. ASSUME NEW t \in Turns, Leave(t) \/ ReadPause(t) \/ WritePause(t)
        PROVE  IInv'
    BY <1>7, AsideKeeps DEF Leave, ReadPause, WritePause, Aside, IInv, TypeInv
  <1>8. CASE Crash
    BY <1>8, AsideKeeps DEF Crash, Aside, IInv, TypeInv
  <1>9. CASE UNCHANGED vars
    BY <1>9, AsideKeeps DEF vars, Aside, IInv, TypeInv
  <1> QED BY <1>1, <1>2, <1>3, <1>4, <1>5, <1>6, <1>7, <1>8, <1>9, RequestKeeps, AnswerKeeps
          DEF Next

LEMMA InitKeeps ==
  ASSUME Init
  PROVE  IInv
  <1>1. /\ db.feedback = [t \in Turns |-> NoFeedback] /\ db.proposals = <<>>
        /\ DOMAIN db = {"count", "reply", "feedback", "proposals", "current", "task"}
    BY DEF Init
  <1>2. TypeInv
    BY <1>1, EmptySeq DEF Init, TypeInv, IsTable
  <1>3. OwnInv /\ ViewInv
    BY <1>1 DEF Init, OwnInv, ViewInv
  <1>4. SourcesInv /\ SignalsCountedOnce
    BY <1>1 DEF SourcesInv, SignalsCountedOnce
  <1> QED BY <1>2, <1>3, <1>4 DEF IInv

\* The inductive invariant of the conversations.
THEOREM Invariance == Spec => []IInv
  <1> QED BY InitKeeps, StepKeeps, PTL DEF Spec

\* Two signals of one direction make at most one proposal, whatever turns overlap, are
\* paused, fail or are lost in a restart (maybe_create_automatic_assessment,
\* _qualifying_feedback, _pending_proposal).
THEOREM SignalsCount == Spec => []SignalsCountedOnce
  <1>1. IInv => SignalsCountedOnce
    BY DEF IInv
  <1> QED BY Invariance, <1>1, PTL

-----------------------------------------------------------------------------
(* Folds, ranks and sums                                                   *)

\* A fold is the end of the sequence of what it has built so far.
LEMMA FoldedIs ==
  ASSUME NEW step, NEW base, NEW seq, Len(seq) \in Nat
  PROVE  \E u : /\ u[0] = base
                /\ \A i \in 1..Len(seq) : u[i] = step[u[i - 1]][seq[i]]
                /\ Folded(step, base, seq) = u[Len(seq)]
  <1> DEFINE n == Len(seq)
             IsUpTo(g, m) == g = [i \in 0..m |-> IF i = 0 THEN base ELSE step[g[i - 1]][seq[i]]]
             Defined == {m \in Nat : \E g : IsUpTo(g, m)}
  <1>2. 0 \in Defined
    <2>1. IsUpTo([i \in 0..0 |-> base], 0)
      OBVIOUS
    <2> QED BY <2>1
  <1>3. ASSUME NEW m \in Defined
        PROVE  m + 1 \in Defined
    <2>1. PICK g : IsUpTo(g, m)
      OBVIOUS
    <2> DEFINE h == [i \in 0..(m + 1) |-> IF i = m + 1 THEN step[g[m]][seq[m + 1]] ELSE g[i]]
    <2>2. IsUpTo(h, m + 1)
      <3>1. \A i \in 0..(m + 1) : h[i] = IF i = 0 THEN base ELSE step[h[i - 1]][seq[i]]
        <4>1. TAKE i \in 0..(m + 1)
        <4>2. CASE i = m + 1
          <5>1. h[i] = step[g[m]][seq[m + 1]] /\ i # 0 /\ h[i - 1] = g[m] /\ seq[i] = seq[m + 1]
            BY <4>2
          <5> QED BY <5>1
        <4>3. CASE i # m + 1
          <5>1. i \in 0..m /\ h[i] = g[i] /\ (i # 0 => i - 1 \in 0..m /\ h[i - 1] = g[i - 1])
            BY <4>3
          <5>2. g[i] = IF i = 0 THEN base ELSE step[g[i - 1]][seq[i]]
            BY <2>1, <5>1
          <5> QED BY <5>1, <5>2
        <4> QED BY <4>2, <4>3
      <3> QED BY <3>1
    <2> HIDE DEF h
    <2>3. m + 1 \in Nat /\ \E g1 : IsUpTo(g1, m + 1)
      BY <2>2
    <2> QED BY <2>3
  <1>4. Defined = Nat
    <2> HIDE DEF Defined
    <2> QED BY <1>2, <1>3, SetInduction DEF Defined
  <1> DEFINE upTo == CHOOSE g : g = [i \in 0..n |-> IF i = 0 THEN base ELSE step[g[i - 1]][seq[i]]]
  <1>5. IsUpTo(upTo, n)
    <2>1. \E g : IsUpTo(g, n)
      BY <1>4
    <2> QED BY <2>1
  <1>6. Folded(step, base, seq) = upTo[n]
    BY DEF Folded
  <1>7. \A m \in 0..n : upTo[m] = IF m = 0 THEN base ELSE step[upTo[m - 1]][seq[m]]
    <2> HIDE DEF upTo
    <2> QED BY <1>5
  <1> HIDE DEF upTo
  <1>8. upTo[0] = base /\ \A i \in 1..n : upTo[i] = step[upTo[i - 1]][seq[i]]
    BY <1>7
  <1> QED BY <1>6, <1>8

\* A finite set of elements with a natural value has one of the greatest.
LEMMA GreatestExists ==
  ASSUME NEW S, IsFiniteSet(S), S # {}, NEW value \in [S -> Nat]
  PROVE  \E x \in S : \A y \in S : value[x] >= value[y]
  <1> DEFINE Above(x) == {y \in S : value[y] > value[x]}
             Counts == {Cardinality(Above(x)) : x \in S}
  <1>1. \A x \in S : IsFiniteSet(Above(x)) /\ Cardinality(Above(x)) \in Nat
    BY FS_Subset, FS_CardinalityType
  <1>2. Counts \in SUBSET Nat /\ Counts # {}
    BY <1>1
  <1>3. PICK c \in Counts : \A d \in Counts : c <= d
    BY <1>2, LeastNumber
  <1>4. PICK x \in S : c = Cardinality(Above(x))
    OBVIOUS
  <1>5. SUFFICES ASSUME NEW y \in S, ~(value[x] >= value[y])
                 PROVE  FALSE
    OBVIOUS
  <1>6. Above(y) \subseteq Above(x) /\ y \in Above(x) /\ y \notin Above(y)
    BY <1>5
  <1>7. Cardinality(Above(y)) <= Cardinality(Above(x))
        /\ Cardinality(Above(y)) # Cardinality(Above(x))
    BY <1>1, <1>6, FS_Subset
  <1>8. Cardinality(Above(x)) <= Cardinality(Above(y))
    BY <1>3, <1>4
  <1>9. Cardinality(Above(x)) \in Nat /\ Cardinality(Above(y)) \in Nat
    BY <1>1
  <1> HIDE DEF Above
  <1> QED BY <1>7, <1>8, <1>9

\* A ranking lists every element once.
LEMMA RankedIs ==
  ASSUME NEW S, IsFiniteSet(S), NEW value \in [S -> Nat]
  PROVE  LET r == Ranked(S, value) IN
         /\ r \in Seq(S) /\ Len(r) = Cardinality(S) /\ ToSet(r) = S
         /\ \A i, j \in 1..Len(r) : r[i] = r[j] => i = j
  <1> DEFINE n == Cardinality(S)
             Best(T) == CHOOSE x \in T : \A y \in T : value[x] >= value[y]
             step == [s \in Seq(S) |-> [i \in Nat |-> Append(s, Best(S \ ToSet(s)))]]
             seq == [i \in 1..n |-> i]
             Good(s, i) == /\ s \in Seq(S) /\ Len(s) = i /\ Cardinality(S \ ToSet(s)) = n - i
                           /\ \A a, b \in 1..Len(s) : s[a] = s[b] => a = b
  <1>1. n \in Nat
    BY FS_CardinalityType
  <1>2. Len(seq) = n /\ \A i \in 1..n : seq[i] = i
    BY <1>1
  <1>3. PICK u : /\ u[0] = <<>>
                 /\ \A i \in 1..n : u[i] = step[u[i - 1]][i]
                 /\ Folded(step, <<>>, seq) = u[n]
    <2> HIDE DEF step, seq
    <2>1. PICK u : /\ u[0] = <<>>
                   /\ \A i \in 1..Len(seq) : u[i] = step[u[i - 1]][seq[i]]
                   /\ Folded(step, <<>>, seq) = u[Len(seq)]
      BY <1>1, <1>2, FoldedIs
    <2> QED BY <1>2, <2>1
  <1>4. Ranked(S, value) = u[n]
    BY <1>3 DEF Ranked
  <1> DEFINE Reached == {i \in Nat : i <= n => Good(u[i], i)}
  <1>5. 0 \in Reached
    <2>1. ToSet(<<>>) = {}
      BY DEF ToSet
    <2>2. Len(<<>>) = 0 /\ <<>> \in Seq(S) /\ S \ {} = S
      OBVIOUS
    <2>3. u[0] \in Seq(S) /\ Len(u[0]) = 0 /\ S \ ToSet(u[0]) = S
      BY <1>3, <2>1, <2>2
    <2>4. n = n - 0
      <3> HIDE DEF n
      <3> QED BY <1>1
    <2>5. Good(u[0], 0)
      <3>1. Cardinality(S \ ToSet(u[0])) = n - 0
        BY <2>3, <2>4, Zenon
      <3>2. \A a, b \in 1..Len(u[0]) : u[0][a] = u[0][b] => a = b
        BY <2>3
      <3> QED BY <2>3, <3>1, <3>2
    <2> HIDE DEF Good
    <2> QED BY <2>5
  <1>6. ASSUME NEW i \in Reached
        PROVE  i + 1 \in Reached
    <2>1. SUFFICES ASSUME i + 1 <= n
                   PROVE  Good(u[i + 1], i + 1)
      OBVIOUS
    <2> DEFINE s == u[i]
               left == S \ ToSet(s)
               x == Best(left)
    <2>2. Good(s, i) /\ i + 1 \in 1..n /\ i + 1 - 1 = i
      BY <1>1, <2>1
    <2>3. IsFiniteSet(left) /\ Cardinality(left) # 0
      <3>1. IsFiniteSet(left)
        BY FS_Difference
      <3> QED BY <1>1, <2>1, <2>2, <3>1
    <2>4. left # {}
      BY <2>3, FS_EmptySet
    <2>5. x \in left
      <3>1. [y \in left |-> value[y]] \in [left -> Nat]
        OBVIOUS
      <3>2. \E y \in left : \A z \in left : [a \in left |-> value[a]][y] >= [a \in left |-> value[a]][z]
        BY <2>3, <2>4, <3>1, GreatestExists
      <3>3. \E y \in left : \A z \in left : value[y] >= value[z]
        BY <3>2
      <3> HIDE DEF left
      <3> QED BY <3>3
    <2>6. u[i + 1] = Append(s, x)
      <3>1. u[i + 1] = step[u[i]][i + 1]
        <4> HIDE DEF step, n
        <4> QED BY <1>3, <2>2
      <3>2. u[i] \in Seq(S) /\ i + 1 \in Nat
        BY <2>2
      <3>3. step[u[i]][i + 1] = Append(u[i], Best(S \ ToSet(u[i])))
        <4> HIDE DEF Best
        <4> QED BY <3>2
      <3> QED BY <3>1, <3>3
    <2> HIDE DEF x, s
    <2>7. /\ Append(s, x) \in Seq(S) /\ Len(Append(s, x)) = i + 1
          /\ \A j \in 1..i : Append(s, x)[j] = s[j]
          /\ Append(s, x)[i + 1] = x
      BY <2>2, <2>5, AppendProperties
    <2>8. ToSet(Append(s, x)) = ToSet(s) \cup {x}
      <3>1. DOMAIN s = 1..i /\ DOMAIN Append(s, x) = 1..(i + 1)
        BY <2>2, <2>7, LenProperties
      <3> QED BY <2>7, <3>1 DEF ToSet
    <2>9. Cardinality(S \ ToSet(Append(s, x))) = n - (i + 1)
      <3>1. S \ ToSet(Append(s, x)) = left \ {x}
        BY <2>8
      <3>2. Cardinality(left \ {x}) = Cardinality(left) - 1
        BY <2>3, <2>5, FS_RemoveElement
      <3>3. Cardinality(left) = n - i
        BY <2>2
      <3>4. Cardinality(S \ ToSet(Append(s, x))) = n - i - 1
        BY <3>1, <3>2, <3>3, Zenon
      <3>5. n - i - 1 = n - (i + 1)
        <4> HIDE DEF n
        <4> QED BY <1>1
      <3> QED BY <3>4, <3>5, Zenon
    <2>10. \A a, b \in 1..(i + 1) : Append(s, x)[a] = Append(s, x)[b] => a = b
      <3>1. DOMAIN s = 1..i
        BY <2>2, LenProperties
      <3>2. \A a \in 1..i : s[a] # x
        BY <2>5, <3>1 DEF ToSet
      <3> QED BY <2>2, <2>7, <3>2
    <2> QED BY <2>6, <2>7, <2>9, <2>10
  <1>7. Reached = Nat
    <2> HIDE DEF Reached
    <2> QED BY <1>5, <1>6, SetInduction DEF Reached
  <1>8. Good(u[n], n)
    <2>1. n \in Reached
      BY <1>1, <1>7
    <2>2. n <= n
      BY <1>1
    <2> HIDE DEF Good, n
    <2> QED BY <2>1, <2>2
  <1>9. ToSet(u[n]) = S
    <2>1. S \ ToSet(u[n]) = {}
      <3>1. IsFiniteSet(S \ ToSet(u[n]))
        BY FS_Difference
      <3>2. Cardinality(S \ ToSet(u[n])) = 0
        <4>1. Cardinality(S \ ToSet(u[n])) = n - n
          BY <1>8
        <4> HIDE DEF n
        <4> QED BY <1>1, <4>1
      <3> QED BY <3>1, <3>2, FS_EmptySet
    <2>2. ToSet(u[n]) \subseteq S
      BY <1>8, LenProperties DEF ToSet
    <2> QED BY <2>1, <2>2
  <1> QED BY <1>4, <1>8, <1>9

\* A sum adds the value of every element of its domain once, in an order that
\* depends on the domain alone.
Enumerates(e, D) ==
    /\ Cardinality(D) \in Nat /\ DOMAIN e = 1..Cardinality(D)
    /\ \A i \in 1..Cardinality(D) : e[i] \in D
    /\ \A x \in D : \E i \in 1..Cardinality(D) : e[i] = x
    /\ \A i, j \in 1..Cardinality(D) : e[i] = e[j] => i = j

Listing(D) == Ranked(D, [x \in D |-> 0])

LEMMA ListingIs ==
  ASSUME NEW D, IsFiniteSet(D)
  PROVE  Enumerates(Listing(D), D) /\ Len(Listing(D)) = Cardinality(D)
  <1> DEFINE zero == [x \in D |-> 0]
             e == Ranked(D, zero)
  <1>1. zero \in [D -> Nat]
    OBVIOUS
  <1> HIDE DEF zero
  <1>2. /\ e \in Seq(D) /\ Len(e) = Cardinality(D) /\ ToSet(e) = D
        /\ \A i, j \in 1..Len(e) : e[i] = e[j] => i = j
    BY <1>1, RankedIs
  <1>3. Cardinality(D) \in Nat
    BY FS_CardinalityType
  <1> HIDE DEF e
  <1>4. DOMAIN e = 1..Cardinality(D) /\ \A i \in 1..Cardinality(D) : e[i] \in D
    BY <1>2, LenProperties
  <1>5. \A x \in D : \E i \in 1..Cardinality(D) : e[i] = x
    BY <1>2, <1>4 DEF ToSet
  <1>6. Enumerates(e, D) /\ Len(e) = Cardinality(D)
    BY <1>2, <1>3, <1>4, <1>5 DEF Enumerates
  <1> QED BY <1>6 DEF e, zero, Listing

LEMMA TotalIs ==
  ASSUME NEW D, IsFiniteSet(D), NEW f \in [D -> Int]
  PROVE  \E u : /\ u[0] = 0
                /\ \A i \in 0..Cardinality(D) : u[i] \in Int
                /\ \A i \in 1..Cardinality(D) : u[i] = u[i - 1] + f[Listing(D)[i]]
                /\ Total(f) = u[Cardinality(D)]
  <1> DEFINE n == Cardinality(D)
             e == Listing(D)
             step == [sum \in Int |-> [x \in D |-> sum + f[x]]]
  <1>1. n \in Nat /\ Len(e) = n /\ \A i \in 1..n : e[i] \in D
    BY ListingIs DEF Enumerates
  <1> HIDE DEF e
  <1>3. Total(f) = Folded(step, 0, e)
    <2>1. DOMAIN f = D
      OBVIOUS
    <2> QED BY <2>1 DEF Total, Listing, e
  <1> HIDE DEF step
  <1>4. PICK u : /\ u[0] = 0
                 /\ \A i \in 1..Len(e) : u[i] = step[u[i - 1]][e[i]]
                 /\ Folded(step, 0, e) = u[Len(e)]
    <2>1. Len(e) \in Nat
      BY <1>1
    <2> QED BY ONLY <2>1, FoldedIs
  <1>5. \A m \in Int, x \in D : step[m][x] = m + f[x] /\ m + f[x] \in Int
    BY DEF step
  <1> DEFINE Summed == {i \in Nat : i <= n => u[i] \in Int}
  <1> HIDE DEF n
  <1>6. 0 \in Summed
    BY <1>4
  <1>7. ASSUME NEW i \in Summed
        PROVE  i + 1 \in Summed
    <2>1. SUFFICES ASSUME i + 1 <= n
                   PROVE  u[i + 1] \in Int
      OBVIOUS
    <2>2. i + 1 \in 1..n /\ i + 1 - 1 = i /\ u[i] \in Int
      BY <1>1, <2>1
    <2>3. u[i + 1] = step[u[i]][e[i + 1]]
      BY <1>1, <1>4, <2>2
    <2> QED BY <1>1, <1>5, <2>2, <2>3
  <1>8. Summed = Nat
    <2> HIDE DEF Summed
    <2> QED BY <1>6, <1>7, SetInduction DEF Summed
  <1>9. \A i \in 0..n : u[i] \in Int
    BY <1>1, <1>8
  <1>10. \A i \in 1..n : u[i] = u[i - 1] + f[e[i]]
    <2>1. TAKE i \in 1..n
    <2>2. u[i - 1] \in Int /\ e[i] \in D
      BY <1>1, <1>9
    <2> QED BY <1>1, <1>4, <1>5, <2>2
  <1> QED BY <1>1, <1>3, <1>4, <1>9, <1>10 DEF n, e

\* A sum of greater values is greater, and by as much as any one of them is.
LEMMA TotalGap ==
  ASSUME NEW D, IsFiniteSet(D), NEW f \in [D -> Int], NEW g \in [D -> Int],
         \A x \in D : f[x] <= g[x]
  PROVE  /\ Total(f) \in Int /\ Total(g) \in Int /\ Total(f) <= Total(g)
         /\ \A x \in D : Total(f) + (g[x] - f[x]) <= Total(g)
  <1> DEFINE n == Cardinality(D)
             e == Listing(D)
  <1>1. /\ n \in Nat /\ \A i \in 1..n : e[i] \in D
        /\ \A x \in D : \E i \in 1..n : e[i] = x
    BY ListingIs DEF Enumerates
  <1>2. PICK u : /\ u[0] = 0
                 /\ \A i \in 0..n : u[i] \in Int
                 /\ \A i \in 1..n : u[i] = u[i - 1] + f[e[i]]
                 /\ Total(f) = u[n]
    BY TotalIs
  <1>3. PICK v : /\ v[0] = 0
                 /\ \A i \in 0..n : v[i] \in Int
                 /\ \A i \in 1..n : v[i] = v[i - 1] + g[e[i]]
                 /\ Total(g) = v[n]
    BY TotalIs
  <1> DEFINE Gap(x) == g[x] - f[x]
             Below(i) == /\ u[i] <= v[i]
                         /\ \A j \in 1..i : u[i] + Gap(e[j]) <= v[i]
             Reached == {i \in Nat : i <= n => Below(i)}
  <1> HIDE DEF n, e
  <1>4. 0 \in Reached
    BY <1>1, <1>2, <1>3
  <1>5. ASSUME NEW i \in Reached
        PROVE  i + 1 \in Reached
    <2>1. SUFFICES ASSUME i + 1 <= n
                   PROVE  Below(i + 1)
      OBVIOUS
    <2>2. i + 1 \in 1..n /\ i + 1 - 1 = i /\ i \in 0..n /\ Below(i)
      BY <1>1, <2>1
    <2>3. /\ u[i + 1] = u[i] + f[e[i + 1]] /\ v[i + 1] = v[i] + g[e[i + 1]]
          /\ u[i] \in Int /\ v[i] \in Int
      BY <1>2, <1>3, <2>2
    <2>4. /\ \A j \in 1..n : e[j] \in D /\ Gap(e[j]) \in Int
          /\ e[i + 1] \in D /\ f[e[i + 1]] \in Int /\ g[e[i + 1]] \in Int
          /\ f[e[i + 1]] <= g[e[i + 1]] /\ Gap(e[i + 1]) = g[e[i + 1]] - f[e[i + 1]]
      BY <1>1, <2>2
    <2>5. u[i] <= v[i] /\ \A j \in 1..i : u[i] + Gap(e[j]) <= v[i]
      BY <2>2
    <2> HIDE DEF Gap
    <2>6. u[i + 1] <= v[i + 1] /\ u[i + 1] + Gap(e[i + 1]) <= v[i + 1]
      BY <2>3, <2>4, <2>5
    <2>7. ASSUME NEW j \in 1..i
          PROVE  u[i + 1] + Gap(e[j]) <= v[i + 1]
      <3>1. j \in 1..n
        BY <1>1, <2>2
      <3>2. Gap(e[j]) \in Int /\ u[i] + Gap(e[j]) <= v[i]
        BY <2>4, <2>5, <3>1
      <3> QED BY <2>3, <2>4, <3>2
    <2>8. \A j \in 1..(i + 1) : j \in 1..i \/ j = i + 1
      OBVIOUS
    <2> QED BY <2>6, <2>7, <2>8
  <1>6. Reached = Nat
    <2> HIDE DEF Reached
    <2> QED BY <1>4, <1>5, SetInduction DEF Reached
  <1>7. Below(n)
    <2>1. n \in Reached
      BY <1>1, <1>6
    <2> HIDE DEF Below
    <2> QED BY <1>1, <2>1
  <1>8. u[n] \in Int /\ v[n] \in Int
    BY <1>1, <1>2, <1>3
  <1>9. \A x \in D : u[n] + (g[x] - f[x]) <= v[n]
    BY <1>1, <1>7
  <1> QED BY <1>2, <1>3, <1>7, <1>8, <1>9

\* A sum to which only R contributes, each at most c, is at most c times |R|.
LEMMA TotalAtMost ==
  ASSUME NEW D, IsFiniteSet(D), NEW R \in SUBSET D, NEW f \in [D -> Int], NEW c \in Nat,
         \A x \in R : f[x] <= c, \A x \in D \ R : f[x] <= 0
  PROVE  /\ Total(f) \in Int /\ Cardinality(R) \in Nat
         /\ Total(f) <= c * Cardinality(R)
  <1> DEFINE n == Cardinality(D)
             e == Listing(D)
  <1>1. /\ n \in Nat /\ \A i \in 1..n : e[i] \in D
        /\ \A x \in D : \E i \in 1..n : e[i] = x
        /\ \A i, j \in 1..n : e[i] = e[j] => i = j
    BY ListingIs DEF Enumerates
  <1>2. PICK u : /\ u[0] = 0
                 /\ \A i \in 0..n : u[i] \in Int
                 /\ \A i \in 1..n : u[i] = u[i - 1] + f[e[i]]
                 /\ Total(f) = u[n]
    BY TotalIs
  <1> DEFINE Seen(i) == {x \in R : \E j \in 1..i : e[j] = x}
             Reached == {i \in Nat : i <= n => u[i] <= c * Cardinality(Seen(i))}
  <1> HIDE DEF n, e
  <1>3. \A i \in Nat : IsFiniteSet(Seen(i)) /\ Cardinality(Seen(i)) \in Nat
    <2>1. TAKE i \in Nat
    <2>2. Seen(i) \in SUBSET D
      OBVIOUS
    <2> HIDE DEF Seen
    <2>3. IsFiniteSet(Seen(i))
      BY <2>2, FS_Subset
    <2> QED BY <2>3, FS_CardinalityType
  <1>4. 0 \in Reached
    <2>1. Seen(0) = {}
      OBVIOUS
    <2>2. Cardinality(Seen(0)) = 0
      BY <2>1, FS_EmptySet
    <2> HIDE DEF Seen
    <2>3. c * Cardinality(Seen(0)) = 0
      BY <2>2
    <2> QED BY <1>2, <2>3
  <1>5. ASSUME NEW i \in Reached
        PROVE  i + 1 \in Reached
    <2>1. SUFFICES ASSUME i + 1 <= n
                   PROVE  u[i + 1] <= c * Cardinality(Seen(i + 1))
      OBVIOUS
    <2>2. i + 1 \in 1..n /\ i + 1 - 1 = i /\ i \in 0..n /\ i \in Nat
      BY <1>1, <2>1
    <2>3. /\ u[i + 1] = u[i] + f[e[i + 1]] /\ u[i] \in Int /\ e[i + 1] \in D
          /\ f[e[i + 1]] \in Int
      BY <1>1, <1>2, <2>2
    <2>4. u[i] <= c * Cardinality(Seen(i))
      BY <1>1, <2>1
    <2>5. CASE e[i + 1] \in R
      <3>1. e[i + 1] \notin Seen(i)
        BY <1>1, <2>2
      <3>2. Seen(i + 1) = Seen(i) \cup {e[i + 1]}
        BY <2>2, <2>5
      <3> HIDE DEF Seen
      <3>3. Cardinality(Seen(i + 1)) = Cardinality(Seen(i)) + 1
        BY <1>3, <2>2, <3>1, <3>2, FS_AddElement
      <3>4. Cardinality(Seen(i)) \in Nat
        BY <1>3, <2>2
      <3>5. c * (Cardinality(Seen(i)) + 1) = c * Cardinality(Seen(i)) + c
            /\ c * Cardinality(Seen(i)) \in Int
        BY <3>4
      <3>6. f[e[i + 1]] <= c
        BY <2>5
      <3> DEFINE p == c * Cardinality(Seen(i))
      <3>7. p \in Int /\ u[i] <= p /\ c * Cardinality(Seen(i + 1)) = p + c
        BY <2>4, <3>3, <3>5
      <3> HIDE DEF p
      <3> QED BY <2>3, <3>6, <3>7
    <2>6. CASE e[i + 1] \notin R
      <3>1. Seen(i + 1) = Seen(i)
        BY <2>2, <2>6
      <3>2. f[e[i + 1]] <= 0
        BY <2>3, <2>6
      <3> HIDE DEF Seen
      <3>3. c * Cardinality(Seen(i)) \in Int
        BY <1>3, <2>2
      <3> QED BY <2>3, <2>4, <3>1, <3>2, <3>3
    <2> QED BY <2>5, <2>6
  <1>6. Reached = Nat
    <2> HIDE DEF Reached
    <2> QED BY <1>4, <1>5, SetInduction DEF Reached
  <1>7. u[n] \in Int /\ u[n] <= c * Cardinality(Seen(n))
    <2>1. n \in Reached
      BY <1>1, <1>6
    <2> HIDE DEF Seen
    <2> QED BY <1>1, <1>2, <2>1
  <1>8. Seen(n) = R
    BY <1>1
  <1> HIDE DEF Seen
  <1> QED BY <1>1, <1>2, <1>3, <1>7, <1>8

LEMMA TotalNat ==
  ASSUME NEW D, IsFiniteSet(D), NEW f \in [D -> Nat]
  PROVE  Total(f) \in Nat
  <1> DEFINE z == [x \in D |-> 0]
             m == [x \in D |-> -f[x]]
  <1>1. f \in [D -> Int] /\ m \in [D -> Int]
    OBVIOUS
  <1>2. Total(f) \in Int
    BY <1>1, TotalGap
  <1> DEFINE n == Cardinality(D)
             e == Listing(D)
  <1>3. n \in Nat /\ \A i \in 1..n : e[i] \in D
    BY ListingIs DEF Enumerates
  <1>4. PICK u : /\ u[0] = 0
                 /\ \A i \in 0..n : u[i] \in Int
                 /\ \A i \in 1..n : u[i] = u[i - 1] + f[e[i]]
                 /\ Total(f) = u[n]
    BY <1>1, TotalIs
  <1> DEFINE Reached == {i \in Nat : i <= n => u[i] >= 0}
  <1> HIDE DEF n, e
  <1>5. 0 \in Reached
    BY <1>4
  <1>6. ASSUME NEW i \in Reached
        PROVE  i + 1 \in Reached
    <2>1. SUFFICES ASSUME i + 1 <= n
                   PROVE  u[i + 1] >= 0
      OBVIOUS
    <2>2. i + 1 \in 1..n /\ i + 1 - 1 = i /\ i \in 0..n /\ u[i] >= 0
      BY <1>3, <2>1
    <2>3. u[i + 1] = u[i] + f[e[i + 1]] /\ u[i] \in Int /\ f[e[i + 1]] \in Nat
      BY <1>3, <1>4, <2>2
    <2> QED BY <2>2, <2>3
  <1>7. Reached = Nat
    <2> HIDE DEF Reached
    <2> QED BY <1>5, <1>6, SetInduction DEF Reached
  <1>8. u[n] >= 0
    BY <1>3, <1>7
  <1> QED BY <1>2, <1>4, <1>8

-----------------------------------------------------------------------------
(* The plan                                                                *)

LEMMA MinMaxOfTwo ==
  ASSUME NEW a \in Int, NEW b \in Int
  PROVE  /\ Min({a, b}) = IF a <= b THEN a ELSE b
         /\ Max({a, b}) = IF a >= b THEN a ELSE b
  <1>1. \A y \in {a, b} : (IF a <= b THEN a ELSE b) <= y
    OBVIOUS
  <1>2. \A x \in {a, b} : (\A y \in {a, b} : x <= y) => x = IF a <= b THEN a ELSE b
    OBVIOUS
  <1>3. \A y \in {a, b} : (IF a >= b THEN a ELSE b) >= y
    OBVIOUS
  <1>4. \A x \in {a, b} : (\A y \in {a, b} : x >= y) => x = IF a >= b THEN a ELSE b
    OBVIOUS
  <1> QED BY <1>1, <1>2, <1>3, <1>4 DEF Min, Max

IsWeak(weak) ==
    /\ weak = [k \in DOMAIN weak |-> weak[k]] /\ DOMAIN weak \subseteq Knowledge
    /\ \A k \in DOMAIN weak : weak[k].level \in Int /\ weak[k].reason = "cumulative"

LEMMA PriorityIs ==
  ASSUME NEW p, IsWeak(p.weak), NEW unit \in Units
  PROVE  Priority(p, {}, unit) \in Seq(Knowledge)
  <1> DEFINE weak == p.weak
             value == [k \in DOMAIN weak |->
                         weak[k].level * Max({0} \cup {a.confidence : a \in {x \in {} : x.id \in weak[k].ids}})]
  <1>1. IsFiniteSet(DOMAIN weak)
    BY CatalogAssumption, FS_Subset DEF IsWeak
  <1>2. value \in [DOMAIN weak -> Nat]
    <2>1. Max({0}) = 0
      BY DEF Max
    <2>2. ASSUME NEW k \in DOMAIN weak
          PROVE  weak[k].level * Max({0} \cup {a.confidence : a \in {x \in {} : x.id \in weak[k].ids}}) = 0
      <3>1. {0} \cup {a.confidence : a \in {x \in {} : x.id \in weak[k].ids}} = {0}
        OBVIOUS
      <3>2. weak[k].level * 0 = 0
        BY DEF IsWeak
      <3> QED BY <2>1, <3>1, <3>2, Zenon
    <2> QED BY <2>2
  <1>3. Ranked(DOMAIN weak, value) \in Seq(DOMAIN weak)
    <2> HIDE DEF value, weak
    <2> QED BY <1>1, <1>2, RankedIs
  <1>4. Prioritized(weak, {}) \in Seq(Knowledge)
    <2>1. Prioritized(weak, {}) = Ranked(DOMAIN weak, value)
      BY DEF Prioritized
    <2>2. DOMAIN weak \subseteq Knowledge
      BY DEF IsWeak
    <2> HIDE DEF value, weak
    <2>3. Ranked(DOMAIN weak, value) \in Seq(Knowledge)
      BY <1>3, <2>2
    <2> QED BY <2>1, <2>3
  <1>5. \A s \in Seq(Knowledge) : Head20(s) \in Seq(Knowledge)
    <2>1. TAKE s \in Seq(Knowledge)
    <2>2. Len(s) \in Nat
      OBVIOUS
    <2>3. Min({20, Len(s)}) \in 0..Len(s)
      BY <2>2, MinMaxOfTwo
    <2> DEFINE m == Min({20, Len(s)})
    <2> HIDE DEF m
    <2>4. SubSeq(s, 1, m) \in Seq(Knowledge)
      <3>1. m \in 0..Len(s)
        BY <2>3 DEF m
      <3>2. \A i \in 1..m : s[i] \in Knowledge
        BY <2>2, <3>1
      <3> QED BY <2>2, <3>1, <3>2, SubSeqProperties
    <2> QED BY <2>4 DEF Head20, m
  <1>6. unit \in Seq(Knowledge)
    BY UnitsAssumption
  <1> HIDE DEF weak
  <1> QED BY <1>4, <1>5, <1>6 DEF Priority, weak

LEMMA PlanRoom ==
  ASSUME NEW p, IsWeak(p.weak), NEW unit \in Units, NEW action \in {"explain", "review"},
         Len(Plan(p, {}, unit, action, FALSE).priority) <= 6
  PROVE  LET plan == Plan(p, {}, unit, action, FALSE) IN plan.n_results >= Len(plan.priority) + 6
  <1> DEFINE priority == Priority(p, {}, unit)
             strategy == Strategy(p, {}, action, FALSE)
             before == PlanPrerequisites(p, priority)
             l == Len(priority)
             b == Cardinality(before)
             needed == l + 6 + Min({3, b}) + (IF l > 1 THEN 3 ELSE 1)
             base == IF action \in {"review", "regenerate"} THEN MaximumResults
                     ELSE IF strategy = "remedial" /\ l > 1 THEN RemedialResults
                     ELSE DefaultResults
  <1>1. priority \in Seq(Knowledge) /\ l \in Nat
    BY PriorityIs
  <1>2. /\ Plan(p, {}, unit, action, FALSE).priority = priority
        /\ Plan(p, {}, unit, action, FALSE).n_results = Results(action, strategy, priority, before)
    BY DEF Plan
  <1> HIDE DEF priority
  <1>3. b \in Nat
    <2>1. before \subseteq Knowledge
      <3>1. \A k \in Knowledge : ToSet(PrerequisitesOf[k]) \subseteq Knowledge
        <4>1. TAKE k \in Knowledge
        <4>2. PrerequisitesOf[k] \in Seq(Knowledge)
          BY CatalogAssumption
        <4> QED BY <4>2 DEF ToSet
      <3>2. DOMAIN p.weak \cap ToSet(priority) \subseteq Knowledge
        BY DEF IsWeak
      <3> QED BY <3>1, <3>2 DEF PlanPrerequisites
    <2> QED BY <2>1, CatalogAssumption, FS_Subset, FS_CardinalityType
  <1>4. base \in Int
    BY DEF MaximumResults, RemedialResults, DefaultResults
  <1>5. Results(action, strategy, priority, before) = Min({MaximumResults, Max({base, needed})})
    BY DEF Results
  <1> HIDE DEF before, strategy, base
  <1>6. Min({3, b}) \in Nat
    BY <1>3, MinMaxOfTwo
  <1> HIDE DEF b
  <1>7. needed \in Int /\ needed >= l + 6
    BY <1>1, <1>6
  <1> HIDE DEF needed
  <1>8. Max({base, needed}) \in Int /\ Max({base, needed}) >= needed
    <2>1. Max({base, needed}) = IF base >= needed THEN base ELSE needed
      BY <1>4, <1>7, MinMaxOfTwo
    <2> QED BY <1>4, <1>7, <2>1
  <1>9. l <= 6
    BY <1>2
  <1> HIDE DEF l
  <1>10. Min({12, Max({base, needed})}) >= l + 6
    <2> DEFINE m == Max({base, needed})
    <2> HIDE DEF m
    <2>1. m \in Int /\ m >= needed
      BY <1>8 DEF m
    <2>2. Min({12, m}) = IF 12 <= m THEN 12 ELSE m
      BY <2>1, MinMaxOfTwo
    <2>3. Min({12, m}) >= l + 6
      BY <1>1, <1>7, <1>9, <2>1, <2>2
    <2> QED BY <2>3 DEF m
  <1> QED BY <1>2, <1>5, <1>10 DEF MaximumResults, l

-----------------------------------------------------------------------------
(* The knowledge state                                                     *)

\* The most an answer weighs, and what one of a quiz, a check or a correction does
Heaviest == 13000
Lightest == 6300
Heavy == 11700

FormalIn(ans, x) == x[2] = 0 \/ Formal(ans[x[2]])

RightIn(ans, d, x) == IF x[2] = 0 THEN d[x[1]] = "right" ELSE ans[x[2]].ok

\* x names an answer about k.
Names(x, k, ans) ==
    /\ x[2] \in 0..Len(ans) /\ KnowledgeOf[x[1]] = k
    /\ x[2] # 0 => ans[x[2]].q = x[1]

\* What the state keeps of k agrees with the answers it accepted.
IsItem(item, k, ans, d) ==
    /\ item.s \in Int /\ item.w \in Nat /\ IsFiniteSet(item.ids)
    /\ \A x \in item.ids : Names(x, k, ans)
    /\ item.core = Cardinality({x \in item.ids : FormalIn(ans, x)})
    /\ item.s <= Heaviest * Cardinality({x \in item.ids : RightIn(ans, d, x)})

IsState(st, ans, d) ==
    st = NoState \/ /\ st = [k \in Knowledge |-> st[k]]
                    /\ \A k \in Knowledge : IsItem(st[k], k, ans, d)

\* Evidence as the three kinds of request build it
IsEvidence(a, ans, d) ==
    /\ a.k \in Knowledge /\ Names(a.id, a.k, ans)
    /\ a.difficulty \in 1..5 /\ a.confidence \in 0..100
    /\ IsCore(a) <=> FormalIn(ans, a.id)
    /\ ~a.uncertain => a.score = IF RightIn(ans, d, a.id) THEN 100 ELSE 0

IsBatch(batch, ans, d) ==
    /\ IsFiniteSet(batch)
    /\ \A a \in batch : IsEvidence(a, ans, d)
    /\ \A a, b \in batch : a.id = b.id => a = b

IdsOf(S) == {a.id : a \in S}

LEMMA IdsCount ==
  ASSUME NEW S, IsFiniteSet(S), \A a, b \in S : a.id = b.id => a = b
  PROVE  IsFiniteSet(IdsOf(S)) /\ Cardinality(IdsOf(S)) = Cardinality(S)
  <1> DEFINE f == [a \in S |-> a.id]
  <1>1. f \in Bijection(S, IdsOf(S))
    BY DEF IdsOf, Bijection, Injection, Surjection, IsInjective
  <1>2. ExistsBijection(S, IdsOf(S))
    BY <1>1 DEF ExistsBijection
  <1> QED BY <1>2, FS_Bijection

LEMMA DisjointCount ==
  ASSUME NEW S, NEW T, IsFiniteSet(S), IsFiniteSet(T), S \cap T = {}
  PROVE  /\ Cardinality(S) \in Nat /\ Cardinality(T) \in Nat
         /\ Cardinality(S \cup T) = Cardinality(S) + Cardinality(T)
  <1>1. Cardinality(S \cap T) = 0
    BY FS_EmptySet
  <1>2. Cardinality(S \cup T) = Cardinality(S) + Cardinality(T) - Cardinality(S \cap T)
    BY FS_Union
  <1>3. Cardinality(S) \in Nat /\ Cardinality(T) \in Nat
    BY FS_CardinalityType
  <1> QED BY <1>1, <1>2, <1>3

LEMMA WeightIs ==
  ASSUME NEW a, a.difficulty \in 1..5, a.confidence \in 0..100
  PROVE  /\ Weight(a) \in Nat /\ Weight(a) <= Heaviest
         /\ (100 * Weight(a)) \div 100 = Weight(a) /\ (0 * Weight(a)) \div 100 = 0
         /\ a.confidence = 90 => Lightest <= Weight(a) /\ Weight(a) <= Heavy
  <1> DEFINE w == Weight(a)
  <1>1. Weight(a) \in Nat /\ Weight(a) <= Heaviest /\ (a.confidence = 90 => Lightest <= Weight(a) /\ Weight(a) <= Heavy)
    <2> DEFINE c == a.confidence
    <2>1. c \in 0..100
      OBVIOUS
    <2> HIDE DEF c
    <2>2. (100 + 15 * (a.difficulty - 3)) * c \in {70 * c, 85 * c, 100 * c, 115 * c, 130 * c}
      <3>1. a.difficulty \in {1, 2, 3, 4, 5}
        OBVIOUS
      <3>2. CASE a.difficulty = 1
        BY <2>1, <3>2
      <3>3. CASE a.difficulty = 2
        BY <2>1, <3>3
      <3>4. CASE a.difficulty = 3
        BY <2>1, <3>4
      <3>5. CASE a.difficulty = 4
        BY <2>1, <3>5
      <3>6. CASE a.difficulty = 5
        BY <2>1, <3>6
      <3> QED BY <3>1, <3>2, <3>3, <3>4, <3>5, <3>6
    <2>3. Weight(a) \in {70 * c, 85 * c, 100 * c, 115 * c, 130 * c}
      BY <2>2 DEF Weight, c
    <2> QED BY <2>1, <2>3 DEF c, Heaviest, Heavy, Lightest
  <1> HIDE DEF w
  <1>2. w \in Nat
    BY <1>1 DEF w
  <1>3. (100 * w) \div 100 = w /\ (0 * w) \div 100 = 0
    BY <1>2
  <1> QED BY <1>1, <1>3 DEF w

LEMMA Quotient ==
  ASSUME NEW a \in Int, NEW b \in Nat \ {0}, a \div b >= 8000
  PROVE  a >= 8000 * b
  <1>1. b * (a \div b) <= a
    OBVIOUS
  <1> DEFINE q == a \div b
  <1>2. q \in Int /\ q >= 8000
    OBVIOUS
  <1> HIDE DEF q
  <1>3. b * q >= b * 8000
    BY <1>2
  <1>4. b * q <= a /\ b * q \in Int
    BY <1>1, <1>2 DEF q
  <1> QED BY <1>3, <1>4

\* A known point has two formal answers and two right ones.
LEMMA KnownNeedsTwo ==
  ASSUME NEW item, NEW k, NEW ans, NEW d, IsItem(item, k, ans, d), Status(item) = "known"
  PROVE  /\ Cardinality({x \in item.ids : FormalIn(ans, x)}) >= 2
         /\ Cardinality({x \in item.ids : RightIn(ans, d, x)}) >= 2
  <1> DEFINE m == MasteryScore(item)
             right == {x \in item.ids : RightIn(ans, d, x)}
             c == Cardinality(right)
  <1>1. m >= High /\ item.w >= 15000 /\ item.core >= 2
    <2> DEFINE firm == item.core >= 2 /\ item.coreW >= 14000
    <2>1. CASE item.w < 7000
      BY <2>1 DEF Status
    <2> QED BY DEF Status
  <1>2. item.s \in Int /\ item.w \in Nat
    BY DEF IsItem
  <1>3. Unit * (Unit \div 2 + item.s) >= 8000 * (Unit + item.w)
    <2> DEFINE a == Unit * (Unit \div 2 + item.s)
               b == Unit + item.w
    <2>1. a \in Int /\ b \in Nat \ {0}
      BY <1>2 DEF Unit
    <2>2. a \div b >= 8000
      BY <1>1 DEF MasteryScore, High
    <2> HIDE DEF a, b
    <2>3. a >= 8000 * b
      BY <2>1, <2>2, Quotient
    <2> QED BY <2>3 DEF a, b
  <1>4. item.s >= 15000
    BY <1>1, <1>2, <1>3 DEF Unit
  <1>5. c \in Nat
    <2>1. IsFiniteSet(item.ids)
      BY DEF IsItem
    <2>2. right \subseteq item.ids
      OBVIOUS
    <2> HIDE DEF right
    <2>3. IsFiniteSet(right)
      BY <2>1, <2>2, FS_Subset
    <2> QED BY <2>3, FS_CardinalityType
  <1>6. item.s <= Heaviest * c
    BY DEF IsItem
  <1> HIDE DEF c
  <1>7. c >= 2
    BY <1>2, <1>4, <1>5, <1>6 DEF Heaviest
  <1> QED BY <1>1, <1>7 DEF IsItem, c

LEMMA NoEvidenceIs ==
  ASSUME NEW k, NEW ans, NEW d
  PROVE  IsItem(NoEvidence, k, ans, d)
  <1>1. NoEvidence.s = 0 /\ NoEvidence.w = 0 /\ NoEvidence.core = 0 /\ NoEvidence.ids = {}
    BY DEF NoEvidence
  <1>2. /\ {x \in NoEvidence.ids : FormalIn(ans, x)} = {}
        /\ {x \in NoEvidence.ids : RightIn(ans, d, x)} = {}
    BY <1>1
  <1>3. IsFiniteSet({}) /\ Cardinality({}) = 0 /\ 0 = Heaviest * 0
    BY FS_EmptySet DEF Heaviest
  <1>4. 0 <= Heaviest * Cardinality({})
    BY <1>3
  <1> QED BY <1>1, <1>2, <1>3, <1>4 DEF IsItem

LEMMA PreviousIs ==
  ASSUME NEW st, NEW ans, NEW d, IsState(st, ans, d), NEW k \in Knowledge
  PROVE  IsItem(PreviousItem(st, k), k, ans, d)
  BY NoEvidenceIs DEF IsState, PreviousItem

LEMMA SumsAre ==
  ASSUME NEW new, NEW ans, NEW d, IsBatch(new, ans, d), \A a \in new : ~a.uncertain
  PROVE  /\ SumOver(new, Weight) \in Nat
         /\ SumOver(new, Earned) \in Int
         /\ SumOver(new, Earned)
              <= Heaviest * Cardinality({a \in new : RightIn(ans, d, a.id)})
  <1> DEFINE w == [a \in new |-> Weight(a)]
             f == [a \in new |-> Earned(a)]
             R == {a \in new : RightIn(ans, d, a.id)}
  <1>1. IsFiniteSet(new)
    BY DEF IsBatch
  <1> HIDE DEF w, f, R
  <1>2. \A a \in new : /\ Weight(a) \in Nat /\ Weight(a) <= Heaviest
                       /\ a \in R => Earned(a) = Weight(a)
                       /\ a \notin R => Earned(a) = 0
    <2>1. TAKE a \in new
    <2>2. /\ a.difficulty \in 1..5 /\ a.confidence \in 0..100
          /\ a.score = IF RightIn(ans, d, a.id) THEN 100 ELSE 0
      BY DEF IsBatch, IsEvidence
    <2>3. /\ Weight(a) \in Nat /\ Weight(a) <= Heaviest
          /\ (100 * Weight(a)) \div 100 = Weight(a) /\ (0 * Weight(a)) \div 100 = 0
      BY <2>2, WeightIs
    <2>4. CASE RightIn(ans, d, a.id)
      <3>1. Earned(a) = Weight(a)
        BY <2>2, <2>3, <2>4 DEF Earned
      <3> QED BY <2>3, <2>4, <3>1 DEF R
    <2>5. CASE ~RightIn(ans, d, a.id)
      <3>1. Earned(a) = 0
        BY <2>2, <2>3, <2>5 DEF Earned
      <3> QED BY <2>3, <2>5, <3>1 DEF R
    <2> QED BY <2>4, <2>5
  <1>3. w \in [new -> Nat]
    <2>1. \A a \in new : Weight(a) \in Nat
      BY <1>2
    <2> QED BY <2>1 DEF w
  <1>4. /\ f \in [new -> Int] /\ R \in SUBSET new
        /\ \A a \in R : f[a] <= Heaviest
        /\ \A a \in new \ R : f[a] <= 0
    <2>1. \A a \in new : f[a] = Earned(a)
      BY DEF f
    <2>2. R \in SUBSET new
      BY DEF R
    <2>3. \A a \in new : Earned(a) \in Int
      BY <1>2
    <2>4. f \in [new -> Int]
      BY <2>3 DEF f
    <2>5. Heaviest \in Nat
      BY DEF Heaviest
    <2>6. \A a \in new : f[a] \in Int /\ (a \in R => f[a] <= Heaviest) /\ (a \notin R => f[a] <= 0)
      BY <1>2, <2>1, <2>3
    <2> QED BY <2>2, <2>4, <2>6
  <1>5. SumOver(new, Weight) = Total(w)
    BY DEF SumOver, w
  <1>6. SumOver(new, Earned) = Total(f)
    BY DEF SumOver, f
  <1>7. Total(w) \in Nat
    BY <1>1, <1>3, TotalNat
  <1>8. Total(f) \in Int /\ Total(f) <= Heaviest * Cardinality(R)
    BY <1>1, <1>4, TotalAtMost DEF Heaviest
  <1> QED BY <1>5, <1>6, <1>7, <1>8 DEF R

\* An item to which new answers are added is an item.
LEMMA ItemAfter ==
  ASSUME NEW k \in Knowledge, NEW ans, NEW d, NEW old, IsItem(old, k, ans, d),
         NEW new, IsBatch(new, ans, d),
         \A a \in new : a.k = k /\ ~a.uncertain /\ a.id \notin old.ids,
         NEW earned \in Int, NEW weight \in Nat,
         earned <= Heaviest * Cardinality({a \in new : RightIn(ans, d, a.id)}),
         NEW item, item.s = old.s + earned, item.w = old.w + weight,
         item.core = old.core + Cardinality({a \in new : IsCore(a)}),
         item.ids = old.ids \cup IdsOf(new)
  PROVE  IsItem(item, k, ans, d)
  <1> DEFINE core == {a \in new : IsCore(a)}
             right == {a \in new : RightIn(ans, d, a.id)}
             F(S) == {x \in S : FormalIn(ans, x)}
             R(S) == {x \in S : RightIn(ans, d, x)}
  <1>1. IsFiniteSet(new) /\ IsFiniteSet(core) /\ IsFiniteSet(right)
    <2>1. IsFiniteSet(new)
      BY DEF IsBatch
    <2> QED BY <2>1, FS_Subset
  <1>2. /\ IsFiniteSet(IdsOf(new)) /\ IsFiniteSet(old.ids)
        /\ IsFiniteSet(IdsOf(core)) /\ Cardinality(IdsOf(core)) = Cardinality(core)
        /\ IsFiniteSet(IdsOf(right)) /\ Cardinality(IdsOf(right)) = Cardinality(right)
    <2>1. /\ \A a, b \in new : a.id = b.id => a = b
          /\ \A a, b \in core : a.id = b.id => a = b
          /\ \A a, b \in right : a.id = b.id => a = b
      BY DEF IsBatch
    <2> HIDE DEF core, right
    <2> QED BY <1>1, <2>1, IdsCount DEF IsItem
  <1>3. IsFiniteSet(item.ids)
    <2>1. IsFiniteSet(old.ids \cup IdsOf(new))
      BY <1>2, FS_Union
    <2> QED BY <2>1
  <1>4. \A x \in item.ids : Names(x, k, ans)
    <2>1. \A a \in new : Names(a.id, k, ans)
      BY DEF IsBatch, IsEvidence
    <2>2. \A x \in IdsOf(new) : Names(x, k, ans)
      BY <2>1 DEF IdsOf
    <2>3. \A x \in old.ids : Names(x, k, ans)
      BY Zenon DEF IsItem
    <2> QED BY <2>2, <2>3
  <1>5. F(item.ids) = F(old.ids) \cup IdsOf(core) /\ F(old.ids) \cap IdsOf(core) = {}
    <2>1. \A a \in new : IsCore(a) <=> FormalIn(ans, a.id)
      BY DEF IsBatch, IsEvidence
    <2> QED BY <2>1 DEF IdsOf
  <1>6. R(item.ids) = R(old.ids) \cup IdsOf(right) /\ R(old.ids) \cap IdsOf(right) = {}
    BY DEF IdsOf
  <1>7. IsFiniteSet(F(old.ids)) /\ IsFiniteSet(R(old.ids))
    BY <1>2, FS_Subset
  <1>8. /\ item.core = Cardinality(F(item.ids))
    <2>1. Cardinality(F(item.ids)) = Cardinality(F(old.ids)) + Cardinality(core)
      <3> DEFINE s == F(old.ids)
                 t == IdsOf(core)
      <3>1. IsFiniteSet(s) /\ IsFiniteSet(t) /\ s \cap t = {}
        BY <1>2, <1>5, <1>7
      <3>2. Cardinality(t) = Cardinality(core) /\ F(item.ids) = s \cup t
        BY <1>2, <1>5
      <3> HIDE DEF s, t, F, core
      <3>3. Cardinality(s \cup t) = Cardinality(s) + Cardinality(t)
        BY <3>1, DisjointCount
      <3>4. Cardinality(F(item.ids)) = Cardinality(s) + Cardinality(core)
        BY <3>2, <3>3
      <3> QED BY <3>4 DEF s
    <2>2. old.core = Cardinality(F(old.ids))
      BY DEF IsItem
    <2> QED BY <2>1, <2>2
  <1>9. earned <= Heaviest * Cardinality(right)
    OBVIOUS
  <1>10. /\ old.s \in Int /\ old.w \in Nat
         /\ old.s <= Heaviest * Cardinality(R(old.ids))
    BY DEF IsItem
  <1>11. /\ Cardinality(R(item.ids)) = Cardinality(R(old.ids)) + Cardinality(right)
         /\ Cardinality(R(old.ids)) \in Nat /\ Cardinality(right) \in Nat
    <2> DEFINE s == R(old.ids)
               t == IdsOf(right)
    <2>1. IsFiniteSet(s) /\ IsFiniteSet(t) /\ s \cap t = {}
      BY <1>2, <1>6, <1>7
    <2>2. Cardinality(t) = Cardinality(right) /\ R(item.ids) = s \cup t
      BY <1>2, <1>6
    <2> HIDE DEF s, t, R, right
    <2>3. /\ Cardinality(s) \in Nat /\ Cardinality(t) \in Nat
          /\ Cardinality(s \cup t) = Cardinality(s) + Cardinality(t)
      BY <2>1, DisjointCount
    <2>4. Cardinality(R(item.ids)) = Cardinality(s) + Cardinality(right)
      BY <2>2, <2>3
    <2> QED BY <2>2, <2>3, <2>4 DEF s
  <1>12. item.s \in Int /\ item.w \in Nat /\ item.s <= Heaviest * Cardinality(R(item.ids))
    BY <1>9, <1>10, <1>11 DEF Heaviest
  <1> QED BY <1>3, <1>4, <1>8, <1>12 DEF IsItem

LEMMA AccumulatedIs ==
  ASSUME NEW st, NEW ans, NEW d, IsState(st, ans, d), NEW batch, IsBatch(batch, ans, d)
  PROVE  /\ IsState(Accumulated(st, batch), ans, d)
         /\ DOMAIN Accumulated(st, batch) = Knowledge
         /\ \A k \in Knowledge :
              Accumulated(st, batch)[k].ids
                = PreviousItem(st, k).ids \cup IdsOf(About(Accepted(st, batch), k))
  <1> DEFINE next == Accumulated(st, batch)
             new(k) == About(Accepted(st, batch), k)
  <1>1. next = [k \in Knowledge |-> next[k]] /\ DOMAIN next = Knowledge
    BY DEF Accumulated
  <1>2. \A k \in Knowledge :
          /\ next[k].s = PreviousItem(st, k).s
                           + SumOver(new(k), Earned)
          /\ next[k].w = PreviousItem(st, k).w + SumOver(new(k), Weight)
          /\ next[k].core = PreviousItem(st, k).core + Cardinality({a \in new(k) : IsCore(a)})
          /\ next[k].ids = PreviousItem(st, k).ids \cup IdsOf(new(k))
    BY DEF Accumulated, IdsOf
  <1>3. ASSUME NEW k \in Knowledge
        PROVE  IsItem(next[k], k, ans, d)
    <2>1. IsItem(PreviousItem(st, k), k, ans, d)
      BY PreviousIs
    <2>2. new(k) \subseteq batch
      BY DEF About, Accepted
    <2>3. IsBatch(new(k), ans, d)
      BY <2>2, FS_Subset DEF IsBatch
    <2>4. \A a \in new(k) : a.k = k /\ ~a.uncertain /\ a.id \notin PreviousItem(st, k).ids
      BY DEF About, Accepted
    <2> DEFINE earned == SumOver(new(k), Earned)
               weight == SumOver(new(k), Weight)
               old == PreviousItem(st, k)
               added == new(k)
               item == next[k]
    <2>5. /\ weight \in Nat /\ earned \in Int
          /\ earned <= Heaviest * Cardinality({a \in added : RightIn(ans, d, a.id)})
      BY <2>3, <2>4, SumsAre
    <2>6. /\ item.s = old.s + earned /\ item.w = old.w + weight
          /\ item.core = old.core + Cardinality({a \in added : IsCore(a)})
          /\ item.ids = old.ids \cup IdsOf(added)
      BY <1>2
    <2>7. IsItem(old, k, ans, d) /\ IsBatch(added, ans, d)
          /\ \A a \in added : a.k = k /\ ~a.uncertain /\ a.id \notin old.ids
      BY <2>1, <2>3, <2>4
    <2> HIDE DEF next, new, earned, weight, old, added, item
    <2>8. IsItem(item, k, ans, d)
      BY <2>5, <2>6, <2>7, ItemAfter
    <2> QED BY <2>8 DEF item
  <1> HIDE DEF next
  <1>4. IsState(next, ans, d)
    BY <1>1, <1>3 DEF IsState
  <1> QED BY <1>1, <1>2, <1>4 DEF next

-----------------------------------------------------------------------------
(* Later answers                                                           *)

Kinds == {"path_validation", "graded_quiz", "mistake_correction"}

Answer == [q : Questions, kind : Kinds, ok : BOOLEAN,
           gov : {"none", "pending", "consumed", "no_change"}, by : Nat]

\* bs holds the answers of ans, with other notes perhaps, and may hold more.
Extends(ans, bs) ==
    /\ ans \in Seq(Answer) /\ bs \in Seq(Answer) /\ Len(ans) <= Len(bs)
    /\ \A i \in 1..Len(ans) : bs[i].q = ans[i].q /\ bs[i].kind = ans[i].kind /\ bs[i].ok = ans[i].ok

LEMMA SeqIs ==
  ASSUME NEW T, NEW s \in Seq(T)
  PROVE  Len(s) \in Nat /\ DOMAIN s = 1..Len(s) /\ \A i \in 1..Len(s) : s[i] \in T
  BY LenProperties

LEMMA ExtendsIs ==
  ASSUME NEW ans, NEW bs, Extends(ans, bs)
  PROVE  /\ Len(ans) \in Nat /\ Len(bs) \in Nat /\ Len(ans) <= Len(bs)
         /\ \A i \in 1..Len(ans) :
              /\ i \in 1..Len(bs)
              /\ bs[i].q = ans[i].q /\ bs[i].kind = ans[i].kind /\ bs[i].ok = ans[i].ok
  <1>1. Len(ans) \in Nat /\ Len(bs) \in Nat
    BY SeqIs DEF Extends
  <1>2. Len(ans) <= Len(bs)
    BY DEF Extends
  <1>3. \A i \in 1..Len(ans) : i \in 1..Len(bs)
    BY <1>1, <1>2
  <1> QED BY <1>1, <1>2, <1>3 DEF Extends

LEMMA StateExtends ==
  ASSUME NEW st, NEW ans, NEW bs, NEW d, IsState(st, ans, d), Extends(ans, bs)
  PROVE  IsState(st, bs, d)
  <1>1. Len(ans) \in Nat /\ Len(bs) \in Nat /\ Len(ans) <= Len(bs)
    BY ExtendsIs
  <1>2. SUFFICES ASSUME NEW k \in Knowledge, NEW item, IsItem(item, k, ans, d)
                 PROVE  IsItem(item, k, bs, d)
    BY DEF IsState
  <1>3. \A x \in item.ids : Names(x, k, ans)
    BY <1>2 DEF IsItem
  <1>4. ASSUME NEW x \in item.ids
        PROVE  Names(x, k, bs) /\ (FormalIn(bs, x) <=> FormalIn(ans, x))
                 /\ RightIn(bs, d, x) = RightIn(ans, d, x)
    <2>1. x[2] \in 0..Len(ans) /\ KnowledgeOf[x[1]] = k /\ (x[2] # 0 => ans[x[2]].q = x[1])
      BY <1>3 DEF Names
    <2>2. CASE x[2] = 0
      BY <1>1, <2>1, <2>2 DEF Names, FormalIn, RightIn
    <2>3. CASE x[2] # 0
      <3>1. x[2] \in 1..Len(ans) /\ x[2] \in 0..Len(bs)
        BY <1>1, <2>1, <2>3
      <3>2. /\ bs[x[2]].q = ans[x[2]].q /\ bs[x[2]].kind = ans[x[2]].kind
            /\ bs[x[2]].ok = ans[x[2]].ok
        BY <3>1, ExtendsIs
      <3> QED BY <2>1, <2>3, <3>1, <3>2 DEF Names, FormalIn, RightIn, Formal
    <2> QED BY <2>2, <2>3
  <1>5. /\ {x \in item.ids : FormalIn(bs, x)} = {x \in item.ids : FormalIn(ans, x)}
        /\ {x \in item.ids : RightIn(bs, d, x)} = {x \in item.ids : RightIn(ans, d, x)}
    BY <1>4
  <1> QED BY <1>2, <1>4, <1>5 DEF IsItem

LEMMA ExtendsTrans ==
  ASSUME NEW ans, NEW bs, NEW cs, Extends(ans, bs), Extends(bs, cs)
  PROVE  Extends(ans, cs)
  <1>1. Len(ans) \in Nat /\ Len(bs) \in Nat /\ Len(cs) \in Nat /\ Len(ans) <= Len(cs)
    BY ExtendsIs
  <1>2. \A i \in 1..Len(ans) : cs[i].q = ans[i].q /\ cs[i].kind = ans[i].kind /\ cs[i].ok = ans[i].ok
    BY ExtendsIs
  <1>3. ans \in Seq(Answer) /\ cs \in Seq(Answer)
    BY DEF Extends
  <1> QED BY <1>1, <1>2, <1>3 DEF Extends

\* The notes an analysis leaves on its answers
GovNotes == {<<>>, <<"consumed", "no_change">>}

\* What is noted of answers leaves the rest of them as it was.
LEMMA NotedIs ==
  ASSUME NEW ans \in Seq(Answer), NEW ids, NEW gov \in GovNotes,
         NEW p, p.version \in Nat, NEW fresh
  PROVE  /\ Extends(ans, Noted(ans, ids, gov, p, fresh))
         /\ Len(Noted(ans, ids, gov, p, fresh)) = Len(ans)
         /\ \A i \in 1..Len(ans) \ ids : Noted(ans, ids, gov, p, fresh)[i] = ans[i]
  <1> DEFINE bs == Noted(ans, ids, gov, p, fresh)
             note == gov[IF p.version # profile.version THEN 1 ELSE 2]
             by(i) == p.version # profile.version /\ i \in fresh
  <1>1. /\ DOMAIN bs = 1..Len(ans)
        /\ \A i \in 1..Len(ans) :
             bs[i] = IF i \notin ids THEN ans[i]
                     ELSE [ans[i] EXCEPT !.gov = IF gov = <<>> THEN @ ELSE note,
                                        !.by = IF by(i) THEN p.version ELSE @]
    <2>1. DOMAIN ans = 1..Len(ans)
      BY SeqIs
    <2> QED BY <2>1 DEF Noted
  <1>2. gov # <<>> => note \in {"consumed", "no_change"}
    BY DEF GovNotes
  <1>3. ASSUME NEW i \in 1..Len(ans)
        PROVE  /\ bs[i] \in Answer /\ bs[i].q = ans[i].q /\ bs[i].kind = ans[i].kind
               /\ bs[i].ok = ans[i].ok /\ (i \notin ids => bs[i] = ans[i])
    <2>1. ans[i] \in Answer
      BY SeqIs
    <2>2. CASE i \notin ids
      BY <1>1, <2>1, <2>2
    <2>3. CASE i \in ids
      <3>1. bs[i] = [ans[i] EXCEPT !.gov = IF gov = <<>> THEN @ ELSE note,
                                  !.by = IF by(i) THEN p.version ELSE @]
        BY <1>1, <2>3
      <3> HIDE DEF bs, note, by
      <3> QED BY <1>2, <2>1, <2>3, <3>1 DEF Answer
    <2> QED BY <2>2, <2>3
  <1> HIDE DEF bs
  <1>4. bs \in Seq(Answer) /\ Len(bs) = Len(ans)
    <2>1. bs = [i \in 1..Len(ans) |-> bs[i]]
      <3>1. DOMAIN ans = 1..Len(ans)
        BY SeqIs
      <3> QED BY <3>1 DEF bs, Noted
    <2>2. \A i \in 1..Len(ans) : bs[i] \in Answer
      BY <1>3
    <2>3. Len(ans) \in Nat
      BY SeqIs
    <2>4. bs \in [1..Len(ans) -> Answer]
      BY <2>1, <2>2
    <2> QED BY <2>3, <2>4
  <1>5. Extends(ans, bs)
    <2>1. Len(ans) \in Nat
      BY SeqIs
    <2> QED BY <1>3, <1>4, <2>1 DEF Extends
  <1> QED BY <1>3, <1>4, <1>5 DEF bs

-----------------------------------------------------------------------------
(* One analysis                                                            *)

LEMMA EvidenceBatch ==
  ASSUME NEW ans \in Seq(Answer), NEW ids \in SUBSET (1..Len(ans)), NEW d
  PROVE  IsBatch({Evidence(ans, i) : i \in ids}, ans, d)
  <1> DEFINE batch == {Evidence(ans, i) : i \in ids}
  <1>1. Len(ans) \in Nat /\ \A i \in 1..Len(ans) : ans[i] \in Answer
    BY SeqIs
  <1>2. IsFiniteSet(batch)
    <2> DEFINE f == [i \in ids |-> Evidence(ans, i)]
    <2>1. f \in Surjection(ids, batch)
      BY DEF Surjection
    <2>2. IsFiniteSet(1..Len(ans))
      BY <1>1, FS_Interval
    <2>3. IsFiniteSet(ids)
      BY <2>2, FS_Subset
    <2> QED BY <2>1, <2>3, FS_Surjection
  <1>3. ASSUME NEW i \in ids
        PROVE  IsEvidence(Evidence(ans, i), ans, d) /\ Evidence(ans, i).id = <<ans[i].q, i>>
    <2> DEFINE a == Evidence(ans, i)
    <2>1. i \in 1..Len(ans) /\ i \in 0..Len(ans) /\ i # 0
      BY <1>1
    <2>2. ans[i].q \in Questions /\ ans[i].kind \in Kinds /\ ans[i].ok \in BOOLEAN
      BY <1>1, <2>1 DEF Answer
    <2>3. KnowledgeOf[ans[i].q] \in Knowledge /\ DifficultyOf[ans[i].q] \in 1..5
      BY <2>2, QuestionAssumption
    <2>4. /\ a.id = <<ans[i].q, i>> /\ a.k = KnowledgeOf[ans[i].q]
          /\ a.difficulty = DifficultyOf[ans[i].q] /\ a.confidence = 90
          /\ a.score = IF ans[i].ok THEN 100 ELSE 0
          /\ a.class = IF ans[i].kind = "mistake_correction" THEN "auxiliary" ELSE "core"
      BY DEF Evidence
    <2> HIDE DEF a
    <2>5. a.id[1] = ans[i].q /\ a.id[2] = i
      BY <2>4
    <2>6. Names(a.id, a.k, ans)
      BY <2>1, <2>4, <2>5 DEF Names
    <2>7. IsCore(a) <=> FormalIn(ans, a.id)
      <3>1. IsCore(a) <=> ans[i].kind # "mistake_correction"
        BY <2>4 DEF IsCore
      <3>2. FormalIn(ans, a.id) <=> ans[i].kind \in {"graded_quiz", "path_validation"}
        BY <2>1, <2>5 DEF FormalIn, Formal
      <3> QED BY <2>2, <3>1, <3>2 DEF Kinds
    <2>8. a.score = IF RightIn(ans, d, a.id) THEN 100 ELSE 0
      BY <2>1, <2>4, <2>5 DEF RightIn
    <2>9. IsEvidence(a, ans, d)
      BY <2>3, <2>4, <2>6, <2>7, <2>8 DEF IsEvidence
    <2> QED BY <2>4, <2>9 DEF a
  <1>4. \A a, b \in batch : a.id = b.id => a = b
    <2>1. ASSUME NEW i \in ids, NEW j \in ids, Evidence(ans, i).id = Evidence(ans, j).id
          PROVE  i = j
      BY <1>3, <2>1
    <2> QED BY <2>1
  <1> QED BY <1>2, <1>3, <1>4 DEF IsBatch

LEMMA DiagnosedBatch ==
  ASSUME NEW ans \in Seq(Answer), NEW results \in [DiagnosticBank -> {"right", "wrong", "unsure"}]
  PROVE  IsBatch({Diagnosed(q, results[q]) : q \in DiagnosticBank}, ans, results)
  <1> DEFINE batch == {Diagnosed(q, results[q]) : q \in DiagnosticBank}
  <1>1. Len(ans) \in Nat
    BY SeqIs
  <1>2. IsFiniteSet(batch)
    <2> DEFINE f == [q \in DiagnosticBank |-> Diagnosed(q, results[q])]
    <2>1. f \in Surjection(DiagnosticBank, batch)
      BY DEF Surjection
    <2> QED BY <2>1, QuestionAssumption, FS_Surjection
  <1>3. ASSUME NEW q \in DiagnosticBank
        PROVE  /\ IsEvidence(Diagnosed(q, results[q]), ans, results)
               /\ Diagnosed(q, results[q]).id = <<q, 0>>
    <2> DEFINE a == Diagnosed(q, results[q])
    <2>1. q \in Questions /\ KnowledgeOf[q] \in Knowledge /\ DifficultyOf[q] \in 1..5
      BY QuestionAssumption
    <2>2. /\ a.id = <<q, 0>> /\ a.k = KnowledgeOf[q]
          /\ a.difficulty = DifficultyOf[q] /\ a.confidence \in {80, 100} /\ a.class = "core"
          /\ a.uncertain = (results[q] = "unsure")
          /\ a.score = IF results[q] = "right" THEN 100 ELSE IF results[q] = "unsure" THEN 50 ELSE 0
      BY DEF Diagnosed
    <2> HIDE DEF a
    <2>3. a.id[1] = q /\ a.id[2] = 0
      BY <2>2
    <2>4. Names(a.id, a.k, ans)
      BY <1>1, <2>2, <2>3 DEF Names
    <2>5. IsCore(a) <=> FormalIn(ans, a.id)
      BY <2>2, <2>3 DEF IsCore, FormalIn
    <2>6. ~a.uncertain => a.score = IF RightIn(ans, results, a.id) THEN 100 ELSE 0
      BY <2>2, <2>3 DEF RightIn
    <2>7. IsEvidence(a, ans, results)
      BY <2>1, <2>2, <2>4, <2>5, <2>6 DEF IsEvidence
    <2> QED BY <2>2, <2>7 DEF a
  <1>4. \A a, b \in batch : a.id = b.id => a = b
    <2>1. ASSUME NEW q \in DiagnosticBank, NEW r \in DiagnosticBank,
                 Diagnosed(q, results[q]).id = Diagnosed(r, results[r]).id
          PROVE  q = r
      BY <1>3, <2>1
    <2> QED BY <2>1
  <1> QED BY <1>2, <1>3, <1>4 DEF IsBatch

ProfileFields == {"version", "type", "formed", "ability", "weak", "blind", "state"}

LEMMA AnalyzedIs ==
  ASSUME NEW p, DOMAIN p = ProfileFields, p.version \in Nat, NEW batch
  PROVE  LET n == Analyzed(p, batch) IN
         /\ DOMAIN n = ProfileFields /\ n.version \in Nat /\ n.formed = p.formed
         /\ n.version <= p.version /\ batch # {} => WeakAfter(batch, p.weak) = p.weak
  <1> DEFINE ability == AbilityAfter(batch, p.weak, p.ability)
             weak == WeakAfter(batch, p.weak)
             blind == (p.blind \ Assessed(batch))
                        \cup {k \in Assessed(batch) : Mastery(batch, k, p.weak) < Low}
             type == TypeAfter(batch, ability)
             next == [p EXCEPT !.weak = weak, !.blind = blind, !.ability = ability, !.type = type]
  <1>1. Updated(p, batch, ability) = next
    BY DEF Updated
  <1>2. Analyzed(p, batch) = IF batch = {} THEN p
                             ELSE IF next = p THEN p ELSE [next EXCEPT !.version = @ + 1]
    BY <1>1 DEF Analyzed, Versioned
  <1> HIDE DEF ability, weak, blind, type
  <1>3. /\ DOMAIN next = ProfileFields /\ next.version = p.version /\ next.formed = p.formed
        /\ next.weak = weak
    BY DEF ProfileFields
  <1> HIDE DEF next
  <1>4. CASE batch = {} \/ next = p
    <2>1. Analyzed(p, batch) = p
      BY <1>2, <1>4
    <2> QED BY <1>3, <1>4, <2>1 DEF weak
  <1>5. CASE ~(batch = {} \/ next = p)
    <2>1. Analyzed(p, batch) = [next EXCEPT !.version = @ + 1]
      BY <1>2, <1>5
    <2>2. /\ DOMAIN Analyzed(p, batch) = ProfileFields
          /\ Analyzed(p, batch).version = p.version + 1
          /\ Analyzed(p, batch).formed = p.formed
      BY <1>3, <2>1 DEF ProfileFields
    <2> QED BY <2>2
  <1> QED BY <1>4, <1>5

LEMMA WeakProjectionIs ==
  ASSUME NEW state, NEW ans, NEW d, \A k \in Knowledge : IsItem(state[k], k, ans, d)
  PROVE  IsWeak(WeakProjection(state))
  <1> DEFINE K == {x \in InState(state) \ Known(state) : Confidence(state[x]) >= 3500}
             level(k) == Between(1, 5, Rounded((Unit - MasteryScore(state[k])) * 5, Unit))
             weak == [k \in K |-> [level |-> level(k), type |-> Status(state[k]),
                                   ids |-> state[k].ids, reason |-> "cumulative"]]
  <1>1. WeakProjection(state) = weak
    BY DEF WeakProjection
  <1>2. K \subseteq Knowledge
    BY DEF InState
  <1>3. ASSUME NEW k \in Knowledge
        PROVE  level(k) \in Int
    <2>1. state[k].s \in Int /\ state[k].w \in Nat
      BY DEF IsItem
    <2>2. MasteryScore(state[k]) \in Int
      BY <2>1 DEF MasteryScore, Unit
    <2> DEFINE x == Rounded((Unit - MasteryScore(state[k])) * 5, Unit)
    <2>3. x \in Int
      BY <2>2 DEF Rounded, Unit
    <2> HIDE DEF x
    <2>4. Min({5, x}) \in Int
      BY <2>3, MinMaxOfTwo
    <2>5. Max({1, Min({5, x})}) \in Int
      <3> DEFINE y == Min({5, x})
      <3>1. y \in Int
        BY <2>4
      <3> HIDE DEF y
      <3>2. Max({1, y}) = IF 1 >= y THEN 1 ELSE y
        BY <3>1, MinMaxOfTwo
      <3>3. Max({1, y}) \in Int
        BY <3>1, <3>2
      <3> QED BY <3>3 DEF y
    <2> QED BY <2>5 DEF Between, x
  <1> HIDE DEF K, level
  <1>4. DOMAIN weak = K /\ \A k \in K : weak[k].level = level(k) /\ weak[k].reason = "cumulative"
    OBVIOUS
  <1>5. weak = [k \in DOMAIN weak |-> weak[k]]
    OBVIOUS
  <1> HIDE DEF weak
  <1> QED BY <1>1, <1>2, <1>3, <1>4, <1>5 DEF IsWeak

LEMMA KnownIsHigh ==
  ASSUME NEW m \in Int, MasteryType(m) = "known"
  PROVE  m >= High
  <1>1. SUFFICES ASSUME m < 8000
                 PROVE  FALSE
    BY DEF High
  <1>2. CASE m < 4000
    BY <1>2 DEF MasteryType, Low, Middle, High
  <1>3. CASE m >= 4000 /\ m < 6000
    BY <1>3 DEF MasteryType, Low, Middle, High
  <1>4. CASE m >= 6000
    BY <1>1, <1>4 DEF MasteryType, Low, Middle, High
  <1> QED BY <1>2, <1>3, <1>4

\* An analysis that leaves the weak points as they were found the points of its
\* answers known and not weak, and it takes four right answers to do so against
\* one that is wrong.
LEMMA DropNeedsFour ==
  ASSUME NEW weak, IsWeak(weak), NEW ans \in Seq(Answer), NEW ids \in SUBSET (1..Len(ans)),
         WeakAfter({Evidence(ans, j) : j \in ids}, weak) = weak,
         NEW i \in ids, ~ans[i].ok
  PROVE  Cardinality({j \in ids : ans[j].ok}) >= 4
  <1> DEFINE batch == {Evidence(ans, j) : j \in ids}
             k == KnowledgeOf[ans[i].q]
             mine == About(batch, k)
             e == SumOver(mine, Earned)
             w == SumOver(mine, Weight)
             m == [x \in Assessed(batch) |-> Mastery(batch, x, weak)]
             stay == {x \in DOMAIN m : MasteryType(m[x]) # "known"}
             R == {a \in mine : ans[a.id[2]].ok}
             right == {j \in ids : ans[j].ok}
             a0 == Evidence(ans, i)
  <1>1. IsBatch(batch, ans, [x \in {} |-> 0])
    BY EvidenceBatch
  <1>2. a0 \in mine /\ a0.k = k /\ k \in Assessed(batch)
    <2>1. a0 \in batch
      OBVIOUS
    <2>2. a0.k = k
      BY DEF Evidence
    <2> HIDE DEF batch, k, a0
    <2> QED BY <2>1, <2>2 DEF About, Assessed
  <1>3. k \notin stay /\ k \notin DOMAIN weak
    <2>1. WeakAfter(batch, weak)
            = [x \in (DOMAIN weak \ DOMAIN m) \cup stay |->
                 IF x \notin stay THEN weak[x]
                 ELSE [level |-> Level(m[x], x, weak), type |-> MasteryType(m[x]),
                       ids |-> {a.id : a \in About(batch, x)}, reason |-> "analysed"]]
      BY DEF WeakAfter
    <2>2. WeakAfter(batch, weak) = weak
      OBVIOUS
    <2>3. k \in DOMAIN m
      BY <1>2
    <2> HIDE DEF m, stay, batch, k
    <2>4. DOMAIN weak = (DOMAIN weak \ DOMAIN m) \cup stay
      BY <2>1, <2>2
    <2>5. k \in stay => weak[k].reason = "analysed" /\ k \in DOMAIN weak
      BY <2>1, <2>2, <2>4
    <2>6. k \notin stay
      BY <2>5 DEF IsWeak
    <2> QED BY <2>3, <2>4, <2>6
  <1>4. MasteryType(Mastery(batch, k, weak)) = "known"
    BY <1>2, <1>3
  <1>5. Mastery(batch, k, weak) = (Unit * (100 * 50 + e)) \div (Unit + w)
    BY <1>3 DEF Mastery, PriorMastery
  <1>6. \A a \in mine :
          /\ Weight(a) \in Nat /\ Lightest <= Weight(a) /\ Weight(a) <= Heavy
          /\ Earned(a) = IF a \in R THEN Weight(a) ELSE 0
    <2>1. TAKE a \in mine
    <2>2. PICK j \in ids : a = Evidence(ans, j)
      BY DEF About
    <2>3. a \in batch
      BY DEF About
    <2>4. a.difficulty \in 1..5
      BY <1>1, <2>3 DEF IsBatch, IsEvidence
    <2>5. a.confidence = 90 /\ a.id[2] = j /\ a.score = IF ans[j].ok THEN 100 ELSE 0
      BY <2>2 DEF Evidence
    <2>6. a \in R <=> ans[j].ok
      BY <2>5
    <2>7. /\ Weight(a) \in Nat /\ Lightest <= Weight(a) /\ Weight(a) <= Heavy
          /\ (100 * Weight(a)) \div 100 = Weight(a) /\ (0 * Weight(a)) \div 100 = 0
      BY <2>4, <2>5, WeightIs
    <2> HIDE DEF R
    <2>8. Earned(a) = IF a \in R THEN Weight(a) ELSE 0
      BY <2>5, <2>6, <2>7 DEF Earned
    <2> QED BY <2>7, <2>8
  <1>7. IsFiniteSet(mine)
    <2>1. IsFiniteSet(batch) /\ mine \subseteq batch
      BY <1>1 DEF IsBatch, About
    <2> HIDE DEF batch, mine
    <2> QED BY <2>1, FS_Subset
  <1>8. Earned(a0) = 0 /\ a0 \notin R
    <2>1. a0 \notin R
      BY DEF Evidence
    <2> HIDE DEF R, mine, a0
    <2> QED BY <1>2, <1>6, <2>1
  <1>9. /\ e \in Nat /\ w \in Int /\ e + Lightest <= w
        /\ Cardinality(R) \in Nat /\ e <= Heavy * Cardinality(R)
    <2> DEFINE f == [a \in mine |-> Earned(a)]
               g == [a \in mine |-> Weight(a)]
    <2>1. e = Total(f)
      BY DEF SumOver
    <2>2. w = Total(g)
      BY DEF SumOver
    <2>3. R \subseteq mine
      OBVIOUS
    <2> HIDE DEF mine, R, e, w, a0
    <2>4. Lightest \in Nat /\ Heavy \in Nat
      BY DEF Lightest, Heavy
    <2>5. /\ f \in [mine -> Int] /\ g \in [mine -> Int]
          /\ \A a \in mine : f[a] <= g[a]
          /\ \A a \in R : f[a] <= Heavy
          /\ \A a \in mine \ R : f[a] <= 0
          /\ f[a0] = 0 /\ Lightest <= g[a0] /\ g[a0] \in Nat
      BY <1>2, <1>6, <1>8, <2>3, <2>4
    <2>9. f \in [mine -> Nat]
      BY <1>6
    <2> HIDE DEF f, g
    <2>10. Total(f) \in Nat
      BY <1>7, <2>9, TotalNat
    <2>6. /\ Total(f) \in Int /\ Total(g) \in Int
          /\ \A x \in mine : Total(f) + (g[x] - f[x]) <= Total(g)
      BY <1>7, <2>5, TotalGap
    <2>7. Total(f) + (g[a0] - f[a0]) <= Total(g)
      BY <1>2, <2>6
    <2>8. Cardinality(R) \in Nat /\ Total(f) <= Heavy * Cardinality(R)
      BY <1>7, <2>3, <2>4, <2>5, TotalAtMost
    <2> QED BY <2>1, <2>2, <2>4, <2>5, <2>6, <2>7, <2>8, <2>10
  <1>10. Cardinality(R) <= Cardinality(right) /\ Cardinality(right) \in Nat
    <2>1. IsFiniteSet(right)
      <3>1. Len(ans) \in Nat
        BY SeqIs
      <3>2. right \subseteq 1..Len(ans)
        OBVIOUS
      <3>3. IsFiniteSet(1..Len(ans))
        BY <3>1, FS_Interval
      <3> HIDE DEF right
      <3> QED BY <3>2, <3>3, FS_Subset
    <2> DEFINE f == [a \in R |-> a.id[2]]
    <2>2. \A a \in R : a.id[2] \in right /\ a = Evidence(ans, a.id[2])
      <3>1. TAKE a \in R
      <3>2. PICK j \in ids : a = Evidence(ans, j)
        BY DEF About
      <3>3. a.id[2] = j
        BY <3>2 DEF Evidence
      <3>4. ans[j].ok
        BY <3>3
      <3> QED BY <3>2, <3>3, <3>4
    <2> HIDE DEF R, right
    <2>3. f \in Injection(R, right)
      BY <2>2 DEF Injection, IsInjective
    <2> HIDE DEF f
    <2> QED BY <2>1, <2>3, FS_Injection, FS_CardinalityType
  <1> HIDE DEF e, w, R, right, batch, mine, k, a0
  <1>11. Unit * (100 * 50 + e) >= 8000 * (Unit + w)
    <2> DEFINE x == Unit * (100 * 50 + e)
               y == Unit + w
    <2>1. e >= 0 /\ w >= 0
      BY <1>9 DEF Lightest
    <2>2. x \in Int /\ y \in Nat \ {0}
      BY <1>9, <2>1 DEF Unit
    <2>3. x \div y \in Int
      BY <2>2
    <2> HIDE DEF x, y
    <2>4. x \div y >= 8000
      BY <1>4, <1>5, <2>3, KnownIsHigh DEF High, x, y
    <2>5. x >= 8000 * y
      BY <2>2, <2>4, Quotient
    <2> QED BY <2>5 DEF x, y
  <1>12. Cardinality(R) >= 4
    BY <1>9, <1>11 DEF Unit, Lightest, Heavy
  <1> QED BY <1>10, <1>12, <1>9 DEF right

-----------------------------------------------------------------------------
(* The invariant                                                           *)

ProfileTypeInv ==
    /\ DOMAIN profile = ProfileFields /\ profile.version \in Nat /\ profile.formed \in BOOLEAN
    /\ answers \in Seq(Answer) /\ mistakes \subseteq Questions
    /\ \A batch \in dropped : batch \subseteq 1..Len(answers)

\* The state behind the profile agrees with all that was answered.
StateInv ==
    /\ IsState(profile.state, answers, diagnosis) /\ IsWeak(profile.weak)
    /\ profile.formed => DOMAIN profile.state = Knowledge
    /\ ~profile.formed => answers = <<>> /\ profile.state = NoState

ProfileInv == ProfileTypeInv /\ StateInv /\ AnswersKept

LEMMA ProfileInitHolds == ProfileInit => ProfileInv
  <1> SUFFICES ASSUME ProfileInit
               PROVE  ProfileInv
    OBVIOUS
  <1>1. /\ profile = DefaultProfile /\ answers = <<>> /\ mistakes = {} /\ dropped = {}
    BY DEF ProfileInit
  <1>2. /\ DOMAIN profile = ProfileFields /\ profile.version = 1 /\ profile.formed = FALSE
        /\ profile.weak = [k \in {} |-> 0] /\ profile.state = NoState
    BY <1>1 DEF DefaultProfile, ProfileFields
  <1>3. <<>> \in Seq(Answer) /\ DOMAIN <<>> = {}
    OBVIOUS
  <1>4. ProfileTypeInv
    <2>1. profile.version \in Nat /\ profile.formed \in BOOLEAN
      <3>1. profile.version \in Nat
        BY <1>2
      <3>2. profile.formed \in BOOLEAN
        BY <1>2, Zenon
      <3> QED BY <3>1, <3>2
    <2>2. answers \in Seq(Answer) /\ mistakes \subseteq Questions
      BY <1>1, <1>3
    <2>3. \A batch \in dropped : batch \subseteq 1..Len(answers)
      BY <1>1
    <2> QED BY <1>2, <2>1, <2>2, <2>3 DEF ProfileTypeInv
  <1>5. IsWeak(profile.weak)
    BY <1>2 DEF IsWeak
  <1>6. StateInv
    BY <1>1, <1>2, <1>5 DEF StateInv, IsState
  <1>7. AnswersKept
    BY <1>1, <1>3 DEF AnswersKept
  <1> QED BY <1>4, <1>6, <1>7 DEF ProfileInv

\* AnswersKept of the state st, the answers ans and the batches dr
HasAnswer(st, ans, dr, i) ==
    \/ <<ans[i].q, i>> \in st[KnowledgeOf[ans[i].q]].ids
    \/ \E batch \in dr :
         /\ i \in batch
         /\ ans[i].ok \/ Cardinality({j \in batch : ans[j].ok}) >= 4

KeptIn(st, ans, dr) ==
    \A i \in 1..Len(ans) :
        ans[i].by # 0 \/ ans[i].gov \in {"consumed", "no_change"} => HasAnswer(st, ans, dr, i)

LEMMA KeptIs ==
  /\ answers \in Seq(Answer) => (AnswersKept <=> KeptIn(profile.state, answers, dropped))
  /\ answers' \in Seq(Answer) => (AnswersKept' <=> KeptIn(profile'.state, answers', dropped'))
  <1>1. \A s \in Seq(Answer) : DOMAIN s = 1..Len(s)
    BY SeqIs
  <1>2. answers \in Seq(Answer) => (AnswersKept <=> KeptIn(profile.state, answers, dropped))
    BY <1>1 DEF AnswersKept, KeptIn, HasAnswer
  <1>3. answers' \in Seq(Answer) => (AnswersKept' <=> KeptIn(profile'.state, answers', dropped'))
    BY <1>1 DEF AnswersKept, KeptIn, HasAnswer
  <1> QED BY <1>2, <1>3

\* Answers of which nothing is analysed
Later(ans, bs) ==
    /\ Extends(ans, bs)
    /\ \A i \in 1..Len(ans) : bs[i] = ans[i]
    /\ \A i \in 1..Len(bs) \ 1..Len(ans) : bs[i].by = 0 /\ bs[i].gov \in {"none", "pending"}

LEMMA KeepHolds ==
  ASSUME ProfileInv, profile.formed, NEW bs, Later(answers, bs), Keep(bs),
         mistakes' \subseteq Questions
  PROVE  ProfileInv'
  <1>1. /\ answers' = bs /\ profile' = profile /\ diagnosis' = diagnosis /\ dropped' = dropped
    BY DEF Keep
  <1>2. Extends(answers, bs) /\ bs \in Seq(Answer) /\ answers \in Seq(Answer)
    BY DEF Later, Extends
  <1>3. /\ Len(answers) \in Nat /\ Len(bs) \in Nat /\ Len(answers) <= Len(bs)
        /\ DOMAIN answers = 1..Len(answers) /\ DOMAIN bs = 1..Len(bs)
    BY <1>2, ExtendsIs, SeqIs
  <1>4. ProfileTypeInv'
    <2>1. \A batch \in dropped : batch \subseteq 1..Len(bs)
      BY <1>3 DEF ProfileInv, ProfileTypeInv
    <2> QED BY <1>1, <1>2, <2>1 DEF ProfileInv, ProfileTypeInv
  <1>5. StateInv'
    <2>1. IsState(profile.state, bs, diagnosis)
      BY <1>2, StateExtends DEF ProfileInv, StateInv
    <2> QED BY <1>1, <2>1 DEF ProfileInv, StateInv
  <1>6. AnswersKept'
    <2>1. KeptIn(profile.state, answers, dropped)
      BY <1>2, KeptIs DEF ProfileInv
    <2>2. ASSUME NEW i \in 1..Len(bs), bs[i].by # 0 \/ bs[i].gov \in {"consumed", "no_change"}
          PROVE  HasAnswer(profile.state, bs, dropped, i)
      <3>1. i \in 1..Len(answers) /\ bs[i] = answers[i]
        BY <2>2 DEF Later
      <3>2. HasAnswer(profile.state, answers, dropped, i)
        BY <2>1, <2>2, <3>1 DEF KeptIn
      <3>3. \A batch \in dropped :
              {j \in batch : answers[j].ok} = {j \in batch : bs[j].ok}
        BY DEF ProfileInv, ProfileTypeInv, Later
      <3> QED BY <3>1, <3>2, <3>3 DEF HasAnswer
    <2>3. KeptIn(profile.state, bs, dropped)
      BY <2>2 DEF KeptIn
    <2>4. KeptIn(profile'.state, answers', dropped') /\ answers' \in Seq(Answer)
      BY <1>1, <1>2, <2>3
    <2> QED BY <2>4, KeptIs
  <1> QED BY <1>4, <1>5, <1>6 DEF ProfileInv

\* The profile an analysis leaves: a later one, or the same one with a later
\* state, or the same one.
Successor(p, batch, state, next) ==
    /\ DOMAIN p = ProfileFields /\ p.version \in Nat /\ p.formed = profile.formed
    /\ IsWeak(p.weak)
    /\ \/ p.state = state /\ ~(next.required /\ p = profile)
       \/ /\ p = profile /\ next.required
          /\ WeakAfter(batch, profile.weak) = profile.weak

LEMMA PersistedIs ==
  ASSUME DOMAIN profile = ProfileFields, profile.version \in Nat, IsWeak(profile.weak),
         NEW batch, NEW state, IsWeak(WeakProjection(state)), NEW next,
         next = Projected(Analyzed(profile, batch), profile.state, state, batch, FALSE),
         NEW p, p = Persisted(profile, next, state)
  PROVE  Successor(p, batch, state, next)
  <1> DEFINE analysed == Analyzed(profile, batch)
  <1>1. /\ DOMAIN analysed = ProfileFields /\ analysed.version \in Nat
        /\ analysed.formed = profile.formed
        /\ analysed.version <= profile.version /\ batch # {}
             => WeakAfter(batch, profile.weak) = profile.weak
    BY AnalyzedIs
  <1> HIDE DEF analysed
  <1>2. /\ DOMAIN next.profile = ProfileFields /\ next.profile.version = analysed.version
        /\ next.profile.formed = analysed.formed /\ next.profile.weak = WeakProjection(state)
    BY <1>1 DEF Projected, ProjectedProfile, ProfileFields, analysed
  <1>3. next.required => batch # {}
    BY DEF Projected, Accepted
  <1>4. IsWeak(WeakProjection(state))
    OBVIOUS
  <1>5. CASE ~next.required
    <2>1. p = [profile EXCEPT !.state = state]
      BY <1>5 DEF Persisted
    <2>2. /\ DOMAIN p = ProfileFields /\ p.version = profile.version /\ p.formed = profile.formed
          /\ p.weak = profile.weak /\ p.state = state
      BY <2>1 DEF ProfileFields
    <2> QED BY <1>5, <2>2 DEF Successor
  <1>6. CASE next.required /\ next.profile.version <= profile.version
    <2>1. p = profile
      BY <1>6 DEF Persisted
    <2> QED BY <1>1, <1>2, <1>3, <1>6, <2>1 DEF Successor
  <1>7. CASE next.required /\ ~(next.profile.version <= profile.version)
    <2>1. p = [next.profile EXCEPT !.state = state]
      BY <1>7 DEF Persisted
    <2>2. /\ DOMAIN p = ProfileFields /\ p.version = next.profile.version
          /\ p.formed = profile.formed /\ p.weak = WeakProjection(state) /\ p.state = state
      BY <1>1, <1>2, <2>1 DEF ProfileFields
    <2>3. p.version # profile.version
      <3>1. next.profile.version \in Nat
        BY <1>1, <1>2
      <3>2. p.version = next.profile.version
        BY <2>2
      <3> DEFINE a == next.profile.version
                 b == profile.version
      <3>3. a \in Nat /\ b \in Nat /\ ~(a <= b)
        BY <1>7, <3>1
      <3> HIDE DEF a, b
      <3>4. a # b
        BY <3>3
      <3> QED BY <3>2, <3>4 DEF a, b
    <2>4. p # profile
      BY <2>3
    <2> QED BY <1>1, <1>2, <1>4, <2>2, <2>4 DEF Successor
  <1> QED BY <1>5, <1>6, <1>7

LEMMA AnalyseHolds ==
  ASSUME ProfileInv, profile.formed, NEW ans, Later(answers, ans),
         NEW ids \in SUBSET (1..Len(ans)), NEW gov \in GovNotes,
         Analyse(ans, ids, gov), mistakes' \subseteq Questions
  PROVE  ProfileInv'
  <1> DEFINE batch == {Evidence(ans, i) : i \in ids}
             state == Accumulated(profile.state, batch)
             next == Projected(Analyzed(profile, batch), profile.state, state, batch, FALSE)
             p == Persisted(profile, next, state)
             fresh == {a.id[2] : a \in Accepted(profile.state, batch)}
             bs == Noted(ans, ids, gov, p, fresh)
  <1>1. /\ profile' = p /\ answers' = bs /\ diagnosis' = diagnosis
        /\ dropped' = IF next.required /\ p = profile THEN dropped \cup {ids} ELSE dropped
    BY DEF Analyse, Revise, Store
  <1>2. Extends(answers, ans) /\ ans \in Seq(Answer) /\ answers \in Seq(Answer)
    BY DEF Later, Extends
  <1>3. /\ Len(answers) \in Nat /\ Len(ans) \in Nat /\ Len(answers) <= Len(ans)
        /\ DOMAIN profile = ProfileFields /\ profile.version \in Nat /\ IsWeak(profile.weak)
        /\ IsState(profile.state, answers, diagnosis) /\ DOMAIN profile.state = Knowledge
    BY <1>2, ExtendsIs DEF ProfileInv, ProfileTypeInv, StateInv
  <1>4. IsState(profile.state, ans, diagnosis)
    BY <1>2, <1>3, StateExtends
  <1>5. IsBatch(batch, ans, diagnosis)
    BY <1>2, EvidenceBatch
  <1>6. /\ IsState(state, ans, diagnosis) /\ DOMAIN state = Knowledge
        /\ \A k \in Knowledge :
             state[k].ids = PreviousItem(profile.state, k).ids
                              \cup IdsOf(About(Accepted(profile.state, batch), k))
    <2> HIDE DEF batch
    <2> QED BY <1>4, <1>5, AccumulatedIs
  <1>7. \A k \in Knowledge : profile.state # NoState /\ state # NoState
    <2>1. DOMAIN NoState = {}
      BY DEF NoState
    <2> HIDE DEF state
    <2> QED BY <1>3, <1>6, <2>1
  <1>8. \A k \in Knowledge : IsItem(state[k], k, ans, diagnosis)
    <2> HIDE DEF state
    <2> QED BY <1>6, <1>7 DEF IsState
  <1>9. Successor(p, batch, state, next)
    <2>1. /\ next = Projected(Analyzed(profile, batch), profile.state, state, batch, FALSE)
          /\ p = Persisted(profile, next, state)
      OBVIOUS
    <2> HIDE DEF batch, state, next, p
    <2>2. DOMAIN profile = ProfileFields /\ profile.version \in Nat /\ IsWeak(profile.weak)
      BY <1>3
    <2>3. IsWeak(WeakProjection(state))
      BY <1>8, WeakProjectionIs
    <2> QED BY ONLY <2>1, <2>2, <2>3, PersistedIs
  <1> HIDE DEF next
  <1>10. /\ DOMAIN p = ProfileFields /\ p.version \in Nat /\ p.formed = profile.formed
         /\ IsWeak(p.weak)
         /\ \/ p.state = state /\ ~(next.required /\ p = profile)
            \/ /\ p = profile /\ next.required
               /\ WeakAfter(batch, profile.weak) = profile.weak
    <2> HIDE DEF p, batch, state
    <2> QED BY <1>9 DEF Successor
  <1>11. /\ Extends(ans, bs) /\ Len(bs) = Len(ans)
         /\ \A i \in 1..Len(ans) \ ids : bs[i] = ans[i]
    <2>1. p.version \in Nat
      BY <1>10
    <2> HIDE DEF p, fresh
    <2>2. /\ Extends(ans, Noted(ans, ids, gov, p, fresh))
          /\ Len(Noted(ans, ids, gov, p, fresh)) = Len(ans)
          /\ \A i \in 1..Len(ans) \ ids : Noted(ans, ids, gov, p, fresh)[i] = ans[i]
      <3>1. ans \in Seq(Answer) /\ gov \in GovNotes
        BY <1>2
      <3> QED BY ONLY <2>1, <3>1, NotedIs
    <2> QED BY <2>2
  <1>12. \A k \in Knowledge : profile.state[k].ids \subseteq state[k].ids
    <2> HIDE DEF state, batch
    <2> QED BY <1>6, <1>7 DEF PreviousItem
  <1>13. ASSUME NEW i \in ids
         PROVE  /\ KnowledgeOf[ans[i].q] \in Knowledge
                /\ <<ans[i].q, i>> \in state[KnowledgeOf[ans[i].q]].ids
    <2> DEFINE a == Evidence(ans, i)
               k == KnowledgeOf[ans[i].q]
    <2>1. a \in batch /\ a.id = <<ans[i].q, i>> /\ a.k = k /\ ~a.uncertain /\ a.confidence = 90
      BY DEF Evidence
    <2>2. k \in Knowledge
      <3>1. ans[i] \in Answer
        BY <1>2, SeqIs
      <3>2. ans[i].q \in Questions
        BY <3>1 DEF Answer
      <3> QED BY <3>2, QuestionAssumption
    <2> HIDE DEF a, k, batch, state
    <2>3. a.id \in PreviousItem(profile.state, k).ids \/ a \in About(Accepted(profile.state, batch), k)
      BY <2>1 DEF Accepted, About
    <2>4. a.id \in state[k].ids
      BY <1>6, <2>2, <2>3 DEF IdsOf
    <2>5. <<ans[i].q, i>> \in state[k].ids
      BY <2>1, <2>4
    <2> QED BY <2>2, <2>5 DEF k
  <1> HIDE DEF batch, state, p, fresh, bs
  <1>14. bs \in Seq(Answer)
    BY <1>11 DEF Extends
  <1>15. ProfileTypeInv'
    <2>1. \A b \in dropped \cup {ids} : b \subseteq 1..Len(bs)
      <3>1. \A b \in dropped : b \subseteq 1..Len(answers)
        BY DEF ProfileInv, ProfileTypeInv
      <3>2. 1..Len(answers) \subseteq 1..Len(ans)
        BY <1>3
      <3> QED BY <1>11, <3>1, <3>2
    <2>2. p.formed \in BOOLEAN
      BY <1>10 DEF ProfileInv, ProfileTypeInv
    <2>3. dropped' \subseteq dropped \cup {ids}
      BY <1>1
    <2> QED BY <1>1, <1>10, <1>14, <2>1, <2>2, <2>3 DEF ProfileTypeInv
  <1>16. StateInv'
    <2>1. IsState(p.state, ans, diagnosis) /\ DOMAIN p.state = Knowledge
      BY <1>3, <1>4, <1>6, <1>10
    <2>2. IsState(p.state, bs, diagnosis)
      BY <1>11, <2>1, StateExtends
    <2> QED BY <1>1, <1>10, <2>1, <2>2 DEF StateInv
  <1>17. AnswersKept'
    <2>1. KeptIn(profile.state, answers, dropped)
      BY <1>2, KeptIs DEF ProfileInv
    <2>2. ASSUME NEW i \in 1..Len(bs), bs[i].by # 0 \/ bs[i].gov \in {"consumed", "no_change"}
          PROVE  HasAnswer(p.state, bs, dropped', i)
      <3>1. i \in 1..Len(ans) /\ bs[i].q = ans[i].q /\ bs[i].ok = ans[i].ok
        BY <1>11, ExtendsIs
      <3>2. CASE i \in ids
        <4>1. CASE p.state = state
          BY <1>13, <3>1, <3>2, <4>1 DEF HasAnswer
        <4>2. CASE p.state # state
          <5>1. /\ p = profile /\ next.required
                /\ WeakAfter(batch, profile.weak) = profile.weak /\ ids \in dropped'
            BY <1>1, <1>10, <4>2
          <5>2. ~ans[i].ok => Cardinality({j \in ids : ans[j].ok}) >= 4
            BY <1>2, <1>3, <3>2, <5>1, DropNeedsFour DEF batch
          <5>3. {j \in ids : ans[j].ok} = {j \in ids : bs[j].ok}
            <6>1. \A j \in ids : bs[j].ok = ans[j].ok
              BY <1>11, ExtendsIs
            <6> QED BY <6>1
          <5> QED BY <3>1, <3>2, <5>1, <5>2, <5>3 DEF HasAnswer
        <4> QED BY <4>1, <4>2
      <3>3. CASE i \notin ids
        <4>1. bs[i] = ans[i]
          BY <1>11, <3>1, <3>3
        <4>2. i \in 1..Len(answers) /\ ans[i] = answers[i]
          BY <2>2, <3>1, <4>1 DEF Later
        <4>3. HasAnswer(profile.state, answers, dropped, i)
          BY <2>1, <2>2, <4>1, <4>2 DEF KeptIn
        <4>4. CASE <<answers[i].q, i>> \in profile.state[KnowledgeOf[answers[i].q]].ids
          <5>1. KnowledgeOf[answers[i].q] \in Knowledge
            <6>1. answers[i] \in Answer
              BY <1>2, <4>2, SeqIs
            <6>2. answers[i].q \in Questions
              BY <6>1 DEF Answer
            <6> QED BY <6>2, QuestionAssumption
          <5>2. <<answers[i].q, i>> \in p.state[KnowledgeOf[answers[i].q]].ids
            BY <1>10, <1>12, <4>4, <5>1
          <5> QED BY <4>1, <4>2, <5>2 DEF HasAnswer
        <4>5. CASE ~(<<answers[i].q, i>> \in profile.state[KnowledgeOf[answers[i].q]].ids)
          <5>1. PICK b \in dropped :
                    /\ i \in b
                    /\ answers[i].ok \/ Cardinality({j \in b : answers[j].ok}) >= 4
            BY <4>3, <4>5 DEF HasAnswer
          <5>2. b \subseteq 1..Len(answers) /\ b \in dropped'
            BY <1>1 DEF ProfileInv, ProfileTypeInv
          <5>3. Extends(answers, bs)
            BY <1>2, <1>11, ExtendsTrans
          <5>4. {j \in b : answers[j].ok} = {j \in b : bs[j].ok}
            <6>1. \A j \in 1..Len(answers) : bs[j].ok = answers[j].ok
              BY <5>3, ExtendsIs
            <6> QED BY <5>2, <6>1
          <5> QED BY <4>1, <4>2, <5>1, <5>2, <5>4 DEF HasAnswer
        <4> QED BY <4>4, <4>5
      <3> QED BY <3>2, <3>3
    <2>3. KeptIn(p.state, bs, dropped')
      BY <2>2 DEF KeptIn
    <2>4. KeptIn(profile'.state, answers', dropped') /\ answers' \in Seq(Answer)
      BY <1>1, <1>14, <2>3
    <2> QED BY <2>4, KeptIs
  <1> QED BY <1>15, <1>16, <1>17 DEF ProfileInv

-----------------------------------------------------------------------------
(* The steps                                                               *)

LEMMA AnsweredIs ==
  ASSUME answers \in Seq(Answer), NEW q \in Questions, NEW kind \in Kinds, NEW ok \in BOOLEAN
  PROVE  LET ans == Answered(q, kind, ok) IN
         /\ Later(answers, ans) /\ Len(ans) \in 1..Len(ans) /\ DOMAIN ans = 1..Len(ans)
         /\ Later(answers, [ans EXCEPT ![Len(ans)].gov = "pending"])
  <1> DEFINE a == [q |-> q, kind |-> kind, ok |-> ok, gov |-> "none", by |-> 0]
             ans == Append(answers, a)
             n == Len(answers)
             bs == [ans EXCEPT ![n + 1].gov = "pending"]
             b == [a EXCEPT !.gov = "pending"]
  <1>1. a \in Answer /\ b \in Answer /\ a.by = 0 /\ a.gov = "none" /\ b.by = 0 /\ b.gov = "pending"
    BY DEF Answer
  <1>2. n \in Nat /\ \A i \in 1..n : answers[i] \in Answer
    BY SeqIs
  <1>3. Answered(q, kind, ok) = ans
    BY DEF Answered
  <1> HIDE DEF a, n
  <1>4. /\ ans \in Seq(Answer) /\ Len(ans) = n + 1 /\ ans[n + 1] = a
        /\ \A i \in 1..n : ans[i] = answers[i]
    BY <1>1, AppendProperties DEF n
  <1> HIDE DEF ans
  <1>5. DOMAIN ans = 1..(n + 1)
    BY <1>4, SeqIs
  <1>6. \A i \in 1..(n + 1) \ 1..n : i = n + 1
    BY <1>2
  <1>7. Later(answers, ans)
    <2>1. Extends(answers, ans)
      BY <1>2, <1>4 DEF Extends, n
    <2>2. \A i \in 1..Len(ans) \ 1..Len(answers) : ans[i].by = 0 /\ ans[i].gov \in {"none", "pending"}
      BY <1>1, <1>4, <1>6 DEF n
    <2> QED BY <1>4, <2>1, <2>2 DEF Later, n
  <1>8. DOMAIN bs = 1..(n + 1) /\ \A i \in 1..(n + 1) : bs[i] = IF i = n + 1 THEN b ELSE ans[i]
    BY <1>4, <1>5
  <1>9. bs = [i \in 1..(n + 1) |-> bs[i]]
    BY <1>5
  <1> HIDE DEF bs, b
  <1>10. \A i \in 1..(n + 1) : bs[i] \in Answer
    BY <1>1, <1>4, <1>8, SeqIs
  <1>11. bs \in Seq(Answer) /\ Len(bs) = n + 1
    <2>1. n + 1 \in Nat
      BY <1>2
    <2>2. bs \in [1..(n + 1) -> Answer]
      BY <1>9, <1>10
    <2> QED BY <2>1, <2>2
  <1>12. Later(answers, bs)
    <2>1. \A i \in 1..n : bs[i] = answers[i]
      BY <1>2, <1>4, <1>8
    <2>2. Extends(answers, bs)
      BY <1>2, <1>11, <2>1 DEF Extends, n
    <2>3. \A i \in 1..Len(bs) \ 1..Len(answers) : bs[i].by = 0 /\ bs[i].gov \in {"none", "pending"}
      BY <1>1, <1>6, <1>8, <1>11 DEF n
    <2> QED BY <2>1, <2>2, <2>3 DEF Later, n
  <1>13. [ans EXCEPT ![Len(ans)].gov = "pending"] = bs
    BY <1>4 DEF bs
  <1>14. Len(ans) \in 1..Len(ans)
    BY <1>2, <1>4
  <1> QED BY <1>3, <1>4, <1>5, <1>7, <1>12, <1>13, <1>14

LEMMA EvaluateHolds ==
  ASSUME ProfileInv, profile.formed, NEW q \in Questions, NEW kind \in Kinds, NEW ok \in BOOLEAN,
         Evaluate(Answered(q, kind, ok)), mistakes' \subseteq Questions
  PROVE  ProfileInv'
  <1> DEFINE ans == Answered(q, kind, ok)
             ids == Eligible(ans, KnowledgeOf[ans[Len(ans)].q])
             bs == [ans EXCEPT ![Len(ans)].gov = "pending"]
             gov == <<"consumed", "no_change">>
  <1>1. answers \in Seq(Answer)
    BY DEF ProfileInv, ProfileTypeInv
  <1>2. /\ Later(answers, ans) /\ DOMAIN ans = 1..Len(ans)
        /\ Later(answers, bs)
    BY <1>1, AnsweredIs
  <1>3. ids \in SUBSET (1..Len(ans)) /\ gov \in GovNotes
    BY <1>2 DEF Eligible, GovNotes
  <1>4. Analyse(ans, ids, gov) \/ Keep(bs)
    BY DEF Evaluate
  <1> HIDE DEF ans, ids, bs, gov
  <1>5. CASE Analyse(ans, ids, gov)
    BY <1>2, <1>3, <1>5, AnalyseHolds
  <1>6. CASE Keep(bs)
    BY <1>2, <1>6, KeepHolds
  <1> QED BY <1>4, <1>5, <1>6

LEMMA CheckHolds ==
  ASSUME ProfileInv, NEW q \in CheckBank, NEW hypothesis, NEW ok \in BOOLEAN,
         Check(q, hypothesis, ok)
  PROVE  ProfileInv'
  <1> DEFINE ans == Answered(q, "path_validation", ok)
             ids == IF ok THEN Positive(ans, KnowledgeOf[q]) ELSE {Len(ans)}
             gov == <<>>
  <1>1. /\ profile.formed /\ mistakes' = mistakes
        /\ Analyse(ans, ids, gov) \/ Keep(ans)
    BY DEF Check
  <1>2. answers \in Seq(Answer) /\ mistakes' \subseteq Questions
    BY <1>1 DEF ProfileInv, ProfileTypeInv
  <1>3. q \in Questions /\ "path_validation" \in Kinds
    BY QuestionAssumption DEF Kinds
  <1>4. Later(answers, ans) /\ DOMAIN ans = 1..Len(ans) /\ Len(ans) \in 1..Len(ans)
    BY <1>2, <1>3, AnsweredIs
  <1>5. ids \in SUBSET (1..Len(ans)) /\ gov \in GovNotes
    BY <1>4 DEF Positive, GovNotes
  <1> HIDE DEF ans, ids, gov
  <1>6. CASE Analyse(ans, ids, gov)
    BY <1>1, <1>2, <1>4, <1>5, <1>6, AnalyseHolds
  <1>7. CASE Keep(ans)
    BY <1>1, <1>2, <1>4, <1>7, KeepHolds
  <1> QED BY <1>1, <1>6, <1>7

LEMMA QuizHolds ==
  ASSUME ProfileInv, NEW q \in QuizBank, NEW ok \in BOOLEAN, Quiz(q, ok)
  PROVE  ProfileInv'
  <1> DEFINE ans == Answered(q, "graded_quiz", ok)
  <1>1. /\ profile.formed /\ mistakes' \subseteq mistakes \cup {q}
        /\ Evaluate(ans) \/ Keep(ans)
    BY DEF Quiz
  <1>2. q \in Questions /\ "graded_quiz" \in Kinds
    BY QuestionAssumption DEF Kinds
  <1>3. answers \in Seq(Answer) /\ mistakes' \subseteq Questions
    BY <1>1, <1>2 DEF ProfileInv, ProfileTypeInv
  <1>4. CASE Evaluate(ans)
    BY <1>1, <1>2, <1>3, <1>4, EvaluateHolds
  <1>5. CASE Keep(ans)
    <2>1. Later(answers, ans)
      BY <1>2, <1>3, AnsweredIs
    <2> HIDE DEF ans
    <2> QED BY <1>1, <1>3, <1>5, <2>1, KeepHolds
  <1> QED BY <1>1, <1>4, <1>5

LEMMA CorrectHolds ==
  ASSUME ProfileInv, NEW q \in mistakes, NEW ok \in BOOLEAN, Correct(q, ok)
  PROVE  ProfileInv'
  <1>1. profile.formed /\ mistakes' = mistakes /\ Evaluate(Answered(q, "mistake_correction", ok))
    BY DEF Correct
  <1>2. q \in Questions /\ "mistake_correction" \in Kinds /\ mistakes' \subseteq Questions
    BY <1>1 DEF ProfileInv, ProfileTypeInv, Kinds
  <1> QED BY <1>1, <1>2, EvaluateHolds

LEMMA DiagnoseHolds ==
  ASSUME ProfileInv, NEW results \in [DiagnosticBank -> {"right", "wrong", "unsure"}],
         Diagnose(results)
  PROVE  ProfileInv'
  <1> DEFINE batch == {Diagnosed(q, results[q]) : q \in DiagnosticBank}
             state == Accumulated(profile.state, batch)
             analysed == Analyzed(profile, batch)
             next == Projected(analysed, profile.state, state, batch, TRUE)
  <1>1. /\ ~profile.formed
        /\ profile' = IF next.required THEN [next.profile EXCEPT !.state = state, !.formed = TRUE]
                      ELSE profile
        /\ diagnosis' = IF next.required THEN results ELSE diagnosis
        /\ mistakes' \subseteq mistakes \cup DiagnosticBank
        /\ answers' = answers /\ dropped' = dropped
    BY DEF Diagnose, Form
  <1>2. /\ answers = <<>> /\ profile.state = NoState /\ answers \in Seq(Answer)
        /\ DOMAIN profile = ProfileFields /\ profile.version \in Nat
    BY <1>1 DEF ProfileInv, ProfileTypeInv, StateInv
  <1>3. mistakes' \subseteq Questions
    BY <1>1, QuestionAssumption DEF ProfileInv, ProfileTypeInv
  <1>4. IsBatch(batch, answers, results)
    BY <1>2, DiagnosedBatch
  <1>5. IsState(profile.state, answers, results)
    BY <1>2 DEF IsState
  <1>6. IsState(state, answers, results) /\ DOMAIN state = Knowledge
    <2> HIDE DEF batch
    <2> QED BY <1>4, <1>5, AccumulatedIs
  <1> HIDE DEF batch, state
  <1>7. \A k \in Knowledge : IsItem(state[k], k, answers, results)
    <2>1. DOMAIN NoState = {}
      BY DEF NoState
    <2>2. \A k \in Knowledge : state # NoState
      BY <1>6, <2>1
    <2> QED BY <1>6, <2>2 DEF IsState
  <1>8. IsWeak(WeakProjection(state))
    BY <1>7, WeakProjectionIs
  <1>9. DOMAIN analysed = ProfileFields /\ analysed.version \in Nat
    BY <1>2, AnalyzedIs
  <1> HIDE DEF analysed
  <1>10. /\ DOMAIN next.profile = ProfileFields /\ next.profile.version = analysed.version
         /\ next.profile.weak = WeakProjection(state)
    BY <1>9 DEF Projected, ProjectedProfile, ProfileFields
  <1> HIDE DEF next
  <1>11. AnswersKept'
    <2>1. \A i \in DOMAIN answers' : FALSE
      BY <1>1, <1>2
    <2> QED BY <2>1 DEF AnswersKept
  <1>12. CASE next.required
    <2> DEFINE p == [next.profile EXCEPT !.state = state, !.formed = TRUE]
    <2>1. profile' = p /\ diagnosis' = results
      BY <1>1, <1>12
    <2>2. /\ DOMAIN p = ProfileFields /\ p.version = next.profile.version /\ p.formed = TRUE
          /\ p.weak = next.profile.weak /\ p.state = state
      BY <1>10 DEF ProfileFields
    <2> HIDE DEF p
    <2>3. p.version \in Nat
      BY <1>9, <1>10, <2>2
    <2>4. p.formed \in BOOLEAN /\ p.formed
      BY <2>2, Zenon
    <2>5. ProfileTypeInv'
      BY <1>1, <1>2, <1>3, <2>1, <2>2, <2>3, <2>4 DEF ProfileInv, ProfileTypeInv
    <2>6. StateInv'
      BY <1>1, <1>6, <1>8, <1>10, <2>1, <2>2, <2>4 DEF StateInv
    <2> QED BY <1>11, <2>5, <2>6 DEF ProfileInv
  <1>13. CASE ~next.required
    <2>1. profile' = profile /\ diagnosis' = diagnosis
      BY <1>1, <1>13
    <2>2. ProfileTypeInv'
      BY <1>1, <1>3, <2>1 DEF ProfileInv, ProfileTypeInv
    <2>3. StateInv'
      BY <1>1, <2>1 DEF ProfileInv, StateInv
    <2> QED BY <1>11, <2>2, <2>3 DEF ProfileInv
  <1> QED BY <1>12, <1>13

LEMMA ProfileStep == ProfileInv /\ [ProfileNext]_profileVars => ProfileInv'
  <1> SUFFICES ASSUME ProfileInv, [ProfileNext]_profileVars
               PROVE  ProfileInv'
    OBVIOUS
  <1>1. CASE UNCHANGED profileVars
    <2>1. /\ profile' = profile /\ answers' = answers /\ mistakes' = mistakes
          /\ diagnosis' = diagnosis /\ dropped' = dropped
      BY <1>1 DEF profileVars
    <2>2. ProfileTypeInv' /\ StateInv'
      BY <2>1 DEF ProfileInv, ProfileTypeInv, StateInv
    <2>3. answers \in Seq(Answer) /\ KeptIn(profile.state, answers, dropped)
      BY KeptIs DEF ProfileInv, ProfileTypeInv
    <2>4. KeptIn(profile'.state, answers', dropped') /\ answers' \in Seq(Answer)
      BY <2>1, <2>3
    <2> QED BY <2>2, <2>4, KeptIs DEF ProfileInv
  <1>2. ASSUME NEW results \in [DiagnosticBank -> {"right", "wrong", "unsure"}], Diagnose(results)
        PROVE  ProfileInv'
    BY <1>2, DiagnoseHolds
  <1>3. ASSUME NEW q \in CheckBank, NEW h \in {"mastery_up", "support_down"}, NEW ok \in BOOLEAN,
               Check(q, h, ok)
        PROVE  ProfileInv'
    BY <1>3, CheckHolds
  <1>4. ASSUME NEW q \in QuizBank, NEW ok \in BOOLEAN, Quiz(q, ok)
        PROVE  ProfileInv'
    BY <1>4, QuizHolds
  <1>5. ASSUME NEW q \in mistakes, NEW ok \in BOOLEAN, Correct(q, ok)
        PROVE  ProfileInv'
    BY <1>5, CorrectHolds
  <1> QED BY <1>1, <1>2, <1>3, <1>4, <1>5 DEF ProfileNext

-----------------------------------------------------------------------------
(* Theorems                                                                *)

\* Whatever a learner answers, in whatever order and however often, the state
\* behind the profile agrees with the answers it was built from.
THEOREM ProfileAgrees == ProfileSpec => []ProfileInv
  <1>1. ProfileInit => ProfileInv
    BY ProfileInitHolds
  <1>2. ProfileInv /\ [ProfileNext]_profileVars => ProfileInv'
    BY ProfileStep
  <1> QED BY <1>1, <1>2, PTL DEF ProfileSpec

\* No answer that was used or closed is forgotten, except by an analysis in
\* which four right answers outweigh it.
THEOREM NothingForgotten == ProfileSpec => []AnswersKept
  <1>1. ProfileInv => AnswersKept
    BY DEF ProfileInv
  <1> QED BY <1>1, ProfileAgrees, PTL

\* Corrections alone never make a knowledge point known.
THEOREM MasteryIsFormal == ProfileSpec => []KnownByFormalAnswers
  <1>1. ASSUME ProfileInv
        PROVE  KnownByFormalAnswers
    <2>1. SUFFICES ASSUME NEW k \in Known(profile.state)
                   PROVE  LET ids == profile.state[k].ids IN
                          /\ Cardinality({x \in ids : FormalId(x)}) >= 2
                          /\ Cardinality({x \in ids : RightId(x)}) >= 2
      BY DEF KnownByFormalAnswers
    <2>2. k \in Knowledge /\ profile.state # NoState /\ Status(profile.state[k]) = "known"
      BY <2>1 DEF Known, StateStatus
    <2>3. IsItem(profile.state[k], k, answers, diagnosis)
      BY <1>1, <2>2 DEF ProfileInv, StateInv, IsState
    <2>4. /\ Cardinality({x \in profile.state[k].ids : FormalIn(answers, x)}) >= 2
          /\ Cardinality({x \in profile.state[k].ids : RightIn(answers, diagnosis, x)}) >= 2
      BY <2>2, <2>3, KnownNeedsTwo
    <2> QED BY <2>4 DEF FormalId, RightId, FormalIn, RightIn
  <1> QED BY <1>1, ProfileAgrees, PTL

\* Whatever the learner's weak points are, the plan of a package covers its
\* unit and its quiz.
THEOREM PlansSuffice == ProfileSpec => []PlanHasRoom
  <1>1. ASSUME ProfileInv
        PROVE  PlanHasRoom
    <2>1. IsWeak(profile.weak)
      BY <1>1 DEF ProfileInv, StateInv
    <2> QED BY <2>1, PlanRoom DEF PlanHasRoom
  <1> QED BY <1>1, ProfileAgrees, PTL
=============================================================================
