---------------------------- MODULE PackageProofs ----------------------------
(***************************************************************************)
(* What a learner's package holds: PackagePublication keeps its invariants *)
(* for any number of tasks, types, knowledge updates and retries, and      *)
(* QuizGeneration keeps what the preflight promised, and its quiz to the   *)
(* bank its references were taken from, for any bank, targets, focus,      *)
(* profile, difficulty and number of rounds.                               *)
(*                                                                         *)
(* The inductive invariant of the publication adds to the properties what  *)
(* they rest on: a task derives from earlier tasks only, so that a package *)
(* never inherits from itself (OrderInv); a resource of a published task   *)
(* stays passed (TaskInv); a row is never invented: it is the task's own   *)
(* or its source's (RowsInv), and its own and untouched by updates before  *)
(* it published (OwnRows); a refresh whose task has published is no longer *)
(* waited for (WorkerInv).                                                 *)
(***************************************************************************)
EXTENDS PackagePublication, QuizGeneration, SequenceTheorems, FiniteSetTheorems,
        WellFoundedInduction, TLAPS

\* Tasks are created in order and derive from earlier ones.
OrderInv ==
    /\ \A t, u \in Tasks : u < t /\ status[t] # "absent" => status[u] # "absent"
    /\ \A t \in Tasks : source[t] # NoTask =>
          source[t] < t /\ status[t] # "absent" /\ status[source[t]] # "absent"
    /\ \A p \in Tasks, k \in Types : member[p][k] # NoMember =>
          member[p][k].of <= p /\ status[p] # "absent"

TaskInv ==
    \A t \in Tasks :
        /\ status[t] # "absent" => types[t] # {}
        /\ t \in published => status[t] # "absent"
        /\ source[t] = NoTask => event[t] = "initial"
        /\ \A k \in Types : review[t][k] # "none" => k \in types[t] /\ status[t] # "absent"
        /\ t \in published => \A k \in types[t] : review[t][k] = "passed"

\* A row is the task's own or names the resource that the row of its source names.
RowsInv ==
    \A p \in Tasks, k \in Types : member[p][k] # NoMember =>
        \/ member[p][k].of = p /\ k \in types[p]
        \/ /\ source[p] # NoTask
           /\ member[source[p]][k] # NoMember
           /\ member[source[p]][k].of = member[p][k].of

OwnRows ==
    \A p \in Tasks \ published, k \in Types : member[p][k] # NoMember =>
        member[p][k] = [of |-> p, fresh |-> "current"] /\ k \in types[p]

RootedInv ==
    \A p \in rooted :
        /\ p \in published
        /\ source[p] # NoTask => source[p] \in rooted
        /\ MemberTypes(member[p]) =
              types[p] \cup (IF source[p] = NoTask THEN {} ELSE MemberTypes(member[source[p]]))
        /\ \A k \in MemberTypes(member[p]) :
              member[p][k].of \in published /\ k \in types[member[p][k].of]

DisplacedInv == published = current \cup displaced

WorkerInv == \A p \in Tasks : impact[p].status = "refreshing" => impact[p].by \notin published

IInv ==
    /\ TypeOK
    /\ OrderInv
    /\ TaskInv
    /\ RowsInv
    /\ OwnRows
    /\ RootedInv
    /\ DisplacedInv
    /\ OneCurrentPackage
    /\ WorkerInv
    /\ RefreshHasWorker
    /\ ChangesOffered

-----------------------------------------------------------------------------
(* The rows of packages                                                    *)

Rows == [Types -> Member \cup {NoMember}]

LEMMA NoMemberFacts ==
  /\ NoMember \notin Member
  /\ NoMembers \in Rows
  /\ MemberTypes(NoMembers) = {}
  <1>1. NoMember.of = NoTask
    BY DEF NoMember
  <1>2. QED
    BY <1>1, NoTaskAssumption DEF Member, NoMembers, MemberTypes, Rows

LEMMA EnsuredRows ==
  ASSUME TypeOK, NEW p \in Tasks
  PROVE  /\ Ensured(p) \in Rows
         /\ member[p] # NoMembers => Ensured(p) = member[p]
         /\ member[p] = NoMembers => \A k \in Types :
               Ensured(p)[k] = IF review[p][k] = "none" THEN NoMember
                               ELSE [of |-> p, fresh |-> "current"]
  BY NoMemberFacts DEF TypeOK, Ensured, Rows, Member

LEMMA SourceRows ==
  ASSUME TypeOK, NEW t \in Tasks
  PROVE  /\ SourceMembers(t) \in Rows
         /\ source[t] = NoTask => SourceMembers(t) = NoMembers
         /\ source[t] # NoTask => source[t] \in Tasks /\ SourceMembers(t) = Ensured(source[t])
  <1>1. source[t] \in Tasks \cup {NoTask}
    BY DEF TypeOK
  <1>2. CASE source[t] = NoTask
    BY <1>2, NoMemberFacts DEF SourceMembers
  <1>3. CASE source[t] \in Tasks
    BY <1>3, EnsuredRows, NoTaskAssumption DEF SourceMembers
  <1> QED BY <1>1, <1>2, <1>3

LEMMA ComposedRows ==
  ASSUME TypeOK, NEW t \in Tasks
  PROVE  /\ Composed(t) \in Rows
         /\ \A k \in Types : k \in types[t] => Composed(t)[k] = [of |-> t, fresh |-> "current"]
         /\ \A k \in Types : k \notin types[t] => Composed(t)[k] = SourceMembers(t)[k]
  BY SourceRows DEF Composed, Rows, Member

LEMMA AddedRows ==
  ASSUME NEW r \in Rows, NEW n \in Rows
  PROVE  /\ Added(r, n) \in Rows
         /\ \A k \in Types : Added(r, n)[k] = IF r[k] = NoMember THEN n[k] ELSE r[k]
         /\ MemberTypes(Added(r, n)) = MemberTypes(r) \cup MemberTypes(n)
  BY DEF Added, Rows, MemberTypes

\* The tables after the source package has got its rows.
LEMMA WithSourceRows ==
  ASSUME TypeOK, NEW t \in Tasks
  PROVE  /\ WithSource(t) \in [Tasks -> Rows]
         /\ \A p \in Tasks : p # source[t] => WithSource(t)[p] = member[p]
         /\ source[t] # NoTask => WithSource(t)[source[t]] = Ensured(source[t])
  BY SourceRows DEF WithSource, TypeOK, Rows

\* A knowledge update marks rows and adds none.
LEMMA UpdatedRows ==
  ASSUME TypeOK, NEW ks \in SUBSET Types, KnowledgeUpdate(ks), NEW p \in Tasks
  PROVE  /\ member'[p] \in Rows
         /\ \A k \in Types :
              /\ (member'[p][k] = NoMember) = (member[p][k] = NoMember)
              /\ k \in Hit(p, ks) => /\ member'[p][k].of = member[p][k].of
                                    /\ member[p][k] # NoMember
                                    /\ p \in current
              /\ k \notin Hit(p, ks) => member'[p][k] = member[p][k]
         /\ MemberTypes(member'[p]) = MemberTypes(member[p])
  <1>1. Hit(p, ks) \subseteq Types /\ \A k \in Hit(p, ks) : member[p][k] # NoMember /\ p \in current
    BY DEF Hit, MemberTypes
  <1>2. member[p] \in Rows
    BY DEF TypeOK, Rows
  <1>3. member'[p] = [k \in Types |->
                       IF k \in Hit(p, ks) THEN [member[p][k] EXCEPT !.fresh = "changed"]
                                           ELSE member[p][k]]
    BY DEF KnowledgeUpdate
  <1>4. \A k \in Hit(p, ks) : /\ member'[p][k] \in Member
                              /\ member'[p][k].of = member[p][k].of
    BY <1>1, <1>2, <1>3 DEF Rows, Member
  <1>5. \A k \in Types : (member'[p][k] = NoMember) = (member[p][k] = NoMember)
    BY <1>1, <1>3, <1>4, NoMemberFacts
  <1> QED BY <1>1, <1>2, <1>3, <1>4, <1>5 DEF Rows, MemberTypes
-----------------------------------------------------------------------------
(* New tasks                                                               *)

\* What the four operations that create a task have in common.
Creates(t, e, s, ks) ==
    /\ Derive(t, e, s, ks)
    /\ e \in {"initial", "refresh", "feedback"}
    /\ s \in Tasks \cup {NoTask}
    /\ ks \in (SUBSET Types) \ {{}}
    /\ s = NoTask => e = "initial"
    /\ s # NoTask => s < t /\ status[s] # "absent"
    /\ \/ UNCHANGED impact
       \/ /\ e = "refresh" /\ s \in Tasks
          /\ impact' = [impact EXCEPT ![s].status = "refreshing", ![s].by = t]

CreatesTask(t) ==
    \E e \in {"initial", "refresh", "feedback"}, s \in Tasks \cup {NoTask},
       ks \in (SUBSET Types) \ {{}} : Creates(t, e, s, ks)

LEMMA EarlierTask ==
  ASSUME OrderInv, NEW t \in Tasks, NEW u \in Tasks, Fresh(t), status[u] # "absent"
  PROVE  u < t
  BY TasksAssumption DEF OrderInv, Fresh

LEMMA CreationSteps ==
  ASSUME TypeOK, OrderInv, TaskInv, OneCurrentPackage
  PROVE  /\ \A t \in Tasks : CreateInitial(t) => CreatesTask(t)
         /\ \A t, p \in Tasks : StartRefresh(t, p) => CreatesTask(t)
         /\ \A t, u \in Tasks, k \in Types : StartFeedback(t, u, k) => CreatesTask(t)
         /\ \A t, u \in Tasks : Succeed(t, u) => CreatesTask(t)
  <1>1. ASSUME NEW t \in Tasks, CreateInitial(t)
        PROVE  CreatesTask(t)
    <2>1. PICK ks \in Requested : Derive(t, "initial", NoTask, ks) /\ UNCHANGED impact
      BY <1>1 DEF CreateInitial
    <2>2. Creates(t, "initial", NoTask, ks)
      BY <2>1, RequestedAssumption DEF Creates
    <2> QED BY <2>2, RequestedAssumption DEF CreatesTask
  <1>2. ASSUME NEW t \in Tasks, NEW p \in Tasks, StartRefresh(t, p)
        PROVE  CreatesTask(t)
    <2> DEFINE ks == MemberTypes(member[p]) \cap impact[p].affected
    <2>1. ks \in (SUBSET Types) \ {{}}
      BY <1>2 DEF StartRefresh, MemberTypes
    <2>2. /\ Derive(t, "refresh", p, ks)
          /\ p \in current
          /\ impact' = [impact EXCEPT ![p].status = "refreshing", ![p].by = t]
      BY <1>2 DEF StartRefresh
    <2>3. status[p] # "absent" /\ Fresh(t)
      BY <2>2 DEF OneCurrentPackage, TaskInv, Derive
    <2>4. p < t
      BY <2>3, EarlierTask
    <2> HIDE DEF ks
    <2>5. Creates(t, "refresh", p, ks)
      BY <2>1, <2>2, <2>3, <2>4, NoTaskAssumption DEF Creates
    <2> QED BY <2>1, <2>5 DEF CreatesTask
  <1>3. ASSUME NEW t \in Tasks, NEW u \in Tasks, NEW k \in Types, StartFeedback(t, u, k)
        PROVE  CreatesTask(t)
    <2> DEFINE s == FeedbackSource(u, k)
    <2>1. s \in Tasks /\ status[s] # "absent"
      <3>1. status[u] # "absent"
        BY <1>3 DEF StartFeedback, TaskInv
      <3>2. \A p \in current : p \in Tasks /\ status[p] # "absent"
        BY DEF TypeOK, OneCurrentPackage, TaskInv
      <3> QED BY <3>1, <3>2 DEF FeedbackSource
    <2>2. Derive(t, "feedback", s, {k}) /\ UNCHANGED impact
      BY <1>3 DEF StartFeedback
    <2> HIDE DEF s
    <2>3. s < t
      BY <2>1, <2>2, EarlierTask DEF Derive
    <2>4. Creates(t, "feedback", s, {k})
      BY <2>1, <2>2, <2>3, NoTaskAssumption DEF Creates
    <2> QED BY <2>1, <2>4 DEF CreatesTask
  <1>4. ASSUME NEW t \in Tasks, NEW u \in Tasks, Succeed(t, u)
        PROVE  CreatesTask(t)
    <2>1. Derive(t, event[u], u, types[u]) /\ UNCHANGED impact /\ status[u] = "failed"
      BY <1>4 DEF Succeed
    <2>2. types[u] \in (SUBSET Types) \ {{}} /\ event[u] \in {"initial", "refresh", "feedback"}
      BY <2>1 DEF TypeOK, TaskInv
    <2>3. u < t
      BY <2>1, EarlierTask DEF Derive
    <2>4. Creates(t, event[u], u, types[u])
      BY <2>1, <2>2, <2>3, NoTaskAssumption DEF Creates
    <2> QED BY <2>2, <2>4 DEF CreatesTask
  <1> QED BY <1>1, <1>2, <1>3, <1>4

\* The steps the lemmas below go through.
LEMMA Steps ==
  ASSUME TypeOK, OrderInv, TaskInv, OneCurrentPackage, [Next]_vars
  PROVE  \/ \E t \in Tasks : \/ CreatesTask(t) \/ Retry(t) \/ Publish(t)
                             \/ RefusePublication(t) \/ Withhold(t)
                             \/ Complete(t) \/ Fail(t) \/ Dismiss(t)
         \/ \E ks \in SUBSET Types : KnowledgeUpdate(ks)
         \/ UNCHANGED vars
  BY CreationSteps DEF Next

-----------------------------------------------------------------------------
(* Each part of the invariant is kept by every step.                       *)

LEMMA TypeStep ==
  ASSUME TypeOK, OrderInv, TaskInv, OneCurrentPackage, [Next]_vars
  PROVE  TypeOK'
  <1>1. ASSUME NEW t \in Tasks, CreatesTask(t)
        PROVE  TypeOK'
    <2>1. PICK e \in {"initial", "refresh", "feedback"}, s \in Tasks \cup {NoTask},
               ks \in (SUBSET Types) \ {{}} : Creates(t, e, s, ks)
      BY <1>1 DEF CreatesTask
    <2>2. impact' \in [Tasks -> Impact]
      <3>1. CASE UNCHANGED impact
        BY <3>1 DEF TypeOK
      <3>2. CASE s \in Tasks /\ impact' = [impact EXCEPT ![s].status = "refreshing",
                                                         ![s].by = t]
        <4>1. impact[s] \in Impact
          BY <3>2 DEF TypeOK
        <4>2. [impact[s] EXCEPT !.status = "refreshing", !.by = t] \in Impact
          BY <4>1 DEF Impact
        <4> QED BY <3>2, <4>2 DEF TypeOK
      <3> QED BY <2>1, <3>1, <3>2 DEF Creates
    <2>3. /\ status' \in [Tasks -> {"absent", "active", "failed", "completed"}]
          /\ event' \in [Tasks -> {"initial", "refresh", "feedback"}]
          /\ source' \in [Tasks -> Tasks \cup {NoTask}]
          /\ types' \in [Tasks -> SUBSET Types]
      BY <2>1 DEF Creates, Derive, TypeOK
    <2> QED BY <2>1, <2>2, <2>3 DEF Creates, Derive, TypeOK, bounded, history
  <1>2. ASSUME NEW t \in Tasks, Retry(t)
        PROVE  TypeOK'
    BY <1>2, BoundsAssumption DEF Retry, TypeOK, derivation, history
  <1>3. ASSUME NEW t \in Tasks, NEW v \in {"passed", "failed"}
        PROVE  Judged(t, v) \in [Tasks -> [Types -> {"none", "passed", "failed"}]]
    BY DEF Judged, TypeOK
  <1>4. ASSUME NEW t \in Tasks, Publish(t)
        PROVE  TypeOK'
    <2>1. member' \in [Tasks -> [Types -> Member \cup {NoMember}]]
      <3>1. Added(member[t], Composed(t)) \in Rows
        BY ComposedRows, AddedRows DEF TypeOK, Rows
      <3> QED BY <1>4, <3>1, WithSourceRows DEF Publish, Rows
    <2>2. impact' \in [Tasks -> Impact]
      <3>1. CASE source[t] # NoTask /\ impact[source[t]].status = "refreshing"
        <4>1. source[t] \in Tasks /\ impact[source[t]] \in Impact
          BY <3>1 DEF TypeOK
        <4>2. [impact[source[t]] EXCEPT !.status = "resolved", !.by = t] \in Impact
          BY <4>1 DEF Impact
        <4>3. impact' = [impact EXCEPT ![source[t]].status = "resolved",
                                       ![source[t]].by = t]
          BY <1>4, <3>1 DEF Publish
        <4> QED BY <4>1, <4>2, <4>3 DEF TypeOK
      <3>2. CASE ~(source[t] # NoTask /\ impact[source[t]].status = "refreshing")
        BY <1>4, <3>2 DEF Publish, TypeOK
      <3> QED BY <3>1, <3>2
    <2>3. /\ review' \in [Tasks -> [Types -> {"none", "passed", "failed"}]]
          /\ current' \in SUBSET Tasks
          /\ published' \in SUBSET Tasks
          /\ rooted' \in SUBSET Tasks
          /\ displaced' \in SUBSET Tasks
      BY <1>3, <1>4 DEF Publish, Displaced, TypeOK
    <2> QED BY <1>4, <2>1, <2>2, <2>3 DEF Publish, TypeOK, derivation, bounded
  <1>5. ASSUME NEW t \in Tasks, RefusePublication(t) \/ Withhold(t)
        PROVE  TypeOK'
    <2>1. member' \in [Tasks -> [Types -> Member \cup {NoMember}]]
      BY <1>5, WithSourceRows DEF RefusePublication, Withhold, Rows
    <2>2. review' \in [Tasks -> [Types -> {"none", "passed", "failed"}]]
      BY <1>3, <1>5 DEF RefusePublication, Withhold
    <2> QED BY <1>5, <2>1, <2>2
            DEF RefusePublication, Withhold, TypeOK, derivation, bounded, history
  <1>6. ASSUME NEW t \in Tasks, Complete(t)
        PROVE  TypeOK'
    BY <1>6 DEF Complete, TypeOK, derivation, bounded, history
  <1>7. ASSUME NEW t \in Tasks, Fail(t)
        PROVE  TypeOK'
    <2>1. impact' \in [Tasks -> Impact]
      <3>1. CASE event[t] = "refresh" /\ source[t] \in Tasks
        <4>1. impact[source[t]] \in Impact
          BY <3>1 DEF TypeOK
        <4>2. [impact[source[t]] EXCEPT !.status = "pending", !.by = NoTask] \in Impact
          BY <4>1 DEF Impact
        <4> QED BY <1>7, <3>1, <4>2 DEF Fail, Restored, TypeOK
      <3>2. CASE ~(event[t] = "refresh" /\ source[t] \in Tasks)
        <4>1. event[t] # "refresh"
          BY <3>2 DEF TypeOK, TaskInv
        <4> QED BY <1>7, <4>1 DEF Fail, Restored, TypeOK
      <3> QED BY <3>1, <3>2
    <2> QED BY <1>7, <2>1 DEF Fail, TypeOK, derivation, bounded, history
  <1>8. ASSUME NEW t \in Tasks, Dismiss(t)
        PROVE  TypeOK'
    <2>1. impact[t] \in Impact
      BY DEF TypeOK
    <2>2. [impact[t] EXCEPT !.status = "dismissed"] \in Impact
      BY <2>1 DEF Impact
    <2>3. impact' \in [Tasks -> Impact]
      BY <1>8, <2>2 DEF Dismiss, TypeOK
    <2> QED BY <1>8, <2>3 DEF Dismiss, TypeOK, derivation, bounded, history
  <1>9. ASSUME NEW ks \in SUBSET Types, KnowledgeUpdate(ks)
        PROVE  TypeOK'
    <2>1. member' \in [Tasks -> [Types -> Member \cup {NoMember}]]
      <3>1. \A p \in Tasks : member'[p] \in Rows
        BY <1>9, UpdatedRows
      <3>2. DOMAIN member' = Tasks /\ member' = [p \in Tasks |-> member'[p]]
        BY <1>9 DEF KnowledgeUpdate
      <3> QED BY <3>1, <3>2 DEF Rows
    <2>2. impact' \in [Tasks -> Impact]
      <3>1. ASSUME NEW i \in Impact, NEW hit \in SUBSET Types
            PROVE  Recorded(i, hit) \in Impact
        BY DEF Recorded, Impact
      <3>2. \A p \in Tasks : Hit(p, ks) \in SUBSET Types
        BY DEF Hit
      <3> QED BY <1>9, <3>1, <3>2 DEF KnowledgeUpdate, TypeOK
    <2>3. changes' \in 0 .. MaxChanges
      BY <1>9, BoundsAssumption DEF KnowledgeUpdate, TypeOK
    <2> QED BY <1>9, <2>1, <2>2, <2>3 DEF KnowledgeUpdate, TypeOK, derivation, history
  <1>10. CASE UNCHANGED vars
    BY <1>10 DEF vars, derivation, bounded, history, TypeOK
  <1> QED BY <1>1, <1>2, <1>4, <1>5, <1>6, <1>7, <1>8, <1>9, <1>10, Steps

\* What the final transaction of t does to the rows: those that exist stay, a source
\* without rows gets its own, t gets its own and its source's.
Finalizes(t) ==
    /\ status[t] = "active"
    /\ \/ member' = WithSource(t)
       \/ member' = [WithSource(t) EXCEPT ![t] = Added(member[t], Composed(t))]

\* How the row of type k gets into package p.
Gets(t, p, k) ==
    \/ /\ p = source[t]
       /\ member[p] = NoMembers
       /\ review[p][k] # "none"
       /\ member'[p][k] = [of |-> p, fresh |-> "current"]
    \/ p = t /\ k \in types[t] /\ member'[p][k] = [of |-> t, fresh |-> "current"]
    \/ p = t /\ source[t] # NoTask /\ member'[p][k] = member'[source[t]][k]

LEMMA FinalRows ==
  ASSUME TypeOK, OrderInv, NEW t \in Tasks, Finalizes(t), NEW p \in Tasks, NEW k \in Types
  PROVE  /\ member[p][k] # NoMember => member'[p][k] = member[p][k]
         /\ p # t /\ p # source[t] => member'[p] = member[p]
         /\ p = t /\ member' = WithSource(t) => member'[p] = member[p]
         /\ member[p][k] = NoMember /\ member'[p][k] # NoMember => Gets(t, p, k)
  <1>1. t # source[t]
    BY TasksAssumption, NoTaskAssumption DEF OrderInv
  <1>2. p # t => member'[p] = WithSource(t)[p]
    BY WithSourceRows DEF Finalizes
  <1>3. CASE p = source[t]
    <2>1. member'[p] = Ensured(p)
      BY <1>1, <1>2, <1>3, WithSourceRows, NoTaskAssumption
    <2>2. member[p] = NoMembers =>
            /\ member[p][k] = NoMember
            /\ member'[p][k] # NoMember => /\ review[p][k] # "none"
                                           /\ member'[p][k] = [of |-> p, fresh |-> "current"]
      BY <2>1, EnsuredRows DEF NoMembers
    <2>3. member[p] # NoMembers => member'[p] = member[p]
      BY <2>1, EnsuredRows
    <2> QED BY <1>1, <1>3, <2>2, <2>3 DEF Gets
  <1>4. CASE p = t
    <2>1. WithSource(t)[t] = member[t]
      BY <1>1, WithSourceRows
    <2>2. CASE member' = WithSource(t)
      BY <1>1, <1>4, <2>1, <2>2
    <2>3. CASE member' # WithSource(t)
      <3>1. member'[t] = Added(member[t], Composed(t))
        BY <2>3, WithSourceRows DEF Finalizes
      <3>2. member'[t][k] = IF member[t][k] = NoMember THEN Composed(t)[k] ELSE member[t][k]
        <4>1. member[t] \in Rows /\ Composed(t) \in Rows
          BY ComposedRows DEF TypeOK, Rows
        <4> QED BY <3>1, <4>1, AddedRows
      <3>3. source[t] # NoTask => /\ SourceMembers(t) = Ensured(source[t])
                                  /\ member'[source[t]] = Ensured(source[t])
        BY <1>1, SourceRows, WithSourceRows DEF Finalizes
      <3>4. source[t] = NoTask => SourceMembers(t)[k] = NoMember
        BY SourceRows DEF NoMembers
      <3> QED BY <1>1, <1>4, <2>3, <3>2, <3>3, <3>4, ComposedRows DEF Gets
    <2> QED BY <2>2, <2>3
  <1>5. CASE p # t /\ p # source[t]
    BY <1>2, <1>5, WithSourceRows
  <1> QED BY <1>3, <1>4, <1>5

LEMMA FinalSteps ==
  ASSUME NEW t \in Tasks, Publish(t) \/ RefusePublication(t) \/ Withhold(t)
  PROVE  /\ Finalizes(t)
         /\ UNCHANGED <<status, derivation>>
         /\ \E v \in {"passed", "failed"} : review' = Judged(t, v)
  BY DEF Publish, RefusePublication, Withhold, Finalizes, derivation

LEMMA OrderStep ==
  ASSUME TypeOK, OrderInv, TaskInv, OneCurrentPackage, [Next]_vars
  PROVE  OrderInv'
  <1>1. ASSUME NEW t \in Tasks, CreatesTask(t)
        PROVE  OrderInv'
    <2>1. PICK e \in {"initial", "refresh", "feedback"}, s \in Tasks \cup {NoTask},
               ks \in (SUBSET Types) \ {{}} : Creates(t, e, s, ks)
      BY <1>1 DEF CreatesTask
    <2>2. /\ Fresh(t)
          /\ status' = [status EXCEPT ![t] = "active"]
          /\ source' = [source EXCEPT ![t] = s]
          /\ UNCHANGED member
          /\ s # NoTask => s < t /\ status[s] # "absent"
      BY <2>1 DEF Creates, Derive
    <2>3. \A u \in Tasks : status[u] # "absent" => status'[u] # "absent"
      BY <2>2 DEF TypeOK
    <2>4. \A u, v \in Tasks : u < v /\ status'[v] # "absent" => status'[u] # "absent"
      BY <2>2, <2>3 DEF OrderInv, Fresh, TypeOK
    <2>5. \A u \in Tasks : source'[u] # NoTask =>
            source'[u] < u /\ status'[u] # "absent" /\ status'[source'[u]] # "absent"
      BY <2>2, <2>3 DEF OrderInv, TypeOK
    <2> QED BY <2>2, <2>3, <2>4, <2>5 DEF OrderInv
  <1>2. ASSUME NEW t \in Tasks, Retry(t) \/ Complete(t) \/ Fail(t)
        PROVE  OrderInv'
    <2>1. /\ status[t] # "absent"
          /\ \E x \in {"active", "completed", "failed"} : status' = [status EXCEPT ![t] = x]
          /\ UNCHANGED <<source, member>>
      BY <1>2 DEF Retry, Complete, Fail, derivation
    <2>2. \A u \in Tasks : (status'[u] = "absent") = (status[u] = "absent")
      BY <2>1 DEF TypeOK
    <2> QED BY <2>1, <2>2 DEF OrderInv, TypeOK
  <1>3. ASSUME NEW t \in Tasks, Publish(t) \/ RefusePublication(t) \/ Withhold(t)
        PROVE  OrderInv'
    <2>1. UNCHANGED <<status, source>> /\ Finalizes(t)
      BY <1>3, FinalSteps DEF derivation
    <2>2. TypeOK'
      BY <1>3, TypeStep DEF Next
    <2>3. ASSUME NEW p \in Tasks, NEW k \in Types, member'[p][k] # NoMember
          PROVE  status[p] # "absent" /\ member'[p][k].of <= p
      <3>1. \A q \in Tasks : /\ member[q][k] # NoMember => member'[q][k] = member[q][k]
                             /\ member[q][k] = NoMember /\ member'[q][k] # NoMember =>
                                   Gets(t, q, k)
        BY <2>1, FinalRows
      <3>2. \A q \in Tasks : member[q][k] # NoMember => member[q][k].of <= q
        BY DEF OrderInv
      <3>3. source[t] # NoTask =>
              source[t] \in Tasks /\ source[t] < t /\ status[source[t]] # "absent"
        BY DEF OrderInv, TypeOK
      <3>4. CASE member[p][k] # NoMember
        BY <3>1, <3>4 DEF OrderInv
      <3>5. CASE Gets(t, p, k)
        <4>1. CASE p # t
          <5>1. p = source[t] /\ member'[p][k] = [of |-> p, fresh |-> "current"]
            BY <3>5, <4>1 DEF Gets
          <5>2. member'[p][k].of = p /\ p \in Nat /\ source[t] # NoTask
            BY <5>1, TasksAssumption, NoTaskAssumption
          <5> QED BY <3>3, <5>1, <5>2
        <4>2. CASE p = t /\ member'[p][k] = [of |-> t, fresh |-> "current"]
          BY <2>1, <4>2, TasksAssumption DEF Finalizes
        <4>3. CASE p = t /\ source[t] # NoTask /\ member'[p][k] = member'[source[t]][k]
          <5>1. member'[source[t]][k].of <= source[t]
            <6>1. CASE member[source[t]][k] # NoMember
              BY <3>1, <3>2, <3>3, <4>3, <6>1
            <6>2. CASE Gets(t, source[t], k)
              <7>1. source[t] # t
                BY <3>3, <4>3, TasksAssumption
              <7>2. member'[source[t]][k].of = source[t]
                BY <6>2, <7>1 DEF Gets
              <7> QED BY <3>3, <4>3, <7>2, TasksAssumption
            <6> QED BY <2>3, <3>1, <3>3, <4>3, <6>1, <6>2
          <5>2. member'[source[t]][k].of \in Tasks
            BY <2>3, <2>2, <3>3, <4>3 DEF TypeOK, Member
          <5>3. \A a, b, c \in Nat : a <= b /\ b < c => a <= c
            OBVIOUS
          <5>4. member'[source[t]][k].of <= t
            BY <3>3, <4>3, <5>1, <5>2, <5>3, TasksAssumption
          <5> QED BY <2>1, <4>3, <5>4 DEF Finalizes
        <4>4. t # source[t]
          BY <3>3, TasksAssumption, NoTaskAssumption
        <4> QED BY <3>5, <4>1, <4>2, <4>3, <4>4, Zenon DEF Gets
      <3> QED BY <2>3, <3>1, <3>4, <3>5
    <2> QED BY <2>1, <2>3 DEF OrderInv
  <1>4. ASSUME NEW t \in Tasks, Dismiss(t)
        PROVE  OrderInv'
    BY <1>4 DEF Dismiss, OrderInv, derivation
  <1>5. ASSUME NEW ks \in SUBSET Types, KnowledgeUpdate(ks)
        PROVE  OrderInv'
    <2>1. \A p \in Tasks, k \in Types : member'[p][k] # NoMember =>
            member[p][k] # NoMember /\ member'[p][k].of = member[p][k].of
      BY <1>5, UpdatedRows
    <2> QED BY <1>5, <2>1 DEF KnowledgeUpdate, OrderInv, derivation
  <1>6. CASE UNCHANGED vars
    BY <1>6 DEF vars, derivation, OrderInv
  <1> QED BY <1>1, <1>2, <1>3, <1>4, <1>5, <1>6, Steps

LEMMA TaskStep ==
  ASSUME TypeOK, OrderInv, TaskInv, OneCurrentPackage, [Next]_vars
  PROVE  TaskInv'
  <1>1. ASSUME NEW t \in Tasks, CreatesTask(t)
        PROVE  TaskInv'
    <2>1. PICK e \in {"initial", "refresh", "feedback"}, s \in Tasks \cup {NoTask},
               ks \in (SUBSET Types) \ {{}} : Creates(t, e, s, ks)
      BY <1>1 DEF CreatesTask
    <2>2. /\ status[t] = "absent"
          /\ status' = [status EXCEPT ![t] = "active"]
          /\ event' = [event EXCEPT ![t] = e]
          /\ source' = [source EXCEPT ![t] = s]
          /\ types' = [types EXCEPT ![t] = ks]
          /\ UNCHANGED <<review, published>>
          /\ s = NoTask => e = "initial"
      BY <2>1 DEF Creates, Derive, Fresh, history
    <2>3. \A u \in Tasks : u # t => /\ status'[u] = status[u]
                                    /\ event'[u] = event[u]
                                    /\ source'[u] = source[u]
                                    /\ types'[u] = types[u]
      BY <2>2 DEF TypeOK
    <2>4. status'[t] = "active" /\ event'[t] = e /\ source'[t] = s /\ types'[t] = ks
      BY <2>2 DEF TypeOK
    <2>5. t \notin published /\ \A k \in Types : review[t][k] = "none"
      BY <2>2 DEF TaskInv
    <2> QED BY <2>2, <2>3, <2>4, <2>5 DEF TaskInv
  <1>2. ASSUME NEW t \in Tasks, Retry(t) \/ Complete(t) \/ Fail(t)
        PROVE  TaskInv'
    <2>1. /\ status[t] # "absent"
          /\ \E x \in {"active", "completed", "failed"} : status' = [status EXCEPT ![t] = x]
          /\ UNCHANGED <<event, source, types, review, published>>
      BY <1>2 DEF Retry, Complete, Fail, derivation, history
    <2>2. \A u \in Tasks : (status'[u] = "absent") = (status[u] = "absent")
      BY <2>1 DEF TypeOK
    <2> QED BY <2>1, <2>2 DEF TaskInv
  <1>3. ASSUME NEW t \in Tasks, Publish(t) \/ RefusePublication(t) \/ Withhold(t)
        PROVE  TaskInv'
    <2>1. UNCHANGED <<status, event, source, types>> /\ status[t] # "absent"
      BY <1>3, FinalSteps DEF derivation, Finalizes
    <2>2. /\ published' = published \/ published' = published \cup {t}
          /\ t \in published' => review' = Judged(t, "passed")
      BY <1>3 DEF Publish, RefusePublication, Withhold, history
    <2>3. PICK v \in {"passed", "failed"} : review' = Judged(t, v)
      BY <1>3, FinalSteps
    <2>4. \A u \in Tasks : u # t => review'[u] = review[u]
      BY <2>3 DEF Judged, TypeOK
    <2>5. \A k \in Types : review'[t][k] = IF k \in types[t] THEN v ELSE review[t][k]
      BY <2>3 DEF Judged, TypeOK
    <2>6. t \in published' => \A k \in types[t] : review'[t][k] = "passed"
      BY <2>2 DEF Judged, TypeOK
    <2> QED BY <2>1, <2>2, <2>4, <2>5, <2>6 DEF TaskInv
  <1>4. CASE \/ \E t \in Tasks : Dismiss(t)
             \/ \E ks \in SUBSET Types : KnowledgeUpdate(ks)
             \/ UNCHANGED vars
    BY <1>4 DEF Dismiss, KnowledgeUpdate, vars, derivation, history, TaskInv
  <1> QED BY <1>1, <1>2, <1>3, <1>4, Steps

LEMMA RowsStep ==
  ASSUME TypeOK, OrderInv, TaskInv, OneCurrentPackage, RowsInv, [Next]_vars
  PROVE  RowsInv'
  <1>1. ASSUME NEW t \in Tasks, CreatesTask(t)
        PROVE  RowsInv'
    <2>1. PICK e \in {"initial", "refresh", "feedback"}, s \in Tasks \cup {NoTask},
               ks \in (SUBSET Types) \ {{}} : Creates(t, e, s, ks)
      BY <1>1 DEF CreatesTask
    <2>2. /\ status[t] = "absent"
          /\ source' = [source EXCEPT ![t] = s]
          /\ types' = [types EXCEPT ![t] = ks]
          /\ UNCHANGED member
      BY <2>1 DEF Creates, Derive, Fresh
    <2>3. \A k \in Types : member[t][k] = NoMember
      BY <2>2 DEF OrderInv
    <2>4. \A p \in Tasks : p # t => source'[p] = source[p] /\ types'[p] = types[p]
      BY <2>2 DEF TypeOK
    <2> QED BY <2>2, <2>3, <2>4 DEF RowsInv
  <1>2. ASSUME NEW t \in Tasks, Publish(t) \/ RefusePublication(t) \/ Withhold(t)
        PROVE  RowsInv'
    <2>1. UNCHANGED <<source, types>> /\ Finalizes(t)
      BY <1>2, FinalSteps DEF derivation
    <2>2. \A p \in Tasks, k \in Types :
            /\ member[p][k] # NoMember => member'[p][k] = member[p][k]
            /\ member[p][k] = NoMember /\ member'[p][k] # NoMember => Gets(t, p, k)
      BY <2>1, FinalRows
    <2>3. ASSUME NEW p \in Tasks, NEW k \in Types, member'[p][k] # NoMember
          PROVE  \/ member'[p][k].of = p /\ k \in types[p]
                 \/ /\ source[p] # NoTask
                    /\ member'[source[p]][k] # NoMember
                    /\ member'[source[p]][k].of = member'[p][k].of
      <3>1. CASE member[p][k] # NoMember
        <4>1. source[p] # NoTask => source[p] \in Tasks
          BY DEF TypeOK
        <4> QED BY <2>2, <3>1, <4>1 DEF RowsInv
      <3>2. CASE Gets(t, p, k)
        <4>1. CASE review[p][k] # "none" /\ member'[p][k] = [of |-> p, fresh |-> "current"]
          BY <4>1 DEF TaskInv
        <4>2. CASE p = t /\ k \in types[t] /\ member'[p][k] = [of |-> t, fresh |-> "current"]
          BY <4>2
        <4>3. CASE p = t /\ source[t] # NoTask /\ member'[p][k] = member'[source[t]][k]
          BY <2>3, <4>3
        <4> QED BY <3>2, <4>1, <4>2, <4>3 DEF Gets
      <3> QED BY <2>2, <2>3, <3>1, <3>2
    <2> QED BY <2>1, <2>3 DEF RowsInv
  <1>3. ASSUME NEW ks \in SUBSET Types, KnowledgeUpdate(ks)
        PROVE  RowsInv'
    <2>1. \A p \in Tasks, k \in Types :
            /\ (member'[p][k] = NoMember) = (member[p][k] = NoMember)
            /\ member'[p][k].of = member[p][k].of
      BY <1>3, UpdatedRows
    <2>2. UNCHANGED <<source, types>> /\ \A p \in Tasks : source[p] # NoTask => source[p] \in Tasks
      BY <1>3 DEF KnowledgeUpdate, derivation, TypeOK
    <2> QED BY <2>1, <2>2 DEF RowsInv
  <1>4. CASE \/ \E t \in Tasks : Retry(t) \/ Complete(t) \/ Fail(t) \/ Dismiss(t)
             \/ UNCHANGED vars
    BY <1>4 DEF Retry, Complete, Fail, Dismiss, vars, derivation, RowsInv
  <1> QED BY <1>1, <1>2, <1>3, <1>4, Steps

LEMMA OwnStep ==
  ASSUME TypeOK, OrderInv, TaskInv, OneCurrentPackage, OwnRows, [Next]_vars
  PROVE  OwnRows'
  <1>1. ASSUME NEW t \in Tasks, CreatesTask(t)
        PROVE  OwnRows'
    <2>1. PICK e \in {"initial", "refresh", "feedback"}, s \in Tasks \cup {NoTask},
               ks \in (SUBSET Types) \ {{}} : Creates(t, e, s, ks)
      BY <1>1 DEF CreatesTask
    <2>2. /\ status[t] = "absent"
          /\ types' = [types EXCEPT ![t] = ks]
          /\ UNCHANGED <<member, published>>
      BY <2>1 DEF Creates, Derive, Fresh, history
    <2>3. \A k \in Types : member[t][k] = NoMember
      BY <2>2 DEF OrderInv
    <2>4. \A p \in Tasks : p # t => types'[p] = types[p]
      BY <2>2 DEF TypeOK
    <2> QED BY <2>2, <2>3, <2>4 DEF OwnRows
  <1>2. ASSUME NEW t \in Tasks, Publish(t) \/ RefusePublication(t) \/ Withhold(t)
        PROVE  OwnRows'
    <2>1. /\ UNCHANGED types /\ Finalizes(t)
          /\ published \subseteq published'
          /\ t \in published' \/ member' = WithSource(t)
      BY <1>2, FinalSteps
         DEF derivation, history, Publish, RefusePublication, Withhold
    <2>2. ASSUME NEW p \in Tasks \ published', NEW k \in Types, member'[p][k] # NoMember
          PROVE  member'[p][k] = [of |-> p, fresh |-> "current"] /\ k \in types[p]
      <3>1. member[p][k] # NoMember => member'[p][k] = member[p][k]
        BY <2>1, FinalRows
      <3>2. CASE member[p][k] # NoMember
        BY <2>1, <3>1, <3>2 DEF OwnRows
      <3>3. CASE member[p][k] = NoMember
        <4>1. p # t
          BY <2>1, <2>2, <3>3, FinalRows
        <4>2. Gets(t, p, k)
          BY <2>1, <2>2, <3>3, FinalRows
        <4> QED BY <4>1, <4>2 DEF Gets, TaskInv
      <3> QED BY <3>2, <3>3
    <2> QED BY <2>1, <2>2 DEF OwnRows
  <1>3. ASSUME NEW ks \in SUBSET Types, KnowledgeUpdate(ks)
        PROVE  OwnRows'
    <2>1. \A p \in Tasks \ published, k \in Types : member'[p][k] = member[p][k]
      BY <1>3, UpdatedRows DEF OneCurrentPackage
    <2> QED BY <1>3, <2>1 DEF KnowledgeUpdate, OwnRows, derivation, history
  <1>4. CASE \/ \E t \in Tasks : Retry(t) \/ Complete(t) \/ Fail(t) \/ Dismiss(t)
             \/ UNCHANGED vars
    BY <1>4 DEF Retry, Complete, Fail, Dismiss, vars, derivation, history, OwnRows
  <1> QED BY <1>1, <1>2, <1>3, <1>4, Steps

LEMMA CurrentStep ==
  ASSUME TypeOK, OrderInv, TaskInv, OneCurrentPackage, DisplacedInv, [Next]_vars
  PROVE  DisplacedInv' /\ OneCurrentPackage'
  <1>1. ASSUME NEW t \in Tasks, Publish(t)
        PROVE  DisplacedInv' /\ OneCurrentPackage'
    BY <1>1 DEF Publish, Displaced, DisplacedInv, OneCurrentPackage
  <1>2. CASE UNCHANGED <<current, published, displaced>>
    BY <1>2 DEF DisplacedInv, OneCurrentPackage
  <1>3. ASSUME NEW t \in Tasks, CreatesTask(t)
        PROVE  UNCHANGED <<current, published, displaced>>
    BY <1>3 DEF CreatesTask, Creates, Derive, history
  <1>4. ASSUME NEW t \in Tasks, \/ Retry(t) \/ RefusePublication(t) \/ Withhold(t)
                                \/ Complete(t) \/ Fail(t) \/ Dismiss(t)
        PROVE  UNCHANGED <<current, published, displaced>>
    BY <1>4 DEF Retry, RefusePublication, Withhold, Complete, Fail, Dismiss, history
  <1>5. ASSUME \/ \E ks \in SUBSET Types : KnowledgeUpdate(ks)
               \/ UNCHANGED vars
        PROVE  UNCHANGED <<current, published, displaced>>
    BY <1>5 DEF KnowledgeUpdate, vars, history
  <1> QED BY <1>1, <1>2, <1>3, <1>4, <1>5, Steps

\* A package of the rooted chain has rows, so that no later publication adds any.
LEMMA RootedHasRows ==
  ASSUME TypeOK, TaskInv, RootedInv, NEW p \in rooted
  PROVE  p \in Tasks /\ MemberTypes(member[p]) # {} /\ member[p] # NoMembers
  <1>1. p \in Tasks /\ types[p] # {}
    BY DEF TypeOK, TaskInv, RootedInv
  <1>2. MemberTypes(member[p]) # {}
    BY <1>1 DEF RootedInv, TypeOK
  <1> QED BY <1>1, <1>2, NoMemberFacts

LEMMA RootedStep ==
  ASSUME TypeOK, OrderInv, TaskInv, OneCurrentPackage, RowsInv, RootedInv, [Next]_vars
  PROVE  RootedInv'
  <1>0. \A p \in rooted : p \in Tasks /\ (source[p] # NoTask => source[p] \in rooted)
    BY DEF RootedInv, TypeOK
  <1>1. ASSUME NEW t \in Tasks, CreatesTask(t)
        PROVE  RootedInv'
    <2>1. PICK e \in {"initial", "refresh", "feedback"}, s \in Tasks \cup {NoTask},
               ks \in (SUBSET Types) \ {{}} : Creates(t, e, s, ks)
      BY <1>1 DEF CreatesTask
    <2>2. /\ status[t] = "absent"
          /\ source' = [source EXCEPT ![t] = s]
          /\ types' = [types EXCEPT ![t] = ks]
          /\ UNCHANGED <<member, published, rooted>>
      BY <2>1 DEF Creates, Derive, Fresh, history
    <2>3. t \notin published /\ t \notin rooted
      BY <2>2 DEF TaskInv, RootedInv
    <2>4. \A p \in Tasks : p # t => source'[p] = source[p] /\ types'[p] = types[p]
      BY <2>2 DEF TypeOK
    <2>5. \A p \in published : p \in Tasks
      BY DEF TypeOK
    <2> QED BY <1>0, <2>2, <2>3, <2>4, <2>5 DEF RootedInv
  <1>2. ASSUME NEW t \in Tasks, Publish(t) \/ RefusePublication(t) \/ Withhold(t)
        PROVE  RootedInv'
    <2>1. /\ UNCHANGED <<source, types>> /\ Finalizes(t)
          /\ published \subseteq published'
      BY <1>2, FinalSteps
         DEF derivation, history, Publish, RefusePublication, Withhold
    <2>2. ASSUME NEW p \in rooted
          PROVE  /\ \A k \in MemberTypes(member[p]) : member'[p][k] = member[p][k]
                 /\ MemberTypes(member'[p]) = MemberTypes(member[p])
      <3>1. p \in Tasks /\ member[p] # NoMembers
        BY RootedHasRows
      <3>2. \A k \in Types :
              /\ member[p][k] # NoMember => member'[p][k] = member[p][k]
              /\ member[p][k] = NoMember /\ member'[p][k] # NoMember => Gets(t, p, k)
        BY <2>1, <3>1, FinalRows
      <3>3. ASSUME NEW k \in Types, member[p][k] = NoMember, member'[p][k] # NoMember
            PROVE  FALSE
        <4>1. /\ p = t
              /\ \/ k \in types[t]
                 \/ source[t] # NoTask /\ member'[source[t]][k] # NoMember
          BY <3>1, <3>2, <3>3 DEF Gets
        <4>2. k \notin types[t] /\ (source[t] # NoTask => member[source[t]][k] = NoMember)
          BY <3>3, <4>1 DEF RootedInv, MemberTypes
        <4>3. source[t] # NoTask => /\ source[t] \in Tasks
                                    /\ source[t] # t
                                    /\ member[source[t]] # NoMembers
          <5>1. SUFFICES ASSUME source[t] # NoTask
                         PROVE  source[t] \in Tasks /\ source[t] # t /\ member[source[t]] # NoMembers
            OBVIOUS
          <5>2. p \in rooted /\ (source[p] # NoTask => source[p] \in rooted)
            BY <1>0 DEF RootedInv
          <5>3. source[t] \in rooted
            BY <4>1, <5>1, <5>2
          <5>4. source[t] \in Tasks /\ member[source[t]] # NoMembers
            BY <5>3, RootedHasRows
          <5>5. t \in Tasks /\ source[t] < t
            BY <3>1, <4>1, <5>1 DEF OrderInv
          <5> QED BY <5>4, <5>5, TasksAssumption
        <4>4. source[t] # NoTask => ~Gets(t, source[t], k)
          BY <4>3 DEF Gets
        <4> QED BY <2>1, <4>1, <4>2, <4>3, <4>4, FinalRows
      <3> QED BY <3>2, <3>3 DEF MemberTypes
    <2>3. CASE rooted' = rooted
      BY <1>0, <2>1, <2>2, <2>3 DEF RootedInv
    <2>4. CASE rooted' # rooted
      <3>1. /\ rooted' = rooted \cup {t}
            /\ published' = published \cup {t}
            /\ source[t] = NoTask \/ source[t] \in rooted
            /\ member' = [WithSource(t) EXCEPT ![t] = Added(member[t], Composed(t))]
        BY <1>2, <2>4 DEF Publish, RefusePublication, Withhold, history
      <3>2. t \notin rooted
        BY <2>4, <3>1
      <3> DEFINE inherited == IF source[t] = NoTask THEN {} ELSE MemberTypes(member[source[t]])
      <3>3. MemberTypes(member[t]) \subseteq types[t] \cup inherited
        BY DEF RowsInv, MemberTypes
      <3>4. /\ source[t] # NoTask => /\ SourceMembers(t) = member[source[t]]
                                     /\ MemberTypes(member'[source[t]]) = inherited
            /\ MemberTypes(SourceMembers(t)) = inherited
        <4>1. CASE source[t] = NoTask
          BY <4>1, SourceRows, NoMemberFacts
        <4>2. CASE source[t] \in rooted /\ source[t] # NoTask
          BY <2>2, <4>2, SourceRows, EnsuredRows, RootedHasRows
        <4> QED BY <3>1, <4>1, <4>2
      <3>5. MemberTypes(Composed(t)) = types[t] \cup inherited
        <4>1. \A k \in Types : k \in types[t] => Composed(t)[k] # NoMember
          <5>1. [of |-> t, fresh |-> "current"] \in Member
            BY DEF Member
          <5> QED BY <5>1, ComposedRows, NoMemberFacts
        <4>2. \A k \in Types : k \notin types[t] => Composed(t)[k] = SourceMembers(t)[k]
          BY ComposedRows
        <4>3. types[t] \subseteq Types
          BY DEF TypeOK
        <4> QED BY <3>4, <4>1, <4>2, <4>3 DEF MemberTypes
      <3>6. MemberTypes(member'[t]) = types[t] \cup inherited
        <4>1. member[t] \in Rows /\ Composed(t) \in Rows
          BY ComposedRows DEF TypeOK, Rows
        <4>2. member'[t] = Added(member[t], Composed(t))
          BY <3>1, WithSourceRows
        <4> QED BY <3>3, <3>5, <4>1, <4>2, AddedRows
      <3>7. \A k \in MemberTypes(member'[t]) :
              member'[t][k].of \in published' /\ k \in types[member'[t][k].of]
        <4>1. TypeOK'
          BY <1>2, TypeStep DEF Next
        <4>2. RowsInv'
          BY <1>2, RowsStep DEF Next
        <4>3. SUFFICES ASSUME NEW k \in Types, member'[t][k] # NoMember
                       PROVE  member'[t][k].of \in published' /\ k \in types[member'[t][k].of]
          BY DEF MemberTypes
        <4>4. CASE member'[t][k].of = t /\ k \in types[t]
          BY <3>1, <4>4
        <4>5. CASE /\ source[t] # NoTask
                   /\ member'[source[t]][k] # NoMember
                   /\ member'[source[t]][k].of = member'[t][k].of
          <5>1. source[t] \in rooted /\ k \in inherited
            BY <3>1, <3>4, <4>5 DEF MemberTypes
          <5>2. member'[source[t]][k] = member[source[t]][k]
            BY <2>2, <4>5, <5>1
          <5> QED BY <2>1, <4>5, <5>1, <5>2 DEF RootedInv
        <4> QED BY <2>1, <4>2, <4>3, <4>4, <4>5 DEF RowsInv
      <3>8. \A p \in rooted : source[p] # NoTask =>
              MemberTypes(member'[source[p]]) = MemberTypes(member[source[p]])
        BY <1>0, <2>2
      <3> QED BY <1>0, <2>1, <2>2, <3>1, <3>4, <3>6, <3>7, <3>8 DEF RootedInv
    <2> QED BY <2>3, <2>4
  <1>3. ASSUME NEW ks \in SUBSET Types, KnowledgeUpdate(ks)
        PROVE  RootedInv'
    <2>1. \A p \in Tasks : /\ MemberTypes(member'[p]) = MemberTypes(member[p])
                           /\ \A k \in Types : member'[p][k].of = member[p][k].of
      BY <1>3, UpdatedRows
    <2>2. UNCHANGED <<source, types, published, rooted>>
      BY <1>3 DEF KnowledgeUpdate, derivation, history
    <2> QED BY <1>0, <2>1, <2>2 DEF RootedInv, MemberTypes
  <1>4. CASE \/ \E t \in Tasks : Retry(t) \/ Complete(t) \/ Fail(t) \/ Dismiss(t)
             \/ UNCHANGED vars
    BY <1>4 DEF Retry, Complete, Fail, Dismiss, vars, derivation, history, RootedInv
  <1> QED BY <1>1, <1>2, <1>3, <1>4, Steps

LEMMA ImpactStep ==
  ASSUME TypeOK, OrderInv, TaskInv, OneCurrentPackage, RefreshHasWorker, WorkerInv,
         [Next]_vars
  PROVE  RefreshHasWorker' /\ WorkerInv'
  <1>0. \A p \in Tasks : impact[p].status = "refreshing" =>
          /\ impact[p].by \in Tasks
          /\ event[impact[p].by] = "refresh"
          /\ source[impact[p].by] = p
          /\ status[impact[p].by] = "active"
          /\ impact[p].by \notin published
    BY DEF TypeOK, Impact, RefreshHasWorker, WorkerInv
  <1>1. ASSUME NEW t \in Tasks, CreatesTask(t)
        PROVE  RefreshHasWorker' /\ WorkerInv'
    <2>1. PICK e \in {"initial", "refresh", "feedback"}, s \in Tasks \cup {NoTask},
               ks \in (SUBSET Types) \ {{}} : Creates(t, e, s, ks)
      BY <1>1 DEF CreatesTask
    <2>2. /\ status[t] = "absent"
          /\ status' = [status EXCEPT ![t] = "active"]
          /\ event' = [event EXCEPT ![t] = e]
          /\ source' = [source EXCEPT ![t] = s]
          /\ UNCHANGED published
      BY <2>1 DEF Creates, Derive, Fresh, history
    <2>3. /\ \A u \in Tasks : u # t => /\ status'[u] = status[u]
                                       /\ event'[u] = event[u]
                                       /\ source'[u] = source[u]
          /\ status'[t] = "active" /\ event'[t] = e /\ source'[t] = s
      BY <2>2 DEF TypeOK
    <2>4. t \notin published
      BY <2>2 DEF TaskInv
    <2>5. ASSUME NEW p \in Tasks, impact'[p].status = "refreshing"
          PROVE  \/ impact[p].status = "refreshing" /\ impact'[p].by = impact[p].by
                 \/ p = s /\ e = "refresh" /\ impact'[p].by = t
      <3>1. impact[p] \in Impact
        BY DEF TypeOK
      <3>2. CASE UNCHANGED impact
        BY <2>5, <3>2
      <3>3. CASE /\ e = "refresh" /\ s \in Tasks
                 /\ impact' = [impact EXCEPT ![s].status = "refreshing", ![s].by = t]
        <4>1. p # s => impact'[p] = impact[p]
          BY <3>3 DEF TypeOK
        <4>2. p = s => impact'[p].by = t
          BY <3>1, <3>3 DEF TypeOK, Impact
        <4> QED BY <2>5, <3>3, <4>1, <4>2
      <3> QED BY <2>1, <3>2, <3>3 DEF Creates
    <2>6. \A p \in Tasks : impact'[p].status = "refreshing" =>
            /\ impact'[p].by \in Tasks
            /\ event'[impact'[p].by] = "refresh"
            /\ source'[impact'[p].by] = p
            /\ status'[impact'[p].by] = "active"
            /\ impact'[p].by \notin published
      BY <1>0, <2>2, <2>3, <2>4, <2>5
    <2> QED BY <2>2, <2>6, NoTaskAssumption DEF RefreshHasWorker, WorkerInv
  <1>2. ASSUME NEW t \in Tasks, Retry(t)
        PROVE  RefreshHasWorker' /\ WorkerInv'
    <2>1. \A u \in Tasks : status[u] = "active" => status'[u] = "active"
      BY <1>2 DEF Retry, TypeOK
    <2>2. UNCHANGED <<event, source, impact, published>>
      BY <1>2 DEF Retry, derivation, history
    <2> QED BY <1>0, <2>1, <2>2, NoTaskAssumption DEF RefreshHasWorker, WorkerInv
  <1>3. ASSUME NEW t \in Tasks, Publish(t)
        PROVE  RefreshHasWorker' /\ WorkerInv'
    <2>1. UNCHANGED <<status, event, source>> /\ published' = published \cup {t}
      BY <1>3 DEF Publish, derivation
    <2>2. ASSUME NEW p \in Tasks, impact'[p].status = "refreshing"
          PROVE  impact'[p] = impact[p] /\ p # source[t]
      <3>1. CASE source[t] # NoTask /\ impact[source[t]].status = "refreshing"
        <4>1. impact' = [impact EXCEPT ![source[t]].status = "resolved",
                                       ![source[t]].by = t]
          BY <1>3, <3>1 DEF Publish
        <4>2. source[t] \in Tasks /\ impact[source[t]] \in Impact
          BY <3>1 DEF TypeOK
        <4>3. impact'[source[t]].status = "resolved"
          BY <4>1, <4>2 DEF TypeOK, Impact
        <4> QED BY <2>2, <4>1, <4>3 DEF TypeOK
      <3>2. CASE ~(source[t] # NoTask /\ impact[source[t]].status = "refreshing")
        <4>1. UNCHANGED impact
          BY <1>3, <3>2 DEF Publish
        <4> QED BY <2>2, <3>2, <4>1, NoTaskAssumption
      <3> QED BY <3>1, <3>2
    <2> QED BY <1>0, <2>1, <2>2, NoTaskAssumption DEF RefreshHasWorker, WorkerInv
  <1>4. ASSUME NEW t \in Tasks, Complete(t)
        PROVE  RefreshHasWorker' /\ WorkerInv'
    <2>1. /\ status' = [status EXCEPT ![t] = "completed"]
          /\ UNCHANGED <<event, source, impact, published>>
          /\ t \in published \/ event[t] = "feedback"
      BY <1>4 DEF Complete, derivation, history
    <2>2. \A p \in Tasks : impact[p].status = "refreshing" => impact[p].by # t
      BY <1>0, <2>1
    <2> QED BY <1>0, <2>1, <2>2, NoTaskAssumption DEF RefreshHasWorker, WorkerInv, TypeOK
  <1>5. ASSUME NEW t \in Tasks, Fail(t)
        PROVE  RefreshHasWorker' /\ WorkerInv'
    <2>1. /\ status' = [status EXCEPT ![t] = "failed"]
          /\ impact' = Restored(t)
          /\ UNCHANGED <<event, source, published>>
      BY <1>5 DEF Fail, derivation, history
    <2>2. ASSUME NEW p \in Tasks, impact'[p].status = "refreshing"
          PROVE  impact'[p] = impact[p] /\ impact[p].by # t
      <3>1. CASE /\ event[t] = "refresh"
                 /\ impact[source[t]].status = "refreshing"
                 /\ impact[source[t]].by = t
        <4>1. impact' = [impact EXCEPT ![source[t]].status = "pending",
                                       ![source[t]].by = NoTask]
          BY <2>1, <3>1 DEF Restored
        <4>2. source[t] \in Tasks
          BY <3>1 DEF TypeOK, TaskInv
        <4>3. impact[source[t]] \in Impact
          BY <4>2 DEF TypeOK
        <4>4. impact'[source[t]].status = "pending"
          BY <4>1, <4>2, <4>3 DEF TypeOK, Impact
        <4>5. p # source[t] /\ impact'[p] = impact[p]
          BY <2>2, <4>1, <4>4 DEF TypeOK
        <4> QED BY <1>0, <2>2, <4>5
      <3>2. CASE ~(/\ event[t] = "refresh"
                   /\ impact[source[t]].status = "refreshing"
                   /\ impact[source[t]].by = t)
        <4>1. impact' = impact
          BY <2>1, <3>2 DEF Restored
        <4> QED BY <1>0, <2>2, <3>2, <4>1
      <3> QED BY <3>1, <3>2
    <2> QED BY <1>0, <2>1, <2>2, NoTaskAssumption DEF RefreshHasWorker, WorkerInv, TypeOK
  <1>6. ASSUME NEW t \in Tasks, RefusePublication(t) \/ Withhold(t)
        PROVE  RefreshHasWorker' /\ WorkerInv'
    BY <1>0, <1>6, NoTaskAssumption
       DEF RefusePublication, Withhold, derivation, history, RefreshHasWorker, WorkerInv
  <1>7. ASSUME NEW t \in Tasks, Dismiss(t)
        PROVE  RefreshHasWorker' /\ WorkerInv'
    <2>1. UNCHANGED <<status, event, source, published>>
      BY <1>7 DEF Dismiss, derivation, history
    <2>2. impact[t] \in Impact
      BY DEF TypeOK
    <2>3. \A p \in Tasks : impact'[p].status = "refreshing" => impact'[p] = impact[p]
      BY <1>7, <2>2 DEF Dismiss, TypeOK, Impact
    <2> QED BY <1>0, <2>1, <2>3, NoTaskAssumption DEF RefreshHasWorker, WorkerInv
  <1>8. ASSUME NEW ks \in SUBSET Types, KnowledgeUpdate(ks)
        PROVE  RefreshHasWorker' /\ WorkerInv'
    <2>1. UNCHANGED <<status, event, source, published>>
      BY <1>8 DEF KnowledgeUpdate, derivation, history
    <2>2. ASSUME NEW i \in Impact, NEW hit \in SUBSET Types
          PROVE  Recorded(i, hit).status = "pending"
      BY DEF Recorded, Impact
    <2>3. \A p \in Tasks : impact'[p].status = "refreshing" => impact'[p] = impact[p]
      <3>1. \A p \in Tasks : impact[p] \in Impact /\ Hit(p, ks) \in SUBSET Types
        BY DEF TypeOK, Hit
      <3> QED BY <1>8, <2>2, <3>1 DEF KnowledgeUpdate
    <2> QED BY <1>0, <2>1, <2>3, NoTaskAssumption DEF RefreshHasWorker, WorkerInv
  <1>9. CASE UNCHANGED vars
    BY <1>9 DEF vars, derivation, history, RefreshHasWorker, WorkerInv
  <1> QED BY <1>1, <1>2, <1>3, <1>4, <1>5, <1>6, <1>7, <1>8, <1>9, Steps

LEMMA OfferedStep ==
  ASSUME IInv, [Next]_vars
  PROVE  ChangesOffered'
  <1> DEFINE Marked(p, k) == member[p][k].of = p /\ member[p][k].fresh = "changed"
             OnOffer(p, k) == /\ k \in impact[p].affected
                              /\ impact[p].status \in {"pending", "refreshing", "dismissed"}
  <1> USE DEF IInv
  <1>0. \A p \in Tasks : impact[p] \in Impact
    BY DEF TypeOK
  \* A step that marks no row and withdraws no impact offers what was offered.
  <1>1. ASSUME \A p \in current' \ displaced' : p \in current \ displaced,
               \A p \in current \ displaced, k \in Types : Marked(p, k)' => Marked(p, k),
               \A p \in current \ displaced, k \in Types : OnOffer(p, k) => OnOffer(p, k)'
        PROVE  ChangesOffered'
    BY <1>1 DEF ChangesOffered
  <1>2. ASSUME NEW t \in Tasks, CreatesTask(t)
        PROVE  ChangesOffered'
    <2>1. PICK e \in {"initial", "refresh", "feedback"}, s \in Tasks \cup {NoTask},
               ks \in (SUBSET Types) \ {{}} : Creates(t, e, s, ks)
      BY <1>2 DEF CreatesTask
    <2>2. UNCHANGED <<member, current, displaced>>
      BY <2>1 DEF Creates, Derive, history
    <2>3. \A p \in Tasks, k \in Types : OnOffer(p, k) => OnOffer(p, k)'
      <3>1. CASE UNCHANGED impact
        BY <3>1
      <3>2. CASE s \in Tasks /\ impact' = [impact EXCEPT ![s].status = "refreshing",
                                                         ![s].by = t]
        <4>1. impact'[s].affected = impact[s].affected /\ impact'[s].status = "refreshing"
          BY <1>0, <3>2 DEF TypeOK, Impact
        <4>2. \A p \in Tasks : p # s => impact'[p] = impact[p]
          BY <3>2 DEF TypeOK
        <4> QED BY <4>1, <4>2
      <3> QED BY <2>1, <3>1, <3>2 DEF Creates
    <2> QED BY <1>1, <2>2, <2>3 DEF TypeOK
  <1>3. ASSUME NEW t \in Tasks, Retry(t) \/ Complete(t)
        PROVE  ChangesOffered'
    BY <1>3 DEF Retry, Complete, history, ChangesOffered
  <1>4. ASSUME NEW t \in Tasks, Publish(t)
        PROVE  ChangesOffered'
    <2>1. SUFFICES ASSUME NEW k \in Types, t \notin displaced', Marked(t, k)'
                   PROVE  OnOffer(t, k)'
      BY <1>4 DEF Publish, Displaced, ChangesOffered
    <2>2. t # source[t]
      BY TasksAssumption, NoTaskAssumption DEF OrderInv
    <2>3. UNCHANGED <<source, types>> /\ Finalizes(t)
      BY <1>4, FinalSteps DEF derivation
    <2>4. impact'[t] = impact[t]
      BY <1>4, <2>2 DEF Publish, TypeOK
    <2>5. CASE member[t][k] # NoMember
      <3>1. member'[t][k] = member[t][k]
        BY <2>3, <2>5, FinalRows
      <3>2. t \in published
        <4>1. [of |-> t, fresh |-> "current"].fresh = "current"
          OBVIOUS
        <4> QED BY <2>1, <2>5, <3>1, <4>1 DEF OwnRows
      <3>3. t \in current \ displaced
        BY <1>4, <2>1, <3>2 DEF DisplacedInv, Publish
      <3> QED BY <2>1, <2>4, <3>1, <3>3 DEF ChangesOffered
    <2>6. CASE member[t][k] = NoMember
      <3>1. member'[t][k] # NoMember
        BY <2>1, NoTaskAssumption DEF NoMember
      <3>2. Gets(t, t, k)
        BY <2>3, <2>6, <3>1, FinalRows
      <3>3. source[t] # NoTask /\ member'[t][k] = member'[source[t]][k]
        BY <2>1, <2>2, <3>2 DEF Gets
      <3>4. OrderInv' /\ source[t] < t /\ source[t] \in Tasks
        BY <1>4, <3>3, OrderStep DEF Next, OrderInv, TypeOK
      <3>5. t <= source[t]
        BY <2>1, <3>1, <3>3, <3>4 DEF OrderInv
      <3>6. source[t] \in Nat /\ t \in Nat
        BY <3>4, TasksAssumption
      <3> QED BY <3>4, <3>5, <3>6
    <2> QED BY <2>5, <2>6
  <1>5. ASSUME NEW t \in Tasks, RefusePublication(t) \/ Withhold(t)
        PROVE  ChangesOffered'
    <2>1. /\ UNCHANGED <<current, impact, displaced>>
          /\ member' = WithSource(t)
          /\ Finalizes(t)
      BY <1>5, FinalSteps DEF RefusePublication, Withhold, history
    <2>2. ASSUME NEW p \in Tasks, NEW k \in Types, Marked(p, k)'
          PROVE  Marked(p, k)
      <3>1. CASE member[p][k] # NoMember
        BY <2>1, <2>2, <3>1, FinalRows
      <3>2. CASE member[p][k] = NoMember
        <4>1. member'[p][k] # NoMember
          BY <2>2 DEF NoMember
        <4>2. Gets(t, p, k) /\ p # t
          BY <2>1, <3>2, <4>1, FinalRows
        <4>3. member'[p][k] = [of |-> p, fresh |-> "current"]
          BY <4>2 DEF Gets
        <4> QED BY <2>2, <4>3
      <3> QED BY <3>1, <3>2
    <2> QED BY <1>1, <2>1, <2>2 DEF TypeOK
  <1>6. ASSUME NEW t \in Tasks, Fail(t)
        PROVE  ChangesOffered'
    <2>1. UNCHANGED <<member, current, displaced>> /\ impact' = Restored(t)
      BY <1>6 DEF Fail, history
    <2>2. \A p \in Tasks, k \in Types : OnOffer(p, k) => OnOffer(p, k)'
      <3>1. CASE event[t] = "refresh"
        <4>1. source[t] \in Tasks
          BY <3>1 DEF TypeOK, TaskInv
        <4>2. \/ impact' = impact
              \/ impact' = [impact EXCEPT ![source[t]].status = "pending",
                                          ![source[t]].by = NoTask]
          BY <2>1 DEF Restored
        <4>3. CASE impact' = impact
          BY <4>3
        <4>4. CASE impact' = [impact EXCEPT ![source[t]].status = "pending",
                                            ![source[t]].by = NoTask]
          <5>1. /\ impact'[source[t]].affected = impact[source[t]].affected
                /\ impact'[source[t]].status = "pending"
            BY <1>0, <4>1, <4>4 DEF TypeOK, Impact
          <5>2. \A p \in Tasks : p # source[t] => impact'[p] = impact[p]
            BY <4>4 DEF TypeOK
          <5> QED BY <5>1, <5>2
        <4> QED BY <4>2, <4>3, <4>4
      <3>2. CASE event[t] # "refresh"
        BY <2>1, <3>2 DEF Restored
      <3> QED BY <3>1, <3>2
    <2> QED BY <1>1, <2>1, <2>2 DEF TypeOK
  <1>7. ASSUME NEW t \in Tasks, Dismiss(t)
        PROVE  ChangesOffered'
    <2>1. UNCHANGED <<member, current, displaced>>
      BY <1>7 DEF Dismiss, history
    <2>2. \A p \in Tasks, k \in Types : OnOffer(p, k) => OnOffer(p, k)'
      BY <1>0, <1>7 DEF Dismiss, TypeOK, Impact
    <2> QED BY <1>1, <2>1, <2>2 DEF TypeOK
  <1>8. ASSUME NEW ks \in SUBSET Types, KnowledgeUpdate(ks)
        PROVE  ChangesOffered'
    <2>1. UNCHANGED <<current, displaced>>
      BY <1>8 DEF KnowledgeUpdate, history
    <2>2. ASSUME NEW p \in current \ displaced, NEW k \in Types, Marked(p, k)'
          PROVE  OnOffer(p, k)'
      <3>1. p \in Tasks /\ Hit(p, ks) \in SUBSET Types
        BY DEF TypeOK, Hit
      <3>2. impact'[p] = IF Hit(p, ks) # {} THEN Recorded(impact[p], Hit(p, ks)) ELSE impact[p]
        BY <1>8, <3>1 DEF KnowledgeUpdate
      <3>3. CASE k \in Hit(p, ks)
        <4>1. impact'[p] = Recorded(impact[p], Hit(p, ks))
          BY <3>2, <3>3
        <4> QED BY <1>0, <3>1, <3>3, <4>1 DEF Recorded, Impact
      <3>4. CASE k \notin Hit(p, ks)
        <4>1. Marked(p, k)
          BY <1>8, <2>2, <3>1, <3>4, UpdatedRows
        <4>2. OnOffer(p, k)
          BY <4>1 DEF ChangesOffered
        <4>3. CASE Hit(p, ks) = {}
          BY <3>2, <4>2, <4>3
        <4>4. CASE Hit(p, ks) # {}
          <5>1. impact'[p] = Recorded(impact[p], Hit(p, ks))
            BY <3>2, <4>4
          <5> QED BY <1>0, <3>1, <4>2, <5>1 DEF Recorded, Impact
        <4> QED BY <4>3, <4>4
      <3> QED BY <3>3, <3>4
    <2> QED BY <2>1, <2>2 DEF ChangesOffered
  <1>9. CASE UNCHANGED vars
    BY <1>9 DEF vars, history, ChangesOffered
  <1> QED BY <1>2, <1>3, <1>4, <1>5, <1>6, <1>7, <1>8, <1>9, Steps

-----------------------------------------------------------------------------
(* The theorems.                                                           *)

LEMMA InitInv == Init => IInv
  <1> SUFFICES ASSUME Init
               PROVE  IInv
    OBVIOUS
  <1>1. NoMembers \in Rows /\ NoImpact \in Impact /\ \A k \in Types : NoMembers[k] = NoMember
    BY NoMemberFacts DEF NoImpact, Impact, NoMembers
  <1>2. TypeOK
    BY <1>1, BoundsAssumption DEF Init, TypeOK, Rows
  <1>3. OrderInv /\ TaskInv /\ RowsInv /\ OwnRows /\ RootedInv /\ DisplacedInv
    BY <1>1 DEF Init, OrderInv, TaskInv, RowsInv, OwnRows, RootedInv, DisplacedInv
  <1>4. OneCurrentPackage /\ WorkerInv /\ RefreshHasWorker /\ ChangesOffered
    BY DEF Init, NoImpact, OneCurrentPackage, WorkerInv, RefreshHasWorker, ChangesOffered
  <1> QED BY <1>2, <1>3, <1>4 DEF IInv

\* Every step of every number of tasks keeps all parts together: none is inductive
\* by itself.
THEOREM Invariance == Spec => []IInv
  <1>1. IInv /\ [Next]_vars => IInv'
    <2> SUFFICES ASSUME IInv, [Next]_vars
                 PROVE  IInv'
      OBVIOUS
    <2>1. TypeOK' /\ OrderInv' /\ TaskInv'
      BY TypeStep, OrderStep, TaskStep DEF IInv
    <2>2. RowsInv' /\ OwnRows' /\ RootedInv'
      BY RowsStep, OwnStep, RootedStep DEF IInv
    <2>3. DisplacedInv' /\ OneCurrentPackage'
      BY CurrentStep DEF IInv
    <2>4. WorkerInv' /\ RefreshHasWorker' /\ ChangesOffered'
      BY ImpactStep, OfferedStep DEF IInv
    <2> QED BY <2>1, <2>2, <2>3, <2>4 DEF IInv
  <1> QED BY <1>1, InitInv, PTL DEF Spec

\* The tables keep their types: a row names a task of the learner, an impact the
\* task that works on it.
THEOREM TypeCorrectness == Spec => []TypeOK
  <1>1. IInv => TypeOK
    BY DEF IInv
  <1> QED BY <1>1, Invariance, PTL

\* One current package for any number of interleaved, failed and retried tasks.
THEOREM CurrentPackage == Spec => []OneCurrentPackage
  <1>1. IInv => OneCurrentPackage
    BY DEF IInv
  <1> QED BY <1>1, Invariance, PTL

\* Along a chain of publications of any length no type is lost and no resource that
\* did not pass is shown.
THEOREM PackagesStayWhole == Spec => []WholePackages
  <1>1. IInv => WholePackages
    <2> SUFFICES ASSUME IInv, NEW p \in rooted
                 PROVE  /\ \A k \in MemberTypes(member[p]) : review[member[p][k].of][k] = "passed"
                        /\ source[p] # NoTask =>
                             MemberTypes(member[p]) = MemberTypes(member[source[p]]) \cup types[p]
      BY DEF WholePackages
    <2>1. /\ \A k \in MemberTypes(member[p]) :
               member[p][k].of \in published /\ k \in types[member[p][k].of]
          /\ source[p] # NoTask =>
               MemberTypes(member[p]) = MemberTypes(member[source[p]]) \cup types[p]
      BY DEF IInv, RootedInv
    <2>2. \A t \in published : t \in Tasks /\ \A k \in types[t] : review[t][k] = "passed"
      BY DEF IInv, TypeOK, TaskInv
    <2> QED BY <2>1, <2>2
  <1> QED BY <1>1, Invariance, PTL

\* A package that waits for a refresh has an active task that refreshes it.
THEOREM RefreshIsWorkedOn == Spec => []RefreshHasWorker
  <1>1. IInv => RefreshHasWorker
    BY DEF IInv
  <1> QED BY <1>1, Invariance, PTL

\* No change to the current package is forgotten, whatever ran when it came.
THEOREM ChangesStayOffered == Spec => []ChangesOffered
  <1>1. IInv => ChangesOffered
    BY DEF IInv
  <1> QED BY <1>1, Invariance, PTL

-----------------------------------------------------------------------------
(* Induction and folds                                                     *)

LEMMA LeastNumber ==
  ASSUME NEW T \in SUBSET Nat, T # {}
  PROVE  \E x \in T : \A y \in T : x <= y
  <1> DEFINE R == {ss \in Nat \X Nat : ss[1] < ss[2]}
  <1>1. IsWellFoundedOn(R, Nat)
    BY ONLY NatLessThanWellFounded, Zenon DEF OpToRel
  <1>2. \A x, y \in Nat : y < x => <<y, x>> \in R
    OBVIOUS
  <1> HIDE DEF R
  <1>3. PICK x \in T : \A y \in T : ~(<<y, x>> \in R)
    BY <1>1, WFMin
  <1>4. \A y \in T : ~(y < x)
    BY <1>2, <1>3
  <1> QED BY <1>4

LEMMA SetInduction ==
  ASSUME NEW S \in SUBSET Nat, 0 \in S, \A n \in S : n + 1 \in S
  PROVE  S = Nat
  <1>1. SUFFICES ASSUME Nat \ S # {}
                 PROVE  FALSE
    OBVIOUS
  <1>2. PICK x \in Nat \ S : \A y \in Nat \ S : x <= y
    BY <1>1, LeastNumber
  <1>3. x - 1 \in S /\ x - 1 + 1 = x
    BY <1>2
  <1> QED BY <1>2, <1>3

\* What holds of a fold after each element of the list: T[i] after the first i.
LEMMA FoldedStays ==
  ASSUME NEW E, NEW step, NEW seq \in Seq(E), NEW T, NEW start, start \in T[0],
         \A i \in 1..Len(seq) : \A x \in T[i - 1] : step[x][seq[i]] \in T[i]
  PROVE  Folded(step, start, seq) \in T[Len(seq)]
  <1> DEFINE n == Len(seq)
             IsUpTo(g, m) == g = [i \in 0..m |-> IF i = 0 THEN start ELSE step[g[i - 1]][seq[i]]]
             Defined == {m \in Nat : \E g : IsUpTo(g, m)}
  <1>1. n \in Nat
    BY LenProperties
  <1>2. 0 \in Defined
    <2>1. IsUpTo([i \in 0..0 |-> start], 0)
      OBVIOUS
    <2> QED BY <2>1
  <1>3. ASSUME NEW m \in Defined
        PROVE  m + 1 \in Defined
    <2>1. PICK g : IsUpTo(g, m)
      OBVIOUS
    <2> DEFINE h == [i \in 0..(m + 1) |-> IF i = m + 1 THEN step[g[m]][seq[m + 1]] ELSE g[i]]
    <2>2. IsUpTo(h, m + 1)
      <3>1. \A i \in 0..(m + 1) : h[i] = IF i = 0 THEN start ELSE step[h[i - 1]][seq[i]]
        <4>1. TAKE i \in 0..(m + 1)
        <4>2. CASE i = m + 1
          <5>1. h[i] = step[g[m]][seq[m + 1]] /\ i # 0 /\ h[i - 1] = g[m] /\ seq[i] = seq[m + 1]
            BY <4>2
          <5> QED BY <5>1
        <4>3. CASE i # m + 1
          <5>1. i \in 0..m /\ h[i] = g[i] /\ (i # 0 => i - 1 \in 0..m /\ h[i - 1] = g[i - 1])
            BY <4>3
          <5>2. g[i] = IF i = 0 THEN start ELSE step[g[i - 1]][seq[i]]
            BY <2>1, <5>1
          <5> QED BY <5>1, <5>2
        <4> QED BY <4>2, <4>3
      <3> QED BY <3>1
    <2> HIDE DEF h
    <2>3. m + 1 \in Nat
      OBVIOUS
    <2>4. \E g1 : IsUpTo(g1, m + 1)
      <3> HIDE DEF IsUpTo
      <3> QED BY <2>2
    <2> QED BY <2>3, <2>4
  <1>4. Defined = Nat
    <2> HIDE DEF Defined
    <2> QED BY <1>2, <1>3, SetInduction DEF Defined
  <1> DEFINE upTo == CHOOSE g : g = [i \in 0..n |-> IF i = 0 THEN start ELSE step[g[i - 1]][seq[i]]]
  <1>5. IsUpTo(upTo, n)
    <2>1. \E g : IsUpTo(g, n)
      BY <1>1, <1>4
    <2> QED BY <2>1
  <1>6. Folded(step, start, seq) = upTo[n]
    BY DEF Folded
  <1>7. \A m \in 0..n : upTo[m] = IF m = 0 THEN start ELSE step[upTo[m - 1]][seq[m]]
    <2> HIDE DEF upTo
    <2> QED BY <1>1, <1>5
  <1> HIDE DEF upTo
  <1> DEFINE Kept == {m \in Nat : m <= n => upTo[m] \in T[m]}
  <1>8. 0 \in Kept
    BY <1>1, <1>7
  <1>9. ASSUME NEW m \in Kept
        PROVE  m + 1 \in Kept
    <2>1. SUFFICES ASSUME m + 1 <= n
                   PROVE  upTo[m + 1] \in T[m + 1]
      OBVIOUS
    <2>2. upTo[m] \in T[m] /\ m + 1 \in 1..n /\ m + 1 - 1 = m /\ m + 1 \in 0..n /\ m + 1 # 0
      BY <1>1, <2>1
    <2>3. upTo[m + 1] = step[upTo[m]][seq[m + 1]]
      BY <1>7, <2>2
    <2> QED BY <2>2, <2>3
  <1>10. Kept = Nat
    <2> HIDE DEF Kept
    <2> QED BY <1>8, <1>9, SetInduction DEF Kept
  <1> QED BY <1>1, <1>6, <1>10

-----------------------------------------------------------------------------
(* The best of some questions                                              *)

\* An order has a greatest element on every finite set it compares.
LEMMA Greatest ==
  ASSUME NEW Q, NEW R,
         \A x, y \in Q : x # y => <<x, y>> \in R \/ <<y, x>> \in R,
         \A x, y, z \in Q : <<x, y>> \in R /\ <<y, z>> \in R => <<x, z>> \in R,
         NEW S \in SUBSET Q, IsFiniteSet(S), S # {}
  PROVE  \E x \in S : \A y \in S \ {x} : <<x, y>> \in R
  <1> DEFINE HasTop(Z) == \E x \in Z : \A y \in Z \ {x} : <<x, y>> \in R
             Sized(n) == {Z \in SUBSET Q : IsFiniteSet(Z) /\ Cardinality(Z) = n /\ Z # {}}
             Good == {n \in Nat : \A Z \in Sized(n) : HasTop(Z)}
  <1>1. 0 \in Good
    BY FS_EmptySet
  <1>2. ASSUME NEW n \in Good
        PROVE  n + 1 \in Good
    <2>1. SUFFICES ASSUME NEW Z \in Sized(n + 1)
                   PROVE  HasTop(Z)
      OBVIOUS
    <2>2. PICK z \in Z : TRUE
      OBVIOUS
    <2> DEFINE Y == Z \ {z}
    <2>3. IsFiniteSet(Y) /\ Cardinality(Y) = n /\ Y \in SUBSET Q
      <3>1. Z \in SUBSET Q /\ IsFiniteSet(Z) /\ Cardinality(Z) = n + 1
        OBVIOUS
      <3>2. IsFiniteSet(Y) /\ Cardinality(Y) = Cardinality(Z) - 1
        BY <2>2, <3>1, FS_RemoveElement
      <3> QED BY <3>1, <3>2
    <2>4. CASE Y = {}
      BY <2>2, <2>4
    <2>5. CASE Y # {}
      <3>1. Y \in Sized(n)
        BY <2>3, <2>5
      <3>2. PICK x \in Y : \A y \in Y \ {x} : <<x, y>> \in R
        BY <3>1
      <3>3. <<x, z>> \in R \/ <<z, x>> \in R
        OBVIOUS
      <3>4. CASE <<x, z>> \in R
        BY <3>2, <3>4
      <3>5. CASE <<z, x>> \in R
        <4>1. \A y \in Z \ {z} : <<z, y>> \in R
          BY <3>2, <3>5
        <4> QED BY <4>1
      <3> QED BY <3>3, <3>4, <3>5
    <2> QED BY <2>4, <2>5
  <1>3. Good = Nat
    <2> HIDE DEF Good
    <2> QED BY <1>1, <1>2, SetInduction DEF Good
  <1>4. Cardinality(S) \in Nat /\ S \in Sized(Cardinality(S))
    BY FS_CardinalityType
  <1> QED BY <1>3, <1>4

Ranks == [1..8 -> Int]

LEMMA RanksAreOrdered ==
  ASSUME NEW a \in Ranks, NEW b \in Ranks
  PROVE  /\ a[8] # b[8] => Above(a, b) \/ Above(b, a)
         /\ \A c \in Ranks : Above(a, b) /\ Above(b, c) => Above(a, c)
  <1>0. DOMAIN a = 1..8 /\ DOMAIN b = 1..8
    BY DEF Ranks
  <1>1. ASSUME a[8] # b[8]
        PROVE  Above(a, b) \/ Above(b, a)
    <2> DEFINE D == {i \in 1..8 : a[i] # b[i]}
    <2>1. D \in SUBSET Nat /\ D # {}
      BY <1>1
    <2>2. PICK i \in D : \A j \in D : i <= j
      BY <2>1, LeastNumber
    <2>3. \A j \in 1..(i - 1) : a[j] = b[j]
      BY <2>2
    <2>4. a[i] > b[i] \/ b[i] > a[i]
      BY DEF Ranks
    <2> QED BY <1>0, <2>2, <2>3, <2>4 DEF Above
  <1>2. ASSUME NEW c \in Ranks, Above(a, b), Above(b, c)
        PROVE  Above(a, c)
    <2>1. PICK i \in 1..8 : a[i] > b[i] /\ \A j \in 1..(i - 1) : a[j] = b[j]
      BY <1>0, <1>2 DEF Above
    <2>2. PICK k \in 1..8 : b[k] > c[k] /\ \A j \in 1..(k - 1) : b[j] = c[j]
      BY <1>0, <1>2 DEF Above
    <2>3. a[i] \in Int /\ b[i] \in Int /\ c[i] \in Int /\ a[k] \in Int /\ b[k] \in Int /\ c[k] \in Int
      BY DEF Ranks
    <2>4. CASE i < k
      <3>1. a[i] > c[i] /\ \A j \in 1..(i - 1) : a[j] = c[j]
        BY <2>1, <2>2, <2>3, <2>4
      <3> QED BY <1>0, <3>1 DEF Above
    <2>5. CASE i >= k
      <3>1. a[k] > c[k] /\ \A j \in 1..(k - 1) : a[j] = c[j]
        BY <2>1, <2>2, <2>3, <2>5
      <3> QED BY <1>0, <3>1 DEF Above
    <2> QED BY <2>4, <2>5
  <1> QED BY <1>1, <1>2

IsNeed(x) == x.difficulty \in 1..5 /\ IsFiniteSet(x.targets)

LEMMA RankIs ==
  ASSUME NEW q \in Questions, NEW chosen, NEW x, IsNeed(x)
  PROVE  Rank(q, chosen, x) \in Ranks /\ Rank(q, chosen, x)[8] = q.id
  <1> DEFINE a1 == IF q.about \in x.targets THEN 30 ELSE 10
             a2 == IF q.about \in x.focus THEN 8 ELSE IF q.related \cap x.focus # {} THEN 3 ELSE 0
             a3 == 4 - Apart(q.difficulty, x.difficulty)
             a4 == IF (Scope(q) \cap x.targets) \subseteq CoveredBy(chosen) THEN 0 ELSE 1
             a5 == IF q.type \in {p.type : p \in Range(chosen)} THEN 0 ELSE 1
             a6 == LevelScore(x.profile, q.level)
             a7 == Longest - Cardinality(q.related)
             a8 == q.id
  <1>1. a1 \in Int /\ a2 \in Int /\ a4 \in Int /\ a5 \in Int
    OBVIOUS
  <1>2. a3 \in Int
    BY QuestionsAssumption DEF Apart, IsNeed
  <1>3. a6 \in Int
    BY QuestionsAssumption DEF LevelScore, Levels
  <1>4. a7 \in Int
    BY QuestionsAssumption, FS_CardinalityType DEF Longest
  <1>5. a8 \in Int
    BY QuestionsAssumption
  <1>6. Rank(q, chosen, x) = <<a1, a2, a3, a4, a5, a6, a7, a8>>
    BY DEF Rank
  <1> HIDE DEF a1, a2, a3, a4, a5, a6, a7
  <1>7. <<a1, a2, a3, a4, a5, a6, a7, a8>> \in Ranks
    BY <1>1, <1>2, <1>3, <1>4, <1>5 DEF Ranks
  <1>8. <<a1, a2, a3, a4, a5, a6, a7, a8>>[8] = a8
    OBVIOUS
  <1> QED BY <1>6, <1>7, <1>8

LEMMA BestIn ==
  ASSUME NEW pool \in SUBSET Questions, pool # {}, NEW chosen, NEW x, IsNeed(x)
  PROVE  Best(pool, chosen, x) \in pool
  <1> DEFINE rank == [q \in Questions |-> Rank(q, chosen, x)]
             R == {qp \in Questions \X Questions : Above(rank[qp[1]], rank[qp[2]])}
  <1>1. \A q \in Questions : rank[q] \in Ranks /\ rank[q][8] = q.id
    BY RankIs
  <1>2. \A q, p \in Questions : <<q, p>> \in R <=> Above(rank[q], rank[p])
    OBVIOUS
  <1>3. \A q \in Questions : rank[q] = Rank(q, chosen, x)
    OBVIOUS
  <1> HIDE DEF rank, R
  <1>4. \A q, p \in Questions : q # p => <<q, p>> \in R \/ <<p, q>> \in R
    <2>1. SUFFICES ASSUME NEW q \in Questions, NEW p \in Questions, q # p
                   PROVE  Above(rank[q], rank[p]) \/ Above(rank[p], rank[q])
      BY <1>2
    <2>2. q.id # p.id
      BY <2>1, QuestionsAssumption
    <2> QED BY <1>1, <2>2, RanksAreOrdered
  <1>5. \A q, p, r \in Questions : <<q, p>> \in R /\ <<p, r>> \in R => <<q, r>> \in R
    <2>1. SUFFICES ASSUME NEW q \in Questions, NEW p \in Questions, NEW r \in Questions,
                          Above(rank[q], rank[p]), Above(rank[p], rank[r])
                   PROVE  Above(rank[q], rank[r])
      BY <1>2
    <2> QED BY <1>1, <2>1, RanksAreOrdered
  <1>6. IsFiniteSet(pool)
    BY FS_Subset, QuestionsAssumption
  <1>7. \E q \in pool : \A p \in pool \ {q} : <<q, p>> \in R
    BY <1>4, <1>5, <1>6, Greatest
  <1>8. \E q \in pool : \A p \in pool \ {q} : Above(Rank(q, chosen, x), Rank(p, chosen, x))
    BY <1>2, <1>3, <1>7
  <1> QED BY <1>8 DEF Best

-----------------------------------------------------------------------------
(* What is selected                                                        *)

Apiece(s) == \A i, j \in 1..Len(s) : s[i] = s[j] => i = j

LEMMA RangeIs ==
  ASSUME NEW S, NEW s \in Seq(S)
  PROVE  /\ Len(s) \in Nat /\ DOMAIN s = 1..Len(s) /\ Range(s) = {s[i] : i \in 1..Len(s)}
         /\ Range(s) \subseteq S /\ s \in Seq(Range(s))
  <1>1. Len(s) \in Nat /\ DOMAIN s = 1..Len(s) /\ \A i \in 1..Len(s) : s[i] \in S
    BY LenProperties, ElementOfSeq
  <1>2. Range(s) = {s[i] : i \in 1..Len(s)}
    BY <1>1 DEF Range
  <1>3. s = [i \in 1..Len(s) |-> s[i]]
    BY LenProperties
  <1>4. s \in Seq(Range(s))
    BY <1>1, <1>2, <1>3, SeqDef
  <1> QED BY <1>1, <1>2, <1>4

\* A selection goes on until it is long enough or the pool is used up, takes no
\* question twice and keeps what was chosen before.
LEMMA ExtendedIs ==
  ASSUME NEW chosen \in Seq(Questions), Apiece(chosen), NEW pool \in SUBSET Questions,
         NEW length \in Nat, NEW x, IsNeed(x)
  PROVE  LET more == Extended(chosen, pool, length, x)
         IN /\ more \in Seq(Questions) /\ Apiece(more)
            /\ Range(chosen) \subseteq Range(more) /\ Range(more) \subseteq Range(chosen) \cup pool
            /\ Len(more) >= length \/ pool \subseteq Range(more)
  <1> DEFINE questions == Range(chosen) \cup pool
             step == [some \in Seq(questions) |-> [i \in 1..length |->
                        IF Len(some) >= length \/ pool \subseteq Range(some) THEN some
                        ELSE Append(some, Best(pool \ Range(some), some, x))]]
             counted == [i \in 1..length |-> i]
             T == [i \in 0..length |-> {s \in Seq(questions) :
                     /\ Apiece(s) /\ Range(chosen) \subseteq Range(s)
                     /\ Len(s) >= i \/ pool \subseteq Range(s)}]
  <1>1. questions \subseteq Questions
    BY RangeIs
  <1>2. counted \in Seq(1..length) /\ Len(counted) = length /\ \A i \in 1..length : counted[i] = i
    BY IsASeq, LenProperties
  <1>3. chosen \in T[0]
    <2>1. chosen \in Seq(questions) /\ Len(chosen) \in Nat
      BY RangeIs, SeqMonotonic
    <2> QED BY <2>1
  <1>4. \A i \in 1..length : \A s \in T[i - 1] : step[s][i] \in T[i]
    <2>1. SUFFICES ASSUME NEW i \in 1..length, NEW s \in T[i - 1]
                   PROVE  step[s][i] \in T[i]
      OBVIOUS
    <2>2. /\ s \in Seq(questions) /\ Apiece(s) /\ Range(chosen) \subseteq Range(s)
          /\ Len(s) >= i - 1 \/ pool \subseteq Range(s)
      BY <2>1
    <2>3. Len(s) \in Nat /\ Range(s) = {s[j] : j \in 1..Len(s)}
      BY <2>2, RangeIs
    <2>4. step[s][i] = IF Len(s) >= length \/ pool \subseteq Range(s) THEN s
                       ELSE Append(s, Best(pool \ Range(s), s, x))
      BY <2>2
    <2>5. CASE Len(s) >= length \/ pool \subseteq Range(s)
      BY <2>2, <2>3, <2>4, <2>5
    <2>6. CASE ~(Len(s) >= length \/ pool \subseteq Range(s))
      <3> DEFINE q == Best(pool \ Range(s), s, x)
                 more == Append(s, q)
      <3>1. q \in pool \ Range(s)
        BY <2>6, BestIn
      <3> HIDE DEF q
      <3>2. q \in questions
        BY <3>1
      <3>3. /\ more \in Seq(questions) /\ Len(more) = Len(s) + 1 /\ more[Len(s) + 1] = q
            /\ \A j \in 1..Len(s) : more[j] = s[j]
        BY <2>2, <2>3, <3>2, AppendProperties
      <3> HIDE DEF more
      <3>4. Range(more) = {more[j] : j \in 1..Len(more)}
        BY <3>3, RangeIs
      <3>5. Apiece(more)
        <4>1. SUFFICES ASSUME NEW j \in 1..Len(more), NEW k \in 1..Len(more), more[j] = more[k]
                       PROVE  j = k
          BY DEF Apiece
        <4>2. \A l \in 1..Len(s) : more[l] # q
          BY <2>3, <3>1, <3>3
        <4>3. CASE j \in 1..Len(s) /\ k \in 1..Len(s)
          BY <2>2, <3>3, <4>1, <4>3 DEF Apiece
        <4>4. CASE j = Len(s) + 1 \/ k = Len(s) + 1
          BY <2>3, <3>3, <4>1, <4>2, <4>4
        <4> QED BY <2>3, <3>3, <4>3, <4>4
      <3>6. Range(s) \subseteq Range(more)
        BY <2>3, <3>3, <3>4
      <3>7. step[s][i] = more
        BY <2>4, <2>6 DEF more, q
      <3>8. Len(more) >= i
        BY <2>2, <2>3, <2>6, <3>3
      <3> HIDE DEF step
      <3> QED BY <2>2, <3>3, <3>5, <3>6, <3>7, <3>8
    <2> QED BY <2>5, <2>6
  <1> HIDE DEF step, counted, T
  <1>5. \A i \in 1..Len(counted) : \A s \in T[i - 1] : step[s][counted[i]] \in T[i]
    BY <1>2, <1>4
  <1>6. Folded(step, chosen, counted) \in T[length]
    BY <1>2, <1>3, <1>5, FoldedStays
  <1>7. Extended(chosen, pool, length, x) = Folded(step, chosen, counted)
    BY DEF Extended, step, counted
  <1> DEFINE more == Extended(chosen, pool, length, x)
  <1> HIDE DEF more
  <1>8. /\ more \in Seq(questions) /\ Apiece(more) /\ Range(chosen) \subseteq Range(more)
        /\ Len(more) >= length \/ pool \subseteq Range(more)
    BY <1>6, <1>7 DEF T, more
  <1>9. more \in Seq(Questions) /\ Range(more) \subseteq questions
    BY <1>1, <1>8, RangeIs, SeqMonotonic
  <1> QED BY <1>8, <1>9 DEF more

Three(S) == \E a, b, c \in S : a # b /\ a # c /\ b # c

LEMMA ThreeApiece ==
  ASSUME NEW s \in Seq(Questions), Apiece(s)
  PROVE  /\ Len(s) >= 3 => Three(Range(s))
         /\ \A S : Three(S) /\ S \subseteq Range(s) => Len(s) >= 3
  <1>1. Len(s) \in Nat /\ Range(s) = {s[i] : i \in 1..Len(s)}
    BY RangeIs
  <1>2. ASSUME Len(s) >= 3
        PROVE  Three(Range(s))
    <2>1. 1 \in 1..Len(s) /\ 2 \in 1..Len(s) /\ 3 \in 1..Len(s)
      BY <1>1, <1>2
    <2>2. s[1] # s[2] /\ s[1] # s[3] /\ s[2] # s[3]
      BY <2>1 DEF Apiece
    <2>3. s[1] \in Range(s) /\ s[2] \in Range(s) /\ s[3] \in Range(s)
      BY <1>1, <2>1
    <2> QED BY <2>2, <2>3 DEF Three
  <1>3. ASSUME NEW S, Three(S), S \subseteq Range(s)
        PROVE  Len(s) >= 3
    <2>1. PICK a, b, c \in S : a # b /\ a # c /\ b # c
      BY <1>3 DEF Three
    <2>2. PICK i, j, k \in 1..Len(s) : a = s[i] /\ b = s[j] /\ c = s[k]
      BY <1>1, <1>3
    <2>3. i # j /\ i # k /\ j # k
      BY <2>1, <2>2
    <2> QED BY <1>1, <2>3
  <1> QED BY <1>2, <1>3

Fitting(candidates, targets) == {q \in candidates : Touches(q, targets)}

\* The length a quiz can have is a matter of the questions about the targets, not of
\* focus, difficulty or profile: three of them are found whenever there are three.
LEMMA SelectedIs ==
  ASSUME NEW candidates \in SUBSET Questions, NEW x, IsNeed(x), NEW excluded
  PROVE  LET made == Selected(candidates, x, excluded)
         IN /\ made \in Seq(Questions) /\ Apiece(made)
            /\ Range(made) \subseteq Fitting(candidates \ excluded, x.targets)
            /\ Len(made) >= Shortest <=> Three(Fitting(candidates \ excluded, x.targets))
  <1> DEFINE pool     == {q \in candidates \ excluded : Touches(q, x.targets)}
             standard == {q \in pool : Matches(q, x)}
             chosen   == Extended(<<>>, standard, Desired(x.targets), x)
             longer   == Extended(chosen, pool \ standard, Shortest, x)
             made     == Selected(candidates, x, excluded)
  <1>1. Desired(x.targets) \in Nat /\ Desired(x.targets) >= Shortest /\ Shortest = 3
    <2>1. Cardinality(x.targets) \in Nat
      BY FS_CardinalityType DEF IsNeed
    <2> QED BY <2>1 DEF Desired, Shortest, Longest
  <1>2. << >> \in Seq(Questions) /\ Apiece(<< >>) /\ Range(<< >>) = {}
    <2>1. << >> \in Seq(Questions)
      BY EmptySeq
    <2>2. Len(<< >>) = 0
      OBVIOUS
    <2>3. Range(<< >>) = {<< >>[i] : i \in 1..0}
      BY <2>1, <2>2, RangeIs
    <2> QED BY <2>1, <2>2, <2>3 DEF Apiece
  <1>3. standard \in SUBSET pool /\ pool \in SUBSET Questions /\ pool = Fitting(candidates \ excluded, x.targets)
    BY DEF Fitting
  <1>4. made = IF Len(chosen) >= Shortest THEN chosen ELSE longer
    BY DEF Selected
  <1> HIDE DEF standard, pool, made
  <1>5. standard \in SUBSET Questions /\ pool \ standard \in SUBSET Questions
    BY <1>3
  <1>6. /\ chosen \in Seq(Questions) /\ Apiece(chosen) /\ Range(chosen) \subseteq standard
        /\ Len(chosen) >= Desired(x.targets) \/ standard \subseteq Range(chosen)
    BY <1>1, <1>2, <1>5, ExtendedIs
  <1> HIDE DEF chosen
  <1>7. /\ longer \in Seq(Questions) /\ Apiece(longer) /\ Range(chosen) \subseteq Range(longer)
        /\ Range(longer) \subseteq Range(chosen) \cup (pool \ standard)
        /\ Len(longer) >= Shortest \/ pool \ standard \subseteq Range(longer)
    BY <1>1, <1>5, <1>6, ExtendedIs
  <1> HIDE DEF longer
  <1>8. made \in Seq(Questions) /\ Apiece(made) /\ Range(made) \subseteq pool
    BY <1>3, <1>4, <1>6, <1>7
  <1>9. Len(chosen) \in Nat /\ Len(longer) \in Nat
    BY <1>6, <1>7, RangeIs
  <1>10. Len(made) >= Shortest \/ pool \subseteq Range(made)
    <2>1. CASE Len(chosen) >= Shortest
      BY <1>4, <2>1
    <2>2. CASE ~(Len(chosen) >= Shortest)
      <3>1. ~(Len(chosen) >= Desired(x.targets))
        BY <1>1, <1>9, <2>2
      <3>2. standard \subseteq Range(longer)
        BY <1>6, <1>7, <3>1
      <3>3. Len(longer) >= Shortest \/ pool \subseteq Range(longer)
        BY <1>3, <1>7, <3>2
      <3> QED BY <1>4, <2>2, <3>3
    <2> QED BY <2>1, <2>2
  <1>11. Len(made) >= Shortest <=> Three(pool)
    <2>1. Len(made) >= Shortest => Three(Range(made))
      BY <1>1, <1>8, ThreeApiece
    <2>2. Three(Range(made)) => Three(pool)
      BY <1>8 DEF Three
    <2>3. Three(pool) => Len(made) >= Shortest
      BY <1>1, <1>8, <1>10, ThreeApiece
    <2> QED BY <2>1, <2>2, <2>3
  <1> QED BY <1>3, <1>8, <1>11 DEF made

LEMMA SupportedIs ==
  ASSUME NEW S, NEW s \in Seq(S), NEW chunked
  PROVE  /\ Supported(s, chunked) \in Seq(Range(s))
         /\ (\A q \in Range(s) : Scope(q) \cap chunked # {}) => Supported(s, chunked) = s
  <1> DEFINE E == Range(s)
             step == [some \in Seq(E) |-> [q \in E |->
                        IF Scope(q) \cap chunked = {} THEN some ELSE Append(some, q)]]
             Prefix(i) == {x \in Seq(E) : Len(x) = i /\ \A j \in 1..i : x[j] = s[j]}
             all == [i \in 0..Len(s) |-> Prefix(i)]
             any == [i \in 0..Len(s) |-> Seq(E)]
  <1>1. s \in Seq(E) /\ Len(s) \in Nat /\ \A i \in 1..Len(s) : s[i] \in E
    BY RangeIs
  <1>2. Supported(s, chunked) = Folded(step, << >>, s)
    BY DEF Supported
  <1>3. << >> \in Seq(E) /\ Len(<< >>) = 0
    OBVIOUS
  <1>4. \A x \in Seq(E) : \A q \in E :
          /\ step[x][q] = IF Scope(q) \cap chunked = {} THEN x ELSE Append(x, q)
          /\ step[x][q] \in Seq(E)
    BY AppendProperties
  <1> HIDE DEF E, step
  <1>5. Folded(step, << >>, s) \in Seq(E)
    <2>1. << >> \in any[0]
      BY <1>1, <1>3
    <2>2. \A i \in 1..Len(s) : \A x \in any[i - 1] : step[x][s[i]] \in any[i]
      BY <1>1, <1>4
    <2>3. any[Len(s)] = Seq(E)
      BY <1>1
    <2> HIDE DEF any
    <2>4. Folded(step, << >>, s) \in any[Len(s)]
      BY <1>1, <2>1, <2>2, FoldedStays
    <2> QED BY <2>3, <2>4
  <1>6. ASSUME \A q \in E : Scope(q) \cap chunked # {}
        PROVE  Folded(step, << >>, s) = s
    <2>1. << >> \in all[0]
      BY <1>1, <1>3
    <2>2. \A i \in 1..Len(s) : \A x \in all[i - 1] : step[x][s[i]] \in all[i]
      <3>1. SUFFICES ASSUME NEW i \in 1..Len(s), NEW x \in all[i - 1]
                     PROVE  step[x][s[i]] \in all[i]
        OBVIOUS
      <3>2. x \in Seq(E) /\ Len(x) = i - 1 /\ (\A j \in 1..(i - 1) : x[j] = s[j]) /\ s[i] \in E
        BY <1>1, <3>1
      <3>3. step[x][s[i]] = Append(x, s[i])
        BY <1>4, <1>6, <3>2
      <3> DEFINE more == Append(x, s[i])
      <3>4. /\ more \in Seq(E) /\ Len(more) = i /\ more[i] = s[i]
            /\ \A j \in 1..(i - 1) : more[j] = x[j]
        BY <3>2, AppendProperties
      <3> HIDE DEF more
      <3>5. \A j \in 1..i : more[j] = s[j]
        BY <3>2, <3>4
      <3>6. more \in all[i]
        BY <3>4, <3>5
      <3> QED BY <3>3, <3>6 DEF more
    <2>3. all[Len(s)] = Prefix(Len(s))
      BY <1>1
    <2> HIDE DEF all
    <2>4. Folded(step, << >>, s) \in all[Len(s)]
      BY <1>1, <2>1, <2>2, FoldedStays
    <2>5. \A x \in Prefix(Len(s)) : x = s
      BY <1>1, SeqEqual
    <2> QED BY <2>3, <2>4, <2>5
  <1> QED BY <1>2, <1>5, <1>6 DEF E

LEMMA NeedIs ==
  ASSUME NEW focus, need.difficulty \in 1..5
  PROVE  IsNeed(Need(focus)) /\ Need(focus).targets = Targets
  BY TargetsAssumption DEF Need, IsNeed

EligibleOf(questions) == {q \in questions : Eligible(q)}

\* What a retrieval offers is in the bank, and three questions are enough for it.
LEMMA OfferedIs ==
  ASSUME NEW questions \in SUBSET Questions, NEW x, IsNeed(x), NEW rejected
  PROVE  LET offered == Offered(questions, x, rejected)
         IN /\ offered \in Seq(Questions) /\ Range(offered) \subseteq questions
            /\ rejected = {} /\ Three(Fitting(EligibleOf(questions), x.targets)) =>
                 /\ offered # Failed
                 /\ Three(Fitting(Range(offered), x.targets))
  <1> DEFINE pool     == EligibleOf(questions)
             offered  == Offered(questions, x, rejected)
             first    == Selected(pool, x, {})
             fresh    == OrFailed(first)
             excluded == {fresh[i] : i \in rejected \cap DOMAIN fresh}
             second   == Selected(pool, x, excluded)
  <1>1. pool \in SUBSET Questions /\ pool \subseteq questions
    BY DEF EligibleOf
  <1>2. offered = IF fresh = Failed \/ rejected = {} THEN fresh ELSE OrFailed(second)
    BY DEF Offered, EligibleOf
  <1> HIDE DEF pool, offered, excluded
  <1>3. /\ first \in Seq(Questions) /\ Apiece(first) /\ Range(first) \subseteq Fitting(pool \ {}, x.targets)
        /\ Len(first) >= Shortest <=> Three(Fitting(pool \ {}, x.targets))
    BY <1>1, SelectedIs
  <1>4. second \in Seq(Questions) /\ Range(second) \subseteq Fitting(pool \ excluded, x.targets)
    BY <1>1, SelectedIs
  <1> HIDE DEF first, second
  <1>5. pool \ {} = pool
    OBVIOUS
  <1>6. Failed \in Seq(Questions) /\ Range(Failed) = {} /\ Len(Failed) = 0
    <2>1. << >> \in Seq(Questions) /\ Len(<< >>) = 0
      OBVIOUS
    <2>2. Range(<< >>) = {<< >>[i] : i \in 1..0}
      BY <2>1, RangeIs
    <2> QED BY <2>1, <2>2 DEF Failed
  <1>7. fresh \in Seq(Questions) /\ Range(fresh) \subseteq questions
    BY <1>1, <1>3, <1>6 DEF OrFailed, Fitting
  <1>8. OrFailed(second) \in Seq(Questions) /\ Range(OrFailed(second)) \subseteq questions
    BY <1>1, <1>4, <1>6 DEF OrFailed, Fitting
  <1>9. ASSUME rejected = {}, Three(Fitting(pool, x.targets))
        PROVE  offered # Failed /\ Three(Fitting(Range(offered), x.targets))
    <2>1. Len(first) >= Shortest /\ Len(first) \in Nat /\ Shortest = 3
      BY <1>3, <1>5, <1>9, RangeIs DEF Shortest
    <2>2. fresh = first /\ offered = first
      BY <1>2, <1>9, <2>1 DEF OrFailed
    <2>3. first # Failed
      BY <1>6, <2>1
    <2>4. Three(Range(first))
      BY <1>3, <2>1, ThreeApiece
    <2>5. Fitting(Range(first), x.targets) = Range(first)
      BY <1>3 DEF Fitting
    <2> QED BY <2>2, <2>3, <2>4, <2>5
  <1>10. offered \in Seq(Questions) /\ Range(offered) \subseteq questions
    BY <1>2, <1>7, <1>8
  <1> QED BY <1>9, <1>10 DEF pool, offered

-----------------------------------------------------------------------------
(* The invariant                                                           *)

QuizTypes ==
  /\ bank \in SUBSET Questions
  /\ need.difficulty \in 1..5
  /\ references \in Seq(Questions)
  /\ round \in Nat /\ edits \in Nat

\* The references are from the bank of their retrieval, and so is the quiz made
\* from them.
FromBase ==
  /\ node = "create" => references = <<>>
  /\ Range(references) \subseteq base
  /\ node = "review" => Range(quiz) \subseteq base

\* A task that was not revised yet has no quiz before it is generated.
FirstRound ==
  round = 0 =>
    /\ node \in {"create", "retrieve", "generate"} => quiz = <<>>
    /\ node \in {"create", "retrieve"} => report = NoReport
    /\ node = "create" => checked = FALSE

\* What is left of the preflight's finding: three questions about the targets that
\* the bank has, then the references, and chunks about each question.
Promised ==
  /\ edits = 0 => indexed = Knowledge
  /\ checked /\ round = 0 /\ edits = 0 =>
       /\ node # "failed"
       /\ node = "retrieve" => Three(Fitting(EligibleOf(bank), Targets))
       /\ node = "generate" => /\ Three(Fitting(Range(references), Targets))
                               /\ Knowledge \subseteq evidence

QuizInv == QuizTypes /\ FromBase /\ FirstRound /\ Promised

LEMMA NothingIs == << >> \in Seq(Questions) /\ Range(<< >>) = {}
  <1>1. << >> \in Seq(Questions) /\ Len(<< >>) = 0
    OBVIOUS
  <1>2. Range(<< >>) = {<< >>[i] : i \in 1..0}
    BY <1>1, RangeIs
  <1> QED BY <1>1, <1>2

LEMMA QuizStart == QuizInit => QuizInv
  <1>1. SUFFICES ASSUME QuizInit
                 PROVE  QuizInv
    OBVIOUS
  <1>2. QuizTypes
    BY <1>1, BanksAssumption, NothingIs DEF QuizInit, QuizTypes
  <1>3. FromBase /\ FirstRound /\ Promised
    BY <1>1, NothingIs DEF QuizInit, FromBase, FirstRound, Promised
  <1> QED BY <1>2, <1>3 DEF QuizInv

LEMMA CreateKeeps ==
  ASSUME QuizInv, NEW origin, Create(origin)
  PROVE  QuizInv'
  <1>1. QuizTypes'
    BY DEF QuizInv, QuizTypes, Create
  <1>2. FromBase' /\ FirstRound'
    BY NothingIs DEF QuizInv, FromBase, FirstRound, Create
  <1>3. Promised'
    <2>1. SUFFICES ASSUME checked', round = 0, edits = 0
                   PROVE  node' # "failed" /\
                          (node' = "retrieve" => Three(Fitting(EligibleOf(bank), Targets)))
      BY DEF QuizInv, Promised, Create
    <2>2. origin # "feedback"
      BY <2>1 DEF Create
    <2> DEFINE x == Need(need.focus)
               asked == Selected(EligibleOf(bank), x, {})
    <2>3. IsNeed(x) /\ x.targets = Targets
      BY NeedIs DEF QuizInv, QuizTypes
    <2>4. EligibleOf(bank) \in SUBSET Questions
      BY DEF EligibleOf, QuizInv, QuizTypes
    <2>5. Preflight(bank, x) => Len(asked) >= Shortest
      BY DEF Preflight, EligibleOf
    <2> HIDE DEF x
    <2>6. Len(asked) >= Shortest <=> Three(Fitting(EligibleOf(bank) \ {}, Targets))
      BY <2>3, <2>4, SelectedIs
    <2>7. EligibleOf(bank) \ {} = EligibleOf(bank)
      OBVIOUS
    <2>8. node' = "retrieve" => Preflight(bank, x)
      BY <2>2 DEF Create, x
    <2>9. node' # "failed"
      BY DEF Create
    <2> QED BY <2>5, <2>6, <2>7, <2>8, <2>9
  <1> QED BY <1>1, <1>2, <1>3 DEF QuizInv

LEMMA RetrieveKeeps ==
  ASSUME QuizInv, Retrieve
  PROVE  QuizInv'
  <1> DEFINE x       == Need(need.retrieval)
             offered == Offered(bank, x, report.rejected)
             fresh   == Supported(offered, indexed)
  <1>1. IsNeed(x) /\ x.targets = Targets
    BY NeedIs DEF QuizInv, QuizTypes
  <1>2. /\ node = "retrieve" /\ UNCHANGED <<bank, indexed, need, checked, quiz, report, round, edits>>
        /\ IF offered = Failed
           THEN node' = "failed" /\ UNCHANGED <<references, evidence, base>>
           ELSE /\ node' = "generate"
                /\ references' = IF fresh = <<>> THEN references ELSE fresh
                /\ evidence' = evidence \cup indexed
                /\ base' = IF fresh = <<>> THEN base ELSE bank
    BY DEF Retrieve
  <1> HIDE DEF x
  <1>3. /\ offered \in Seq(Questions) /\ Range(offered) \subseteq bank
        /\ report.rejected = {} /\ Three(Fitting(EligibleOf(bank), Targets)) =>
             offered # Failed /\ Three(Fitting(Range(offered), Targets))
    BY <1>1, OfferedIs DEF QuizInv, QuizTypes
  <1> HIDE DEF offered
  <1>4. /\ fresh \in Seq(Range(offered))
        /\ (\A q \in Range(offered) : Scope(q) \cap indexed # {}) => fresh = offered
    BY <1>3, SupportedIs
  <1> HIDE DEF fresh
  <1>5. fresh \in Seq(Questions) /\ Range(fresh) \subseteq bank
    <2>1. Range(offered) \subseteq Questions /\ Range(fresh) \subseteq Range(offered)
      BY <1>3, <1>4, RangeIs
    <2> QED BY <1>3, <1>4, <2>1, SeqMonotonic
  <1>6. QuizTypes'
    BY <1>2, <1>5 DEF QuizInv, QuizTypes
  <1>7. FromBase'
    BY <1>2, <1>5 DEF QuizInv, FromBase
  <1>8. FirstRound'
    BY <1>2 DEF QuizInv, FirstRound
  <1>9. Promised'
    <2>1. SUFFICES ASSUME checked, round = 0, edits = 0
                   PROVE  /\ node' = "generate"
                          /\ Three(Fitting(Range(references'), Targets)) /\ Knowledge \subseteq evidence'
      BY <1>2 DEF QuizInv, Promised
    <2>2. Three(Fitting(EligibleOf(bank), Targets)) /\ indexed = Knowledge /\ report.rejected = {}
      BY <1>2, <2>1 DEF QuizInv, Promised, FirstRound, NoReport
    <2>3. offered # Failed /\ Three(Fitting(Range(offered), Targets))
      BY <1>3, <2>2
    <2>4. \A q \in Range(offered) : Scope(q) \cap indexed # {}
      <3>1. Range(offered) \subseteq Questions
        BY <1>3, RangeIs
      <3> QED BY <2>2, <3>1 DEF Knowledge, Scope
    <2>5. fresh = offered
      BY <1>4, <2>4
    <2>6. references' = offered
      BY <1>2, <2>3, <2>5 DEF Failed
    <2> QED BY <1>2, <2>2, <2>3, <2>6
  <1> QED BY <1>6, <1>7, <1>8, <1>9 DEF QuizInv

LEMMA GenerateKeeps ==
  ASSUME QuizInv, Generate
  PROVE  QuizInv'
  <1>1. QuizTypes'
    BY DEF QuizInv, QuizTypes, Generate
  <1>2. FromBase'
    BY DEF QuizInv, FromBase, Generate, OnBlueprint
  <1>3. FirstRound'
    BY DEF QuizInv, FirstRound, Generate
  <1>4. Promised'
    <2>1. SUFFICES ASSUME checked, round = 0, edits = 0
                   PROVE  node' = "review"
      BY DEF QuizInv, Promised, Generate
    <2> DEFINE x    == Need(need.focus)
               made == Selected(Range(references), x, {})
    <2>2. quiz = <<>> /\ Three(Fitting(Range(references), Targets)) /\ Knowledge \subseteq evidence
      BY <2>1 DEF QuizInv, FirstRound, Promised, Generate
    <2>3. IsNeed(x) /\ x.targets = Targets
      BY NeedIs DEF QuizInv, QuizTypes
    <2>4. Draft = OrFailed(made)
      BY <2>2 DEF Draft, Built
    <2> HIDE DEF x
    <2>5. Range(references) \in SUBSET Questions
      BY RangeIs DEF QuizInv, QuizTypes
    <2>6. Range(references) \ {} = Range(references)
      OBVIOUS
    <2>7. /\ made \in Seq(Questions) /\ Range(made) \subseteq Fitting(Range(references), Targets)
          /\ Len(made) >= Shortest
      <3>1. /\ made \in Seq(Questions)
            /\ Range(made) \subseteq Fitting(Range(references) \ {}, Targets)
            /\ Len(made) >= Shortest <=> Three(Fitting(Range(references) \ {}, Targets))
        BY <2>3, <2>5, SelectedIs
      <3> QED BY <2>2, <2>6, <3>1
    <2> HIDE DEF made
    <2>8. Len(made) \in Nat /\ Shortest = 3
      BY <2>7, RangeIs DEF Shortest
    <2>9. Draft = made /\ Len(Draft) # 0
      BY <2>4, <2>7, <2>8 DEF OrFailed
    <2>10. Draft # Failed
      BY <2>9 DEF Failed
    <2>11. OnBlueprint(Draft, references)
      BY <2>7, <2>9 DEF OnBlueprint, Fitting
    <2>12. Sourced(Draft, evidence)
      <3>1. \A q \in Range(Draft) : q \in Questions
        BY <2>5, <2>7, <2>9 DEF Fitting
      <3>2. \A q \in Questions : q.about \in Scope(q) \cap Knowledge
        BY DEF Knowledge, Scope
      <3>3. \A q \in Range(Draft) : q.about \in Scope(q) \cap evidence
        BY <2>2, <3>1, <3>2
      <3> QED BY <3>3, Zenon DEF Sourced
    <2> QED BY <2>10, <2>11, <2>12 DEF Generate
  <1> QED BY <1>1, <1>2, <1>3, <1>4 DEF QuizInv

LEMMA EditKeeps ==
  ASSUME QuizInv, Edit
  PROVE  QuizInv'
  <1>1. edits \in Nat /\ edits' = edits + 1 /\ edits' # 0
    BY DEF Edit, QuizInv, QuizTypes
  <1>2. bank' \in SUBSET Questions
    BY DEF Edit, QuizInv, QuizTypes
  <1>3. UNCHANGED <<need, node, checked, references, evidence, quiz, report, round, base>>
    BY DEF Edit
  <1>4. QuizTypes'
    BY <1>1, <1>2, <1>3 DEF QuizInv, QuizTypes
  <1>5. FromBase' /\ FirstRound'
    BY <1>3 DEF QuizInv, FromBase, FirstRound
  <1>6. Promised'
    BY <1>1 DEF Promised
  <1> QED BY <1>4, <1>5, <1>6 DEF QuizInv

LEMMA QuizStep == QuizInv /\ [QuizNext]_quizVars => QuizInv'
  <1>1. SUFFICES ASSUME QuizInv, [QuizNext]_quizVars
                 PROVE  QuizInv'
    OBVIOUS
  <1>2. ASSUME NEW origin \in {"request", "proposal", "feedback"}, Create(origin)
        PROVE  QuizInv'
    BY <1>1, <1>2, CreateKeeps
  <1>3. CASE Retrieve
    BY <1>1, <1>3, RetrieveKeeps
  <1>4. CASE Generate
    BY <1>1, <1>4, GenerateKeeps
  <1>5. CASE Review
    BY <1>1, <1>5 DEF Review, QuizInv, QuizTypes, FromBase, FirstRound, Promised
  <1>6. CASE Finalize
    <2>1. round' \in Nat /\ (round' = 0 => round = 0 /\ node' \in {"passed", "withheld"})
      BY <1>1, <1>6 DEF Finalize, QuizInv, QuizTypes
    <2>2. /\ node' \notin {"create", "generate", "review", "failed"}
          /\ UNCHANGED <<bank, indexed, need, checked, references, evidence, quiz, edits, base>>
      BY <1>6 DEF Finalize
    <2> QED BY <1>1, <2>1, <2>2 DEF QuizInv, QuizTypes, FromBase, FirstRound, Promised
  <1>7. CASE Edit
    BY <1>1, <1>7, EditKeeps
  <1>8. CASE UNCHANGED quizVars
    BY <1>1, <1>8 DEF quizVars, QuizInv, QuizTypes, FromBase, FirstRound, Promised
  <1> QED BY <1>1, <1>2, <1>3, <1>4, <1>5, <1>6, <1>7, <1>8 DEF QuizNext

LEMMA QuizInvariance == QuizSpec => []QuizInv
  BY QuizStart, QuizStep, PTL DEF QuizSpec

-----------------------------------------------------------------------------
(* Theorems                                                                *)

\* A quiz under review holds no question that was disabled before the retrieval it
\* was made from, whatever positions its revisions kept.
THEOREM ReviewedQuizIsFromBank == QuizSpec => []QuizFromBank
  <1>1. QuizInv => QuizFromBank
    BY DEF QuizInv, FromBase, QuizFromBank
  <1> QED BY <1>1, QuizInvariance, PTL

\* A task that was admitted by a preflight gets its first quiz while bank and index
\* stay as they were, for any two focuses of retrieval and generation.
THEOREM AdmittedTaskGetsQuiz == QuizSpec => []PreflightHolds
  <1>1. QuizInv => PreflightHolds
    BY DEF QuizInv, Promised, PreflightHolds
  <1> QED BY <1>1, QuizInvariance, PTL
=============================================================================
