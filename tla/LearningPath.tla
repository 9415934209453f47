---------------------------- MODULE LearningPath ----------------------------
(***************************************************************************)
(* The learning path of one learner as data: the order of the recommended  *)
(* knowledge points, the units they are grouped into, and the operations   *)
(* of learning_path_service.py on them.  A unit is named by its members    *)
(* (unit_node_id_for hashes them), its position is its path_order, and     *)
(* "current", "completed" and "locked" are the statuses of node_states.    *)
(*                                                                         *)
(* A path is a record                                                      *)
(*   order   the knowledge ids of the first stage                          *)
(*   units   sequence of [ids, status]                                     *)
(*   rel     the prerequisite pairs the units were last grouped by         *)
(*           (prerequisite_knowledge_ids of each unit)                     *)
(*   status  "active" or "completed"                                       *)
(*   owner   the profile the row points to (profile_id)                    *)
(*   row     number of the row                                             *)
(***************************************************************************)
EXTENDS Ordering, SequencesExt, FiniteSetsExt

CONSTANTS
  MinUnits,   \* 4 in the code: the least number of units aimed at
  MaxUnits,   \* 7 in the code
  UnitSpan,   \* 3 in the code: knowledge points per unit aimed at
  UnitCap     \* 6 in the code: the most knowledge points of one unit

ASSUME UnitBounds ==
  /\ {MinUnits, MaxUnits, UnitSpan, UnitCap} \subseteq Nat \ {0}
  /\ MinUnits <= MaxUnits

\* Every element where it comes first.
Distinct(s) == Picked(s, {i \in DOMAIN s : \A j \in 1..(i - 1) : s[j] # s[i]})

Without(s, S) == Picked(s, {i \in DOMAIN s : s[i] \notin S})

Requires(rel, k) == {pair[1] : pair \in {r \in rel : r[2] = k}}

-----------------------------------------------------------------------------
(* _stable_topological_order: repeatedly the first pending id none of      *)
(* whose prerequisites is pending; what a cycle blocks keeps its order.    *)

StableOrder(ids, rel) ==
  LET all == Distinct(ids)
      Ready(done) == {i \in DOMAIN all :
                        all[i] \notin done /\ Requires(rel, all[i]) \cap ToSet(all) \subseteq done}
      run[n \in 0..Len(all)] ==
        IF n = 0 THEN <<>>
        ELSE LET done  == run[n - 1]
                 ready == Ready(ToSet(done))
             IN IF ready = {} THEN done ELSE Append(done, all[Min(ready)])
      ordered == run[Len(all)]
  IN ordered \o Without(all, ToSet(ordered))

\* _prerequisite_closure: everything k needs, reached only through ids that
\* are not completed.
NeededBy(k, rel, completed) ==
  LET Step(S) == S \cup ((UNION {Requires(rel, x) : x \in S \cup {k}}) \ completed)
      grow[n \in 0..Cardinality(rel)] == IF n = 0 THEN {} ELSE Step(grow[n - 1])
  IN grow[Cardinality(rel)]

\* _balanced_units: MinUnits..MaxUnits consecutive slices whose sizes differ
\* by at most one; a slice keeps its first UnitCap members.
BalancedUnits(ids) ==
  LET n      == Len(ids)
      wanted == (n + UnitSpan - 1) \div UnitSpan
      target == Min({n, MaxUnits, Max({MinUnits, wanted})})
      base   == n \div target
      extra  == n % target
      Size(i)  == base + (IF i <= extra THEN 1 ELSE 0)
      Start(i) == (i - 1) * base + Min({i - 1, extra})
  IN IF n = 0 THEN <<>>
     ELSE [i \in 1..target |->
             SubSeq(ids, Start(i) + 1, Start(i) + Min({UnitCap, Size(i)}))]

-----------------------------------------------------------------------------
(* normalize_path_for_domain with previous_payload = payload, or, when     *)
(* there is no previous path, with no units.                               *)

Flatten(units) == Joined([i \in DOMAIN units |-> units[i].ids])

At(path, status) == {i \in DOMAIN path.units : path.units[i].status = status}

CompletedUnits(path) == Picked(path.units, At(path, "completed"))

Members(path, status) == UNION {ToSet(path.units[i].ids) : i \in At(path, status)}

CompletedIds(path) == Members(path, "completed")

CurrentIds(path) ==
  IF Members(path, "current") = {} THEN <<>>
  ELSE (CHOOSE u \in ToSet(path.units) : u.status = "current").ids

\* The first unit that is not completed is the current one, the others are
\* locked.
Opened(units) ==
  LET open == {i \in DOMAIN units : units[i].status # "completed"} IN
  [i \in DOMAIN units |->
     [units[i] EXCEPT !.status = CASE i \notin open -> "completed"
                                   [] i \in open /\ i = Min(open) -> "current"
                                   [] OTHER -> "locked"]]

Expanded(path, rel) ==
  LET done == Flatten(CompletedUnits(path))
      With(k) == SetToSeq(NeededBy(k, rel, ToSet(done))) \o <<k>>
      wanted  == path.order \o CurrentIds(path)
  IN StableOrder(done \o Joined([n \in DOMAIN wanted |-> With(wanted[n])]), rel)

\* Variant of KeepsCurrent: a new prerequisite of the current unit waits
\* until after it.
KeepsAnyCurrent(path, rel) == CurrentIds(path) # <<>>

\* keep_prior_current: the current unit survives unless it has gained a
\* prerequisite from outside.
KeepsCurrent(path, rel) ==
  LET cur == ToSet(CurrentIds(path)) IN
  /\ cur # {}
  /\ UNION {Requires(rel, k) : k \in cur} \subseteq CompletedIds(path) \cup cur
  /\ cur \cap CompletedIds(path) = {}

\* Units whose turn is yet to come
Waiting(lists) == [i \in DOMAIN lists |-> [ids |-> lists[i], status |-> "locked"]]

Normalize(path, rel) ==
  LET order     == Expanded(path, rel)
      kept      == IF KeepsCurrent(path, rel)
                     THEN <<CurrentIds(path)>> ELSE <<>>
      remaining == Without(order, CompletedIds(path) \cup
                                    UNION {ToSet(u) : u \in ToSet(kept)})
      future    == kept \o BalancedUnits(remaining)
  IN [path EXCEPT
        !.order = order,
        !.rel   = rel,
        !.units = Opened(CompletedUnits(path) \o Waiting(future))]

NewPath(order, rel, owner) ==
  Normalize([order |-> order, units |-> <<>>, rel |-> rel,
             status |-> "active", owner |-> owner, row |-> 1], rel)

-----------------------------------------------------------------------------
(* _advance_path_node: complete the current unit and regroup the rest.     *)

IsCurrent(path, ids) == \E i \in DOMAIN path.units :
                          path.units[i] = [ids |-> ids, status |-> "current"]

AllCompleted(path) == /\ path.units # <<>>
                      /\ \A i \in DOMAIN path.units :
                            path.units[i].status = "completed"

\* The path ends with its last unit.
Concluded(path) ==
  [path EXCEPT !.status = IF AllCompleted(path) THEN "completed" ELSE "active"]

Advance(path, ids, rel) ==
  LET done == [path EXCEPT !.units =
                 [i \in DOMAIN @ |-> IF @[i].ids = ids
                                       THEN [@[i] EXCEPT !.status = "completed"]
                                       ELSE @[i]]]
  IN Concluded(Normalize(done, rel))

(* reprioritize_future_nodes: reorder the locked units, affected ones      *)
(* first.  The code's eligibility test takes an empty dependency set for   *)
(* "everything remaining", so only a unit whose locked prerequisites are   *)
(* all placed is ever eligible, and when there is none every unit is.      *)

LockedUnits(path) == Picked(path.units, At(path, "locked"))

Reprioritize(path, affected) ==
  LET locked == LockedUnits(path)
      In(i) == ToSet(locked[i].ids)
      Deps(i) == {j \in DOMAIN locked \ {i} :
                    \E k \in In(i) : Requires(path.rel, k) \cap In(j) # {}}
      Eligible(left) == {i \in left : /\ Deps(i) # {}
                                      /\ Deps(i) \cap left = {}}
      Pool(left)  == IF Eligible(left) = {} THEN left ELSE Eligible(left)
      First(left) == LET hit == {i \in Pool(left) : In(i) \cap affected # {}}
                     IN Min(IF hit = {} THEN Pool(left) ELSE hit)
      place[n \in 0..Len(locked)] ==
        IF n = 0 THEN <<>>
        ELSE Append(place[n - 1], First(DOMAIN locked \ ToSet(place[n - 1])))
      order == place[Len(locked)]
  IN IF Len(locked) < 2 THEN path
     ELSE [path EXCEPT !.units =
             Picked(@, DOMAIN @ \ At(path, "locked")) \o
             [n \in DOMAIN order |-> locked[order[n]]]]
=============================================================================
