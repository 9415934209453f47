-------------------------- MODULE PackagePublication --------------------------
(***************************************************************************)
(* The learning packages of one learner in one domain: how generation      *)
(* tasks publish them (services/generation_service.py), how resource       *)
(* feedback, knowledge refreshes and retries derive a task from an earlier *)
(* one (feedback_service.py, api/v1/learning_packages.py and               *)
(* generation_tasks.py) and what a knowledge update marks                  *)
(* (learning_package_service.py, knowledge_update_service.py).             *)
(*                                                                         *)
(* A package is the set of LearningPackageResource rows of a task.  The    *)
(* task itself runs as in GenerationTask: here it is active, and its       *)
(* finalize_task may commit more than once, since a checkpoint lags behind *)
(* what its node committed.  Handlers and the final transaction of a graph *)
(* are atomic; the tasks of the learner interleave freely.                 *)
(***************************************************************************)
EXTENDS Integers, FiniteSets

CONSTANTS
    Tasks,      \* 1 .. n, in the order of their ids
    Types,      \* resource types
    Requested,  \* sets of types a learner asks for
    NoTask,
    MaxChanges, \* bound: knowledge updates
    MaxRetries  \* bound: failed tasks resumed

ASSUME TasksAssumption == Tasks \subseteq Nat
ASSUME RequestedAssumption == Requested \subseteq (SUBSET Types) \ {{}}
ASSUME NoTaskAssumption == NoTask \notin Tasks
ASSUME BoundsAssumption == MaxChanges \in Nat /\ MaxRetries \in Nat

VARIABLES
    status,    \* "active" stands for pending, retry_pending and running
    event,     \* event_type
    source,    \* source_task_id
    types,     \* resource_types_json
    review,    \* review_status of the resource a task generated, per type
    member,    \* package rows of a task, per type
    current,   \* tasks with is_current_package
    impact,    \* the latest KnowledgeUpdateImpact of a package
    changes,   \* knowledge updates so far
    retries,   \* tasks resumed so far
    published, \* history: tasks that published
    rooted,    \* history: tasks that published from a chain of published packages
    displaced  \* history: packages another one took the place of

derivation == <<event, source, types>>
history == <<published, rooted, displaced>>
bounded == <<changes, retries>>
vars == <<status, derivation, review, member, current, impact, bounded, history>>

NoMember == [of |-> NoTask, fresh |-> "current"]
NoImpact == [status |-> "none", by |-> NoTask, affected |-> {}]
NoMembers == [k \in Types |-> NoMember]

\* A member names the task that generated its resource.
Member == [of: Tasks, fresh: {"current", "changed"}]
Impact == [status: {"none", "pending", "refreshing", "resolved", "dismissed"},
           by: Tasks \cup {NoTask}, affected: SUBSET Types]

TypeOK ==
    /\ status \in [Tasks -> {"absent", "active", "failed", "completed"}]
    /\ event \in [Tasks -> {"initial", "refresh", "feedback"}]
    /\ source \in [Tasks -> Tasks \cup {NoTask}]
    /\ types \in [Tasks -> SUBSET Types]
    /\ review \in [Tasks -> [Types -> {"none", "passed", "failed"}]]
    /\ member \in [Tasks -> [Types -> Member \cup {NoMember}]]
    /\ current \in SUBSET Tasks
    /\ impact \in [Tasks -> Impact]
    /\ changes \in 0 .. MaxChanges
    /\ retries \in 0 .. MaxRetries
    /\ {published, rooted, displaced} \subseteq SUBSET Tasks

Init ==
    /\ status = [t \in Tasks |-> "absent"]
    /\ event = [t \in Tasks |-> "initial"]
    /\ source = [t \in Tasks |-> NoTask]
    /\ types = [t \in Tasks |-> {}]
    /\ review = [t \in Tasks |-> [k \in Types |-> "none"]]
    /\ member = [t \in Tasks |-> NoMembers]
    /\ current = {}
    /\ impact = [t \in Tasks |-> NoImpact]
    /\ changes = 0
    /\ retries = 0
    /\ published = {} /\ rooted = {} /\ displaced = {}

(***************************************************************************)
(* Tasks are created and retried.                                          *)
(***************************************************************************)
Fresh(t) == status[t] = "absent" /\ \A u \in Tasks : u < t => status[u] # "absent"

Derive(t, e, s, ks) ==
    /\ Fresh(t)
    /\ status' = [status EXCEPT ![t] = "active"]
    /\ event' = [event EXCEPT ![t] = e]
    /\ source' = [source EXCEPT ![t] = s]
    /\ types' = [types EXCEPT ![t] = ks]
    /\ UNCHANGED <<review, member, current, bounded, history>>

CreateInitial(t) ==
    /\ \E ks \in Requested : Derive(t, "initial", NoTask, ks)
    /\ UNCHANGED impact

MemberTypes(m) == {k \in Types : m[k] # NoMember}

Refreshing(p) ==
    \E u \in Tasks : source[u] = p /\ event[u] = "refresh" /\ status[u] = "active"

\* refresh_affected_resources: an active refresh of the package is returned as it
\* is, and so is a package whose impact names none of its members.
StartRefresh(t, p) ==
    LET affected == MemberTypes(member[p]) \cap impact[p].affected IN
    /\ p \in current
    /\ impact[p].status \in {"pending", "dismissed"}
    /\ ~Refreshing(p)
    /\ affected # {}
    /\ Derive(t, "refresh", p, affected)
    /\ impact' = [impact EXCEPT ![p].status = "refreshing", ![p].by = t]

\* require_v6_feedback_source: the current package that holds the resource, or
\* else the task that generated it.
FeedbackSource(u, k) ==
    IF \E p \in current : member[p][k].of = u
    THEN CHOOSE p \in current : member[p][k].of = u
    ELSE u

\* Any resource of the learner can be reported, whatever its review status.
StartFeedback(t, u, k) ==
    /\ review[u][k] # "none"
    /\ Derive(t, "feedback", FeedbackSource(u, k), {k})
    /\ UNCHANGED impact

\* A retry under the same contract resumes the task.
Retry(t) ==
    /\ status[t] = "failed"
    /\ retries < MaxRetries
    /\ retries' = retries + 1
    /\ status' = [status EXCEPT ![t] = "active"]
    /\ UNCHANGED <<derivation, review, member, current, impact, changes, history>>

\* Under a newer contract it copies the task, with the failed task as the source.
Succeed(t, failed) ==
    /\ status[failed] = "failed"
    /\ Derive(t, event[failed], failed, types[failed])
    /\ UNCHANGED impact

(***************************************************************************)
(* Publication.                                                            *)
(***************************************************************************)
\* Variant of SourceMembers that composes a package without its source.
SourceMembersIgnored(t) == NoMembers

\* ensure_package_members: rows are made from the task's own resources, failed
\* ones included, when the task has none.
Ensured(p) ==
    IF member[p] # NoMembers THEN member[p]
    ELSE [k \in Types |-> IF review[p][k] = "none" THEN NoMember
                          ELSE [of |-> p, fresh |-> "current"]]

SourceMembers(t) == IF source[t] = NoTask THEN NoMembers ELSE Ensured(source[t])

\* Inherited members keep their freshness; requested types are replaced by what the
\* task generated.
Composed(t) ==
    [k \in Types |-> IF k \in types[t] THEN [of |-> t, fresh |-> "current"]
                     ELSE SourceMembers(t)[k]]

\* A feedback task without a source package must bring every type itself.
Expected(t) ==
    LET inherited == MemberTypes(SourceMembers(t)) IN
    IF event[t] = "feedback" /\ inherited = {} THEN Types ELSE inherited \cup types[t]

Publishable(t) == MemberTypes(Composed(t)) = Expected(t)

Judged(t, verdict) ==
    [review EXCEPT ![t] = [k \in Types |-> IF k \in types[t] THEN verdict ELSE @[k]]]

\* Rows that exist are left alone, rows that are missing are added.
Added(rows, new) == [k \in Types |-> IF rows[k] = NoMember THEN new[k] ELSE rows[k]]

WithSource(t) ==
    IF source[t] = NoTask THEN member
    ELSE [member EXCEPT ![source[t]] = SourceMembers(t)]

\* Variant of Displaced that leaves the flag of other packages alone.
DisplacedNone(t) == current \cup {t}

Displaced(t) == {t}

\* persist_generated_resources for a completed package, _compose_published_package
\* included: whatever refresh its source package waits for counts as done.
Publish(t) ==
    /\ status[t] = "active"
    /\ Publishable(t)
    /\ review' = Judged(t, "passed")
    /\ member' = [WithSource(t) EXCEPT ![t] = Added(member[t], Composed(t))]
    /\ current' = Displaced(t)
    /\ impact' = IF source[t] # NoTask /\ impact[source[t]].status = "refreshing"
                 THEN [impact EXCEPT ![source[t]].status = "resolved",
                                     ![source[t]].by = t]
                 ELSE impact
    /\ published' = published \cup {t}
    /\ displaced' = displaced \cup (current \ {t})
    /\ rooted' = IF source[t] = NoTask \/ source[t] \in rooted
                 THEN rooted \cup {t} ELSE rooted
    /\ UNCHANGED <<status, derivation, bounded>>

\* An incomplete composition raises after the resources were written as passed, and
\* the wrapper of the node commits them.
RefusePublication(t) ==
    /\ status[t] = "active"
    /\ ~Publishable(t)
    /\ review' = Judged(t, "passed")
    /\ member' = WithSource(t)
    /\ UNCHANGED <<status, derivation, current, impact, bounded, history>>

\* The same for a package that did not pass.  A finalization that is repeated
\* repeats its verdict, which is in the checkpoint it is resumed from.
Withhold(t) ==
    /\ status[t] = "active"
    /\ t \notin published
    /\ review' = Judged(t, "failed")
    /\ member' = WithSource(t)
    /\ UNCHANGED <<status, derivation, current, impact, bounded, history>>

\* The worker's last transaction; only an interpreted feedback completes without a
\* package.
Complete(t) ==
    /\ status[t] = "active"
    /\ t \in published \/ event[t] = "feedback"
    /\ status' = [status EXCEPT ![t] = "completed"]
    /\ UNCHANGED <<derivation, review, member, current, impact, bounded, history>>

\* Variant of Restored that forgets the impact the task was refreshing.
RestoredNone(t) == impact

\* _restore_refresh_impact
Restored(t) ==
    IF /\ event[t] = "refresh"
       /\ impact[source[t]].status = "refreshing"
       /\ impact[source[t]].by = t
    THEN [impact EXCEPT ![source[t]].status = "pending", ![source[t]].by = NoTask]
    ELSE impact

\* The worker or the recovery at startup fails the task, also after it published.
Fail(t) ==
    /\ status[t] = "active"
    /\ status' = [status EXCEPT ![t] = "failed"]
    /\ impact' = Restored(t)
    /\ UNCHANGED <<derivation, review, member, current, bounded, history>>

(***************************************************************************)
(* Knowledge updates.                                                      *)
(***************************************************************************)
\* Variant of Recorded that leaves an impact alone while it is refreshed.
RecordedUnlessRefreshing(i, hit) ==
    CASE i.status \in {"none", "resolved"} ->
            [status |-> "pending", by |-> NoTask, affected |-> hit]
      [] i.status = "refreshing" -> i
      [] OTHER -> [i EXCEPT !.status = "pending", !.affected = @ \cup hit]

\* record_package_impact: a settled impact is followed by a new one, an open one
\* grows and waits again.
Recorded(i, hit) ==
    IF i.status \in {"none", "resolved"}
    THEN [status |-> "pending", by |-> NoTask, affected |-> hit]
    ELSE [i EXCEPT !.status = "pending", !.affected = @ \cup hit]

\* The members of current packages whose resources cite changed knowledge.
Hit(p, ks) == IF p \in current THEN ks \cap MemberTypes(member[p]) ELSE {}

\* mark_affected_content: ks are the types whose resources cite changed knowledge.
KnowledgeUpdate(ks) ==
    /\ changes < MaxChanges
    /\ changes' = changes + 1
    /\ member' = [p \in Tasks |-> [k \in Types |->
                    IF k \in Hit(p, ks) THEN [member[p][k] EXCEPT !.fresh = "changed"]
                                        ELSE member[p][k]]]
    /\ impact' = [p \in Tasks |->
                    IF Hit(p, ks) # {} THEN Recorded(impact[p], Hit(p, ks)) ELSE impact[p]]
    /\ UNCHANGED <<status, derivation, review, current, retries, history>>

Dismiss(p) ==
    /\ impact[p].status \in {"pending", "dismissed"}
    /\ impact' = [impact EXCEPT ![p].status = "dismissed"]
    /\ UNCHANGED <<status, derivation, review, member, current, bounded, history>>

(***************************************************************************)
(* The system.                                                             *)
(***************************************************************************)
Next ==
    \/ \E t \in Tasks :
          \/ CreateInitial(t) \/ Retry(t)
          \/ Publish(t) \/ RefusePublication(t) \/ Withhold(t)
          \/ Complete(t) \/ Fail(t) \/ Dismiss(t)
    \/ \E t, u \in Tasks :
          \/ StartRefresh(t, u)
          \/ \E k \in Types : StartFeedback(t, u, k)
          \/ Succeed(t, u)
    \/ \E ks \in (SUBSET Types) \ {{}} : KnowledgeUpdate(ks)

Spec == Init /\ [][Next]_vars

(***************************************************************************)
(* Properties.                                                             *)
(***************************************************************************)
\* However the tasks of a learner interleave, exactly one of the packages that were
\* published is the current one, and no task that never published is.
OneCurrentPackage ==
    /\ current \subseteq published
    /\ published # {} => \E p \in Tasks : current = {p}

\* A package built on published packages has passed resources only, and partial
\* regeneration never takes a type away that its source package had.
WholePackages ==
    \A p \in rooted :
        /\ \A k \in MemberTypes(member[p]) : review[member[p][k].of][k] = "passed"
        /\ source[p] # NoTask =>
              MemberTypes(member[p]) = MemberTypes(member[source[p]]) \cup types[p]

\* A package is shown as being refreshed only while a task works on it, whatever
\* failed, was retried or was updated in between: the learner can ask again.
RefreshHasWorker ==
    \A p \in Tasks : impact[p].status = "refreshing" =>
        LET t == impact[p].by IN
        t # NoTask /\ event[t] = "refresh" /\ source[t] = p /\ status[t] = "active"

\* A change to what the current package generated is on offer to the learner as
\* long as the package stays current, also when it came during a refresh.  (A
\* package that another one displaced can publish once more: see the README.)
ChangesOffered ==
    \A p \in current \ displaced :
        \A k \in Types :
            member[p][k].of = p /\ member[p][k].fresh = "changed" =>
                /\ k \in impact[p].affected
                /\ impact[p].status \in {"pending", "refreshing", "dismissed"}

=============================================================================
