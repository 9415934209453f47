---------------------------- MODULE TaskLifecycle ----------------------------
(***************************************************************************)
(* What a generation task promises to the learner who polls it: the row's  *)
(* status and whether the task's resources can be read.  Checkpoints,      *)
(* workers, retries and crashes are not visible at this level; see         *)
(* GenerationTask, which implements it.                                    *)
(***************************************************************************)
CONSTANTS Tasks

VARIABLES
    status,    \* generation_tasks.status, "absent" before the row exists
    decision,  \* generation_tasks.decision
    resources  \* "none", "withheld" (review_status failed) or "published"

vars == <<status, decision, resources>>

Init ==
    /\ status = [t \in Tasks |-> "absent"]
    /\ decision = [t \in Tasks |-> "pending"]
    /\ resources = [t \in Tasks |-> "none"]

Move(t, s, d) ==
    /\ status' = [status EXCEPT ![t] = s]
    /\ decision' = [decision EXCEPT ![t] = d]
    /\ UNCHANGED resources

Submit(t) == status[t] = "absent" /\ Move(t, "pending", "pending")

Begin(t) == status[t] \in {"pending", "retry_pending"} /\ Move(t, "running", "pending")

\* Resources appear and change only while their task runs.
Write(t) ==
    /\ status[t] = "running"
    /\ \E r \in {"withheld", "published"} :
          resources' = [resources EXCEPT ![t] = r]
    /\ UNCHANGED <<status, decision>>

\* A task that reports a package has published it.
Complete(t) ==
    /\ status[t] = "running"
    /\ \/ resources[t] = "published" /\ Move(t, "completed", "completed")
       \/ Move(t, "completed", "no_change")

Fail(t) == status[t] = "running" /\ Move(t, "failed", "failed")

Retry(t) == status[t] = "failed" /\ Move(t, "retry_pending", "pending")

\* A restart settles or requeues every interrupted task in one transaction, and
\* touches no other task.
Restart ==
    /\ \E requeued \in SUBSET {t \in Tasks : status[t] \in {"running", "retry_pending"}} :
          LET interrupted == {t \in Tasks : status[t] \in {"running", "retry_pending"}}
              outcome(t, yes, no, same) ==
                  IF t \in requeued THEN yes ELSE IF t \in interrupted THEN no ELSE same
          IN /\ status' = [t \in Tasks |->
                              outcome(t, "retry_pending", "failed", status[t])]
             /\ decision' = [t \in Tasks |->
                              outcome(t, "pending", "failed", decision[t])]
    /\ UNCHANGED resources

Next ==
    \/ \E t \in Tasks :
          \/ Submit(t) \/ Begin(t) \/ Write(t) \/ Complete(t) \/ Fail(t) \/ Retry(t)
    \/ Restart

Spec == Init /\ [][Next]_vars
=============================================================================
