---------------------------- MODULE GenerationTask ----------------------------
(***************************************************************************)
(* Execution of generation tasks: the request handlers that create and     *)
(* retry them (api/v1/generation_tasks.py), the background invocations of  *)
(* run_generation_task (workers/generation_worker.py), the LangGraph       *)
(* checkpoint they save (agents/checkpointer.py) and the recovery run once *)
(* per process start (recover_interrupted_generation_tasks, main.py).      *)
(*                                                                         *)
(* Persistent state: the task rows, their resources, AgentRun rows and the *)
(* one checkpoint row per task.  Lost in a crash: scheduled invocations,   *)
(* the recovery thread's list, workers, request handlers and checkpoints   *)
(* handed to the saver but not saved.                                      *)
(*                                                                         *)
(* The graph is LearningGraph seen from its worker: prepare stands for the *)
(* three nodes before retrieval, produce for retrieve, generate, review.   *)
(***************************************************************************)
EXTENDS Integers, Sequences, FiniteSets

CONSTANTS
    Tasks,         \* rows of generation_tasks: 1 .. n, in the order of their ids
    Slots,         \* threads that run background invocations
    Recovery,      \* the generation-checkpoint-recovery thread
    Requests,      \* handlers that may run a retry at the same time
    NoTask, NoCkpt,
    MaxRounds,     \* bound: revision rounds of a graph
    MaxUnsaved,    \* bound: checkpoints handed to the saver and not saved yet
    MaxCrashes, MaxUpgrades, MaxRetries  \* bounds on the environment

ASSUME TasksAssumption == Tasks \subseteq Nat
ASSUME NoTaskAssumption == NoTask \notin Tasks
ASSUME BoundsAssumption == MaxRounds \in Nat /\ MaxUnsaved \in Nat \ {0}

Workers == Slots \cup {Recovery}

VARIABLES
    up,         \* the process serves
    status, decision, resources,  \* task rows and their LearningResource rows
    ckpt,       \* GraphCheckpoint row: [g, auto] or NoCkpt
    run,        \* contract version of the latest AgentRun: none, old, current
    open,       \* number of AgentRun rows with status running
    lastFail,   \* the latest failed AgentRun
    sched,      \* invocations handed to BackgroundTasks, not started
    claimed,    \* tasks the recovery thread still has to run
    worker,     \* per thread, the state of its run_generation_task
    request,    \* per handler, a retry between its read and its commit
    crashes, upgrades, retries,  \* used up so far
    broken,     \* history: some invocation ended before it could fail its task
    recovered,  \* history: automatic resumptions of the task's checkpoint
    raced       \* history: a retry was committed over another one under way

rows == <<status, decision, resources>>
runs == <<run, open, lastFail>>
environment == <<crashes, upgrades, retries>>
history == <<broken, recovered, raced>>
vars == <<up, rows, ckpt, runs, sched, claimed, worker, request, environment, history>>

Statuses == {"absent", "pending", "running", "retry_pending", "failed", "completed"}

\* Variants of Interrupted: a requeued task is forgotten, or a task that has not
\* started is taken for an interrupted one.
InterruptedRunning == {"running"}
InterruptedOrPending == {"pending", "running", "retry_pending"}

\* INTERRUPTED_TASK_STATUSES
Interrupted == {"running", "retry_pending"}

\* What the state of a resumed graph tells apart.  The verdict is the outcome the
\* reviewed package leads finalize_task to: it is in the state that is saved.
Verdicts == {"none", "completed", "revision_required", "failed", "no_change"}
GraphState == [node: {"prepare", "produce", "finalize", "end"},
               verdict: Verdicts, rounds: 0 .. MaxRounds]
Start == [node |-> "prepare", verdict |-> "none", rounds |-> 0]

Checkpoint == [g: GraphState, auto: 0 .. 1]
ASSUME NoCkptAssumption == NoCkpt \notin Checkpoint

\* Failures of a node: not recoverable; recoverable and repeated once by the
\* worker itself (RECOVERABLE_CHECKPOINT_FAILURES); recoverable by a user's retry
\* only; recoverable from a fresh state only; recoverable, of an older contract.
FailuresOf(node) ==
    IF node = "produce" THEN {"repeat", "resume", "fresh"} ELSE {"hard"}
Failures == {"none", "hard", "repeat", "resume", "fresh", "stale"}

Idle == [pc |-> "idle", task |-> NoTask, resume |-> FALSE, g |-> Start,
         unsaved |-> <<>>, second |-> FALSE, failure |-> "none"]
NoRequest == [task |-> NoTask, failure |-> "none", row |-> FALSE, overtaken |-> FALSE]

WorkerState ==
    [pc: {"idle", "load", "open", "between", "node", "raised", "final"},
     task: Tasks \cup {NoTask}, resume: BOOLEAN, g: GraphState,
     unsaved: Seq(GraphState), second: BOOLEAN, failure: Failures]
RequestState ==
    [task: Tasks \cup {NoTask}, failure: Failures, row: BOOLEAN, overtaken: BOOLEAN]

TypeOK ==
    /\ up \in BOOLEAN
    /\ status \in [Tasks -> Statuses]
    /\ decision \in [Tasks -> {"pending", "completed", "failed", "no_change"}]
    /\ resources \in [Tasks -> {"none", "withheld", "published"}]
    /\ ckpt \in [Tasks -> Checkpoint \cup {NoCkpt}]
    /\ run \in [Tasks -> {"none", "old", "current"}]
    /\ open \in [Tasks -> Int]
    /\ lastFail \in [Tasks -> Failures]
    /\ sched \in [Tasks -> Nat]
    /\ claimed \in SUBSET Tasks
    /\ worker \in [Workers -> WorkerState]
    /\ \A w \in Workers : Len(worker[w].unsaved) <= MaxUnsaved
    /\ request \in [Requests -> RequestState]
    /\ recovered \in [Tasks -> Nat]
    /\ raced \in [Tasks -> BOOLEAN]

Init ==
    /\ up = TRUE
    /\ status = [t \in Tasks |-> "absent"]
    /\ decision = [t \in Tasks |-> "pending"]
    /\ resources = [t \in Tasks |-> "none"]
    /\ ckpt = [t \in Tasks |-> NoCkpt]
    /\ run = [t \in Tasks |-> "none"]
    /\ open = [t \in Tasks |-> 0]
    /\ lastFail = [t \in Tasks |-> "none"]
    /\ sched = [t \in Tasks |-> 0]
    /\ claimed = {}
    /\ worker = [w \in Workers |-> Idle]
    /\ request = [r \in Requests |-> NoRequest]
    /\ crashes = 0 /\ upgrades = 0 /\ retries = 0
    /\ broken = FALSE
    /\ recovered = [t \in Tasks |-> 0]
    /\ raced = [t \in Tasks |-> FALSE]

(***************************************************************************)
(* Request handlers.                                                       *)
(***************************************************************************)
CreateTask(t) ==
    /\ up /\ status[t] = "absent"
    /\ status' = [status EXCEPT ![t] = "pending"]
    /\ sched' = [sched EXCEPT ![t] = @ + 1]
    /\ UNCHANGED <<up, decision, resources, ckpt, runs, claimed, worker, request,
                   environment, history>>

Recoverable(failure) == failure \in {"repeat", "resume", "fresh", "stale"}

\* The handler reads the task, its checkpoint and its latest failed run and
\* answers at once unless all of them allow a retry.
ReadRetryOf(r, t, retryable) ==
    /\ up /\ request[r] = NoRequest
    /\ retries < MaxRetries
    /\ status[t] \in retryable
    /\ ckpt[t] # NoCkpt
    /\ Recoverable(lastFail[t])
    /\ request' = [request EXCEPT ![r] = [task |-> t, failure |-> lastFail[t],
                                         row |-> TRUE, overtaken |-> FALSE]]
    /\ retries' = retries + 1
    /\ UNCHANGED <<up, rows, ckpt, runs, sched, claimed, worker, crashes, upgrades,
                   history>>

\* Variant of ReadRetry that accepts a task that was requeued or runs.
ReadRetryUnsettled(r, t) == ReadRetryOf(r, t, {"failed", "retry_pending", "running"})

ReadRetry(r, t) == ReadRetryOf(r, t, {"failed"})

\* A retry under a newer contract leaves the task and creates a successor.
CommitSuccessor(r) ==
    /\ up /\ request[r].failure = "stale"
    /\ \E s \in Tasks :
          /\ status[s] = "absent"
          /\ status' = [status EXCEPT ![s] = "pending"]
          /\ sched' = [sched EXCEPT ![s] = @ + 1]
    /\ request' = [request EXCEPT ![r] = NoRequest]
    /\ UNCHANGED <<up, decision, resources, ckpt, runs, claimed, worker, environment,
                   history>>

\* The commit looks at nothing again.  A checkpoint is deleted by the key that was
\* read: if another retry deleted that row, one saved since then is not touched.
CommitRetry(r) ==
    LET t == request[r].task
        drop == request[r].failure = "fresh" /\ request[r].row
        others(q) == IF request[q].task = t
                     THEN [request[q] EXCEPT !.overtaken = TRUE, !.row = IF drop THEN FALSE ELSE @]
                     ELSE request[q]
    IN  /\ up /\ t # NoTask /\ request[r].failure # "stale"
        /\ status' = [status EXCEPT ![t] = "retry_pending"]
        /\ decision' = [decision EXCEPT ![t] = "pending"]
        /\ ckpt' = [ckpt EXCEPT ![t] = IF drop THEN NoCkpt ELSE @]
        /\ recovered' = [recovered EXCEPT ![t] = IF drop THEN 0 ELSE @]
        /\ sched' = [sched EXCEPT ![t] = @ + 1]
        /\ request' = [q \in Requests |-> IF q = r THEN NoRequest ELSE others(q)]
        /\ raced' = [raced EXCEPT ![t] =
                        @ \/ (request[r].overtaken /\ status[t] # "failed")]
        /\ UNCHANGED <<up, resources, runs, claimed, worker, environment, broken>>

(***************************************************************************)
(* run_generation_task.                                                    *)
(***************************************************************************)
Unsettled(t) == ~(status[t] = "completed" /\ decision[t] \in {"completed", "no_change"})

\* The first transaction, whoever invokes it.
Invoke(w, t) ==
    /\ worker[w] = Idle
    /\ IF Unsettled(t)
       THEN /\ worker' = [worker EXCEPT ![w].pc = "load", ![w].task = t,
                             ![w].resume = status[t] \in {"failed", "retry_pending"}]
            /\ status' = [status EXCEPT ![t] = "running"]
            /\ decision' = [decision EXCEPT ![t] = "pending"]
       ELSE UNCHANGED <<worker, status, decision>>
    /\ UNCHANGED <<up, resources, ckpt, runs, request, environment, history>>

BackgroundInvoke(w, t) ==
    /\ up /\ w \in Slots /\ sched[t] > 0
    /\ sched' = [sched EXCEPT ![t] = @ - 1]
    /\ Invoke(w, t)
    /\ UNCHANGED claimed

\* The recovery thread runs its tasks in the order of their ids.
RecoveryInvoke(t) ==
    /\ up /\ t \in claimed
    /\ \A u \in claimed : t <= u
    /\ claimed' = claimed \ {t}
    /\ Invoke(Recovery, t)
    /\ UNCHANGED sched

\* The domain runtime is loaded outside the try block: if it is not ready the
\* exception leaves the task running, and ends the recovery thread's loop.
LoadFails(w) ==
    /\ worker[w].pc = "load"
    /\ worker' = [worker EXCEPT ![w] = Idle]
    /\ claimed' = IF w = Recovery THEN {} ELSE claimed
    /\ broken' = TRUE
    /\ UNCHANGED <<up, rows, ckpt, runs, sched, request, environment, recovered, raced>>

Load(w) ==
    /\ worker[w].pc = "load"
    /\ worker' = [worker EXCEPT ![w].pc = "open"]
    /\ UNCHANGED <<up, rows, ckpt, runs, sched, claimed, request, environment, history>>

At(g) == IF g.node = "end" THEN "final" ELSE "between"

\* graph.invoke: None resumes the saved checkpoint, an input starts over and
\* hands its own checkpoint to the saver.
Open(w) ==
    LET t == worker[w].task IN
    /\ worker[w].pc = "open"
    /\ worker' =
          IF worker[w].resume /\ ckpt[t] # NoCkpt
          THEN [worker EXCEPT ![w].pc = At(ckpt[t].g), ![w].g = ckpt[t].g]
          ELSE [worker EXCEPT ![w].pc = "between", ![w].g = Start,
                   ![w].unsaved = <<Start>>]
    /\ UNCHANGED <<up, rows, ckpt, runs, sched, claimed, request, environment, history>>

\* The wrapper of a node commits an AgentRun before it calls the node.
StartNode(w) ==
    LET t == worker[w].task IN
    /\ worker[w].pc = "between"
    /\ worker' = [worker EXCEPT ![w].pc = "node"]
    /\ run' = [run EXCEPT ![t] = "current"]
    /\ open' = [open EXCEPT ![t] = @ + 1]
    /\ UNCHANGED <<up, rows, ckpt, lastFail, sched, claimed, request, environment,
                   history>>

After(g) ==
    CASE g.node = "prepare" ->
            {[g EXCEPT !.node = "produce"],
             [g EXCEPT !.node = "finalize", !.verdict = "no_change"]}
      [] g.node = "produce" ->
            {[g EXCEPT !.node = "finalize", !.verdict = v] :
                v \in {"completed", "failed"} \cup
                      IF g.rounds < MaxRounds THEN {"revision_required"} ELSE {}}
      [] g.node = "finalize" ->
            {IF g.verdict = "revision_required"
             THEN [node |-> "produce", verdict |-> "none", rounds |-> g.rounds + 1]
             ELSE [g EXCEPT !.node = "end"]}

\* Variant of Persisted that keeps the resources an earlier finalization wrote.
PersistedOnce(g, before) ==
    CASE g.node # "finalize" \/ g.verdict = "no_change" \/ before # "none" -> before
      [] g.verdict = "completed" -> "published"
      [] OTHER -> "withheld"

\* persist_generated_resources, in the transaction of finalize_task: nothing when
\* no resource was generated, and what was published before is withdrawn when the
\* package is not complete.
Persisted(g, before) ==
    CASE g.node # "finalize" \/ g.verdict = "no_change" -> before
      [] g.verdict = "completed" -> "published"
      [] OTHER -> "withheld"

\* The node's transaction commits before its checkpoint is even handed over, and
\* the next node may run while the saver is still busy.
FinishNode(w) ==
    LET t == worker[w].task
        g == worker[w].g
    IN  /\ worker[w].pc = "node"
        /\ Len(worker[w].unsaved) < MaxUnsaved
        /\ \E next \in After(g) :
              worker' = [worker EXCEPT ![w].pc = At(next), ![w].g = next,
                            ![w].unsaved = Append(@, next)]
        /\ resources' = [resources EXCEPT ![t] = Persisted(g, @)]
        /\ open' = [open EXCEPT ![t] = @ - 1]
        /\ UNCHANGED <<up, status, decision, ckpt, run, lastFail, sched, claimed, request,
                       environment, history>>

\* The wrapper commits the failure without rolling back first, so resources that
\* finalize_task had already written when it raised are committed with it.
FailNode(w) ==
    LET t == worker[w].task IN
    /\ worker[w].pc = "node"
    /\ \/ UNCHANGED resources
       \/ resources' = [resources EXCEPT ![t] = Persisted(worker[w].g, @)]
    /\ \E f \in FailuresOf(worker[w].g.node) :
          /\ lastFail' = [lastFail EXCEPT ![t] = f]
          /\ worker' = [worker EXCEPT ![w].pc = "raised", ![w].failure = f]
    /\ open' = [open EXCEPT ![t] = @ - 1]
    /\ UNCHANGED <<up, status, decision, ckpt, run, sched, claimed, request,
                   environment, history>>

\* Variant of Saved that writes the whole payload anew.
SavedWithoutCounter(t, g) == [g |-> g, auto |-> 0]

\* put: the payload is replaced, the recovery counter is carried over.
Saved(t, g) ==
    [g |-> g, auto |-> IF ckpt[t] = NoCkpt THEN 0 ELSE ckpt[t].auto]

SaveCheckpoint(w) ==
    LET t == worker[w].task IN
    /\ worker[w].unsaved # <<>>
    /\ ckpt' = [ckpt EXCEPT ![t] = Saved(t, Head(worker[w].unsaved))]
    /\ worker' = [worker EXCEPT ![w].unsaved = Tail(@)]
    /\ UNCHANGED <<up, rows, runs, sched, claimed, request, environment, history>>

\* The graph has waited for its saver when invoke raises or returns.
Repeatable(w) == worker[w].failure = "repeat" /\ ~worker[w].second /\ ckpt[worker[w].task] # NoCkpt

RepeatNode(w) ==
    LET t == worker[w].task IN
    /\ worker[w].pc = "raised" /\ worker[w].unsaved = <<>>
    /\ Repeatable(w)
    /\ worker' = [worker EXCEPT ![w].pc = At(ckpt[t].g), ![w].g = ckpt[t].g,
                     ![w].second = TRUE, ![w].failure = "none"]
    /\ UNCHANGED <<up, rows, ckpt, runs, sched, claimed, request, environment, history>>

Settle(w, s, d) ==
    LET t == worker[w].task IN
    /\ status' = [status EXCEPT ![t] = s]
    /\ decision' = [decision EXCEPT ![t] = d]
    /\ worker' = [worker EXCEPT ![w] = Idle]
    /\ UNCHANGED <<up, resources, ckpt, runs, sched, claimed, request, environment,
                   history>>

FailTask(w) ==
    /\ worker[w].pc = "raised" /\ worker[w].unsaved = <<>>
    /\ ~Repeatable(w)
    /\ Settle(w, "failed", "failed")

\* Building the graph or its input may raise as well, inside the try block.
OpenFails(w) == worker[w].pc = "open" /\ Settle(w, "failed", "failed")

ConcludeTask(w) ==
    /\ worker[w].pc = "final" /\ worker[w].unsaved = <<>>
    /\ IF worker[w].g.verdict \in {"completed", "no_change"}
       THEN Settle(w, "completed", worker[w].g.verdict)
       ELSE Settle(w, "failed", "failed")

(***************************************************************************)
(* Crash and startup.                                                      *)
(***************************************************************************)
Crash ==
    /\ up /\ crashes < MaxCrashes
    /\ up' = FALSE
    /\ crashes' = crashes + 1
    /\ sched' = [t \in Tasks |-> 0]
    /\ claimed' = {}
    /\ worker' = [w \in Workers |-> Idle]
    /\ request' = [r \in Requests |-> NoRequest]
    /\ UNCHANGED <<rows, ckpt, runs, upgrades, retries, history>>

\* Variant of Closed that leaves the runs of a crashed worker running.
NoneClosed(tasks) == open

\* The AgentRun rows still running, after those of the given tasks were failed.
Closed(tasks) == [t \in Tasks |-> IF t \in tasks THEN 0 ELSE open[t]]

\* recover_interrupted_generation_tasks, one transaction over all tasks.  A
\* checkpoint without a run of the current contract is dropped and the task
\* starts over; otherwise it is resumed if it has not been resumed before.
Recover(runOf, failOf) ==
    LET interrupted(t) == status[t] \in Interrupted
        stale(t)   == interrupted(t) /\ ckpt[t] # NoCkpt /\ runOf[t] # "current"
        resumed(t) == /\ interrupted(t) /\ ckpt[t] # NoCkpt
                      /\ runOf[t] = "current" /\ ckpt[t].auto = 0
        claim(t)   == stale(t) \/ resumed(t)
        \* a run that was open is marked as failed, recoverable like the task
        recoverable(t) == ckpt[t] # NoCkpt /\ (stale(t) \/ ckpt[t].auto = 0)
    IN  /\ status' = [t \in Tasks |->
                         CASE claim(t) -> "retry_pending"
                           [] interrupted(t) /\ ~claim(t) -> "failed"
                           [] OTHER -> status[t]]
        /\ decision' = [t \in Tasks |->
                         CASE claim(t) -> "pending"
                           [] interrupted(t) /\ ~claim(t) -> "failed"
                           [] OTHER -> decision[t]]
        /\ ckpt' = [t \in Tasks |->
                         CASE stale(t) -> NoCkpt
                           [] resumed(t) -> [ckpt[t] EXCEPT !.auto = 1]
                           [] OTHER -> ckpt[t]]
        /\ recovered' = [t \in Tasks |->
                         CASE stale(t) -> 0
                           [] resumed(t) -> recovered[t] + 1
                           [] OTHER -> recovered[t]]
        /\ lastFail' = [t \in Tasks |->
                         IF interrupted(t) /\ open[t] > 0
                         THEN IF ~recoverable(t) THEN "hard"
                              ELSE IF runOf[t] = "old" THEN "stale" ELSE "resume"
                         ELSE failOf[t]]
        /\ open' = Closed({t \in Tasks : interrupted(t)})
        /\ claimed' = {t \in Tasks : claim(t)}

\* A restart may bring a new contract version, which ages every run there is.
Startup ==
    /\ ~up /\ up' = TRUE
    /\ \/ /\ UNCHANGED <<upgrades, run>>
          /\ Recover(run, lastFail)
       \/ /\ upgrades < MaxUpgrades
          /\ upgrades' = upgrades + 1
          /\ run' = [t \in Tasks |-> IF run[t] = "none" THEN "none" ELSE "old"]
          /\ Recover(run', [t \in Tasks |->
                              IF Recoverable(lastFail[t]) THEN "stale" ELSE lastFail[t]])
    /\ UNCHANGED <<resources, sched, worker, request, crashes, retries, broken, raced>>

(***************************************************************************)
(* The system.                                                             *)
(***************************************************************************)
WorkerStep(w) ==
    \/ Load(w) \/ LoadFails(w) \/ Open(w) \/ OpenFails(w)
    \/ StartNode(w) \/ FinishNode(w) \/ FailNode(w) \/ SaveCheckpoint(w)
    \/ RepeatNode(w) \/ FailTask(w) \/ ConcludeTask(w)

BackgroundStep(w) == WorkerStep(w) \/ \E t \in Tasks : BackgroundInvoke(w, t)

RecoveryStep == WorkerStep(Recovery) \/ \E t \in Tasks : RecoveryInvoke(t)

RequestStep(r) ==
    \/ \E t \in Tasks : ReadRetry(r, t)
    \/ CommitSuccessor(r) \/ CommitRetry(r)

Next ==
    \/ \E t \in Tasks : CreateTask(t)
    \/ \E r \in Requests : RequestStep(r)
    \/ \E w \in Slots : BackgroundStep(w)
    \/ RecoveryStep
    \/ Crash \/ Startup

Spec == Init /\ [][Next]_vars

\* Threads are scheduled, every call a worker makes has a timeout, and a process
\* that crashed is started again (restart policy).  Users promise nothing.
FairSpec ==
    /\ Spec
    /\ \A w \in Slots : WF_vars(BackgroundStep(w))
    /\ WF_vars(RecoveryStep)
    /\ WF_vars(Startup)
    /\ \A r \in Requests : WF_vars(CommitSuccessor(r) \/ CommitRetry(r))

(***************************************************************************)
(* Properties.                                                             *)
(***************************************************************************)
Settled(t) == status[t] \in {"completed", "failed"}

\* The recovery counter in the checkpoint row survives every save: a checkpoint
\* is resumed automatically once, however often the process restarts.
RecoveryBudget ==
    \A t \in Tasks : ckpt[t] # NoCkpt => ckpt[t].auto = recovered[t] /\ recovered[t] <= 1

Done(g) == g.node = "end" /\ g.verdict = "completed"

\* A saved checkpoint never runs ahead of the rows its nodes committed: whatever
\* is resumed, a graph that reached its end as completed has its resources, unless
\* two retries that raced ran the task twice.
CheckpointBehindRows ==
    \A t \in Tasks :
        ckpt[t] # NoCkpt /\ Done(ckpt[t].g) /\ ~raced[t] => resources[t] = "published"

\* No AgentRun of a settled task is left running, through node failures, crashes
\* and recovery; two retries that raced run the task twice (see OneInvocation).
NoOrphanRun == \A t \in Tasks : Settled(t) /\ ~raced[t] => open[t] = 0

\* A task has one invocation, queued or running, however creation, retries, crashes
\* and the recovery thread follow each other.  The handler's commit does not look
\* at the status again (generation_tasks.py), so two handlers that both read a
\* failed task before either commits are the one exception.
OneInvocation ==
    \A t \in Tasks :
        ~raced[t] => sched[t] + (IF t \in claimed THEN 1 ELSE 0)
                       + Cardinality({w \in Workers : worker[w].task = t}) <= 1

\* The learner sees the lifecycle of TaskLifecycle, through crashes and retries.
Lifecycle == INSTANCE TaskLifecycle
    WITH Tasks <- Tasks, status <- status, decision <- decision, resources <- resources
ImplementsLifecycle == Lifecycle!Spec

\* A task that was started or requeued is eventually settled, unless some
\* invocation died before it could tell (LoadFails).
InterruptedSettles ==
    \A t \in Tasks :
        status[t] \in {"running", "retry_pending"} ~> (Settled(t) \/ broken)

\* A task accepted by the API is eventually started.
PendingStarts == \A t \in Tasks : status[t] = "pending" ~> status[t] # "pending"
=============================================================================
