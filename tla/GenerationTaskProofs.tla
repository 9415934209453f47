------------------------- MODULE GenerationTaskProofs -------------------------
(***************************************************************************)
(* Proofs about GenerationTask for any number of tasks, threads, request   *)
(* handlers, crashes and upgrades.                                         *)
(***************************************************************************)
EXTENDS GenerationTask, FiniteSetTheorems, TLAPS

(***************************************************************************)
(* The inductive invariant.  Two retries that raced (raced[t]) may run a   *)
(* task twice, and what is said of such a task is only its types and its   *)
(* recovery counter.                                                       *)
(***************************************************************************)

\* A revision is only asked for while the budget has a round left.
Sound == {g \in GraphState : g.verdict = "revision_required" => g.rounds < MaxRounds}

SoundInv == \A t \in Tasks : ckpt[t] # NoCkpt => ckpt[t].g \in Sound

\* The counter of a checkpoint is the number of its automatic resumptions, and a
\* task without a checkpoint has none.
RecoveryInv ==
    \A t \in Tasks :
        IF ckpt[t] = NoCkpt THEN recovered[t] = 0
        ELSE ckpt[t].auto = recovered[t] /\ recovered[t] <= 1

On(w, t) == worker[w].task = t

\* A worker has a task, and a graph that ended has nothing left to run.
WorkerOK(x) ==
    /\ x.g \in Sound /\ x.unsaved \in Seq(Sound) /\ Len(x.unsaved) <= MaxUnsaved
    /\ x.pc = "idle" => x = Idle
    /\ x.pc # "idle" => x.task \in Tasks
    /\ x.pc \in {"load", "open"} => x.unsaved = <<>>
    /\ x.pc \in {"between", "node", "raised"} => x.g.node # "end"
    /\ x.pc = "final" => x.g.node = "end"

WorkerInv == \A w \in Workers : WorkerOK(worker[w])

TypeInv == TypeOK /\ SoundInv /\ WorkerInv

\* A crash loses whatever was scheduled, claimed, running or being answered.
DownInv ==
    ~up => /\ \A t \in Tasks : sched[t] = 0
           /\ claimed = {}
           /\ \A w \in Workers : worker[w] = Idle
           /\ \A r \in Requests : request[r] = NoRequest

\* The status of a task tells whether it is queued, running or neither, so that
\* a second invocation has nowhere to come from; a retry that nobody overtook has
\* read the status the task still has.
InvocationInv ==
    \A t \in Tasks : ~raced[t] =>
        /\ sched[t] \in 0 .. 1
        /\ sched[t] = 1 => t \notin claimed
        /\ sched[t] = 1 \/ t \in claimed => status[t] \in {"pending", "retry_pending"}
        /\ \A w \in Workers : On(w, t) => status[t] = "running"
        /\ \A v, w \in Workers : On(v, t) /\ On(w, t) => v = w
        /\ \A r \in Requests :
              request[r].task = t /\ ~request[r].overtaken => status[t] = "failed"

InNode(t) == \E w \in Workers : On(w, t) /\ worker[w].pc = "node"

\* While the process is up, the runs left open are those of nodes being run; what
\* a crash leaves open belongs to a task that Startup takes for interrupted.
RunInv ==
    \A t \in Tasks : ~raced[t] =>
        /\ up => open[t] = IF InNode(t) THEN 1 ELSE 0
        /\ ~up /\ open[t] # 0 => status[t] \in Interrupted

\* What a task of which a worker holds x, with checkpoint c and resources b,
\* guarantees: a graph that ended as completed has published, and excludes that
\* the worker could still write other rows.
Holds(x, c, b) ==
    /\ x.pc = "final" /\ Done(x.g) => b = "published"
    /\ \A i \in 1 .. Len(x.unsaved) :
          Done(x.unsaved[i]) => x.pc = "final" /\ b = "published"
    /\ c # NoCkpt /\ Done(c.g) => x.pc \in {"load", "open", "final"}
    /\ x.pc \in {"load", "open"} /\ ~x.resume => c = NoCkpt

CkptOK(t) ==
    /\ status[t] \in {"absent", "pending"} => ckpt[t] = NoCkpt
    /\ ckpt[t] # NoCkpt /\ Done(ckpt[t].g) => resources[t] = "published"
    /\ \A w \in Workers : On(w, t) => Holds(worker[w], ckpt[t], resources[t])

CheckpointInv == \A t \in Tasks : ~raced[t] => CkptOK(t)

\* A row is created with the decision that a new task has.
AbsentInv == \A t \in Tasks : status[t] = "absent" => decision[t] = "pending"

IInv ==
    /\ TypeInv
    /\ RecoveryInv
    /\ DownInv
    /\ InvocationInv
    /\ RunInv
    /\ CheckpointInv
    /\ AbsentInv

(***************************************************************************)
(* Types.                                                                  *)
(***************************************************************************)
LEMMA StartSound == Start \in Sound /\ Start \in GraphState
  BY BoundsAssumption DEF Start, Sound, GraphState, Verdicts

LEMMA SoundState == Sound \subseteq GraphState
  BY DEF Sound

LEMMA IdleType == Idle \in WorkerState /\ NoRequest \in RequestState
  BY StartSound DEF Idle, NoRequest, WorkerState, RequestState, Failures

LEMMA AfterSound ==
  ASSUME NEW g \in Sound, g.node # "end", NEW next \in After(g)
  PROVE  next \in Sound
<1>1. g \in GraphState /\ (g.verdict = "revision_required" => g.rounds < MaxRounds)
  BY DEF Sound
<1>2. CASE g.node = "prepare"
  BY <1>1, <1>2, BoundsAssumption DEF After, Sound, GraphState, Verdicts
<1>3. CASE g.node = "produce"
  BY <1>1, <1>3, BoundsAssumption DEF After, Sound, GraphState, Verdicts
<1>4. CASE g.node = "finalize"
  BY <1>1, <1>4, BoundsAssumption DEF After, Sound, GraphState, Verdicts
<1>5. QED
  BY <1>1, <1>2, <1>3, <1>4 DEF GraphState

LEMMA PersistedType ==
  ASSUME NEW g, NEW before \in {"none", "withheld", "published"}
  PROVE  Persisted(g, before) \in {"none", "withheld", "published"}
  BY DEF Persisted

LEMMA IdleOK == WorkerOK(Idle)
<1>1. Idle.pc = "idle" /\ Idle.g = Start /\ Idle.unsaved = <<>>
  BY DEF Idle
<1>2. QED
  BY <1>1, StartSound, BoundsAssumption DEF WorkerOK

LEMMA InitTypes == Init => TypeInv
<1> SUFFICES ASSUME Init PROVE TypeInv
    OBVIOUS
<1>1. \A w \in Workers : worker[w] = Idle
  BY DEF Init
<1>2. WorkerInv /\ \A w \in Workers : Len(worker[w].unsaved) <= MaxUnsaved
  BY <1>1, IdleOK DEF WorkerInv, WorkerOK
<1>3. TypeOK
  BY <1>2, IdleType DEF Init, TypeOK, Statuses, Failures
<1>4. SoundInv
  BY DEF Init, SoundInv
<1>5. QED
  BY <1>2, <1>3, <1>4 DEF TypeInv

LEMMA TypesPreserved == TypeInv /\ [Next]_vars => TypeInv'
<1> SUFFICES ASSUME TypeInv, [Next]_vars PROVE TypeInv'
    OBVIOUS
<1> USE DEF TypeInv
<1>1. ASSUME NEW t \in Tasks, CreateTask(t) PROVE TypeInv'
  BY <1>1 DEF CreateTask, TypeOK, SoundInv, WorkerInv, Statuses, rows, runs, environment, history
<1>2. ASSUME NEW r \in Requests, NEW t \in Tasks, ReadRetry(r, t) PROVE TypeInv'
<2>1. lastFail[t] \in Failures
  BY DEF TypeOK
<2>2. request' \in [Requests -> RequestState]
  BY <1>2, <2>1 DEF ReadRetry, ReadRetryOf, TypeOK, RequestState
<2>3. QED
  BY <1>2, <2>2 DEF ReadRetry, ReadRetryOf, TypeOK, SoundInv, WorkerInv, rows, runs, history
<1>3. ASSUME NEW r \in Requests, CommitSuccessor(r) PROVE TypeInv'
<2>1. request' \in [Requests -> RequestState]
  BY <1>3, IdleType DEF CommitSuccessor, TypeOK
<2>2. QED
  BY <1>3, <2>1 DEF CommitSuccessor, TypeOK, SoundInv, WorkerInv, Statuses, runs, environment, history
<1>4. ASSUME NEW r \in Requests, CommitRetry(r) PROVE TypeInv'
<2> DEFINE t == request[r].task
<2>1. t \in Tasks
  BY <1>4 DEF CommitRetry, TypeOK, RequestState
<2>2. ASSUME NEW q \in Requests PROVE request'[q] \in RequestState
<3>1. request[q] \in RequestState
  BY DEF TypeOK
<3>2. QED
  BY <1>4, <3>1, IdleType DEF CommitRetry, RequestState
<2>3. request' \in [Requests -> RequestState]
  BY <1>4, <2>2 DEF CommitRetry
<2>4. ckpt' \in [Tasks -> Checkpoint \cup {NoCkpt}] /\ raced' \in [Tasks -> BOOLEAN]
  BY <1>4, <2>1 DEF CommitRetry, TypeOK
<2>5. /\ status' \in [Tasks -> Statuses]
      /\ decision' \in [Tasks -> {"pending", "completed", "failed", "no_change"}]
<3>1. status' = [status EXCEPT ![t] = "retry_pending"]
      /\ decision' = [decision EXCEPT ![t] = "pending"]
  BY <1>4 DEF CommitRetry
<3>2. QED
  BY <2>1, <3>1 DEF TypeOK, Statuses
<2>10. sched' \in [Tasks -> Nat] /\ recovered' \in [Tasks -> Nat]
<3>1. sched' = [sched EXCEPT ![t] = @ + 1]
  BY <1>4 DEF CommitRetry
<3>2. recovered' = recovered \/ recovered' = [recovered EXCEPT ![t] = 0]
  BY <1>4, <2>1 DEF CommitRetry, TypeOK
<3>3. sched \in [Tasks -> Nat] /\ recovered \in [Tasks -> Nat]
  BY DEF TypeOK
<3>4. QED
<4> HIDE DEF t
<4> QED
  BY <2>1, <3>1, <3>2, <3>3
<2>6. TypeOK'
  BY <1>4, <2>3, <2>4, <2>5, <2>10 DEF CommitRetry, TypeOK, runs
<2>7. \A u \in Tasks : ckpt'[u] = ckpt[u] \/ ckpt'[u] = NoCkpt
  BY <1>4, <2>1 DEF CommitRetry, TypeOK
<2>8. SoundInv' /\ WorkerInv'
  BY <1>4, <2>7 DEF CommitRetry, SoundInv, WorkerInv
<2>9. QED
  BY <2>6, <2>8
\* The steps of a worker change its record, and at most one row of a task.
<1>5. ASSUME NEW w \in Workers, NEW x \in WorkerState, WorkerOK(x),
             worker' = [worker EXCEPT ![w] = x]
      PROVE  /\ worker' \in [Workers -> WorkerState]
             /\ \A v \in Workers : Len(worker'[v].unsaved) <= MaxUnsaved
             /\ WorkerInv'
<2>1. worker' \in [Workers -> WorkerState]
  BY <1>5 DEF TypeOK
<2>2. \A v \in Workers : WorkerOK(worker'[v])
  BY <1>5 DEF TypeOK, WorkerInv
<2>3. QED
  BY <2>1, <2>2 DEF WorkerInv, WorkerOK
<1>6. ASSUME NEW w \in Workers, NEW t \in Tasks, Invoke(w, t),
             sched' \in [Tasks -> Nat], claimed' \in SUBSET Tasks
      PROVE  TypeInv'
<2>1. CASE Unsettled(t)
<3> DEFINE b == status[t] \in {"failed", "retry_pending"}
           x == [worker[w] EXCEPT !.pc = "load", !.task = t, !.resume = b]
<3>1. worker' = [worker EXCEPT ![w] = x]
  BY <1>6, <2>1 DEF Invoke
<3>2. b \in BOOLEAN
  OBVIOUS
<3>3. x \in WorkerState /\ x.g = Start /\ x.unsaved = <<>> /\ x.pc = "load" /\ x.task = t
<4>1. x = [pc |-> "load", task |-> t, resume |-> b, g |-> Start,
            unsaved |-> <<>>, second |-> FALSE, failure |-> "none"]
<5> HIDE DEF b
<5>1. worker[w] = Idle
  BY <1>6 DEF Invoke
<5>2. x = [Idle EXCEPT !.pc = "load", !.task = t, !.resume = b]
  BY <5>1
<5>3. QED
<6> HIDE DEF x
<6> QED
  BY <5>2 DEF Idle
<4>2. QED
<5> HIDE DEF b, x
<5> QED
  BY <3>2, <4>1, StartSound DEF WorkerState, Failures
<3>4. WorkerOK(x)
<4> HIDE DEF x
<4> QED
  BY <3>3, StartSound, BoundsAssumption DEF WorkerOK
<3>5. /\ worker' \in [Workers -> WorkerState]
      /\ \A v \in Workers : Len(worker'[v].unsaved) <= MaxUnsaved
      /\ WorkerInv'
<4> HIDE DEF x
<4> QED
  BY <1>5, <3>1, <3>3, <3>4
<3>6. QED
  BY <1>6, <2>1, <3>5 DEF Invoke, TypeOK, SoundInv, Statuses, runs, environment, history
<2>2. CASE ~Unsettled(t)
  BY <1>6, <2>2 DEF Invoke, TypeOK, SoundInv, WorkerInv, runs, environment, history
<2>3. QED
  BY <2>1, <2>2
<1>7. ASSUME NEW w \in Slots, NEW t \in Tasks, BackgroundInvoke(w, t) PROVE TypeInv'
<2>1. sched' \in [Tasks -> Nat]
  BY <1>7 DEF BackgroundInvoke, TypeOK
<2>2. QED
  BY <1>6, <1>7, <2>1 DEF BackgroundInvoke, TypeOK, Workers
<1>8. ASSUME NEW t \in Tasks, RecoveryInvoke(t) PROVE TypeInv'
  BY <1>6, <1>8 DEF RecoveryInvoke, TypeOK, Workers
<1>9. ASSUME NEW w \in Workers, LoadFails(w) PROVE TypeInv'
<2>1. worker' = [worker EXCEPT ![w] = Idle]
  BY <1>9 DEF LoadFails
<2>2. /\ worker' \in [Workers -> WorkerState]
      /\ \A v \in Workers : Len(worker'[v].unsaved) <= MaxUnsaved
      /\ WorkerInv'
  BY <1>5, <2>1, IdleType, IdleOK
<2>3. QED
  BY <1>9, <2>2 DEF LoadFails, TypeOK, SoundInv, rows, runs, environment
<1>10. ASSUME NEW w \in Workers, Load(w) PROVE TypeInv'
<2> DEFINE x == [worker[w] EXCEPT !.pc = "open"]
<2>1. worker' = [worker EXCEPT ![w] = x]
  BY <1>10 DEF Load
<2>2. x \in WorkerState /\ WorkerOK(x)
  BY <1>10 DEF Load, TypeOK, WorkerState, WorkerInv, WorkerOK
<2>3. /\ worker' \in [Workers -> WorkerState]
      /\ \A v \in Workers : Len(worker'[v].unsaved) <= MaxUnsaved
      /\ WorkerInv'
<3> HIDE DEF x
<3> QED
  BY <1>5, <2>1, <2>2
<2>4. QED
  BY <1>10, <2>3 DEF Load, TypeOK, SoundInv, rows, runs, environment, history
<1>11. ASSUME NEW w \in Workers, Open(w) PROVE TypeInv'
<2> DEFINE t == worker[w].task
<2>1. worker[w] \in WorkerState /\ WorkerOK(worker[w]) /\ t \in Tasks
  BY <1>11 DEF Open, TypeOK, WorkerInv, WorkerOK
<2>2. CASE worker[w].resume /\ ckpt[t] # NoCkpt
<3> DEFINE x == [worker[w] EXCEPT !.pc = At(ckpt[t].g), !.g = ckpt[t].g]
<3>1. worker' = [worker EXCEPT ![w] = x]
  BY <1>11, <2>2 DEF Open
<3>2. ckpt[t].g \in Sound
  BY <2>1, <2>2 DEF SoundInv
<3>3. x \in WorkerState /\ WorkerOK(x)
<4>1. x.g \in Sound /\ x.unsaved = <<>> /\ x.pc = At(x.g) /\ x.task = t
  BY <1>11, <2>1, <3>2 DEF Open, WorkerState, WorkerOK
<4>2. x \in WorkerState
  BY <2>1, <3>2, SoundState DEF WorkerState, At
<4>3. QED
<5> HIDE DEF x
<5> QED
  BY <2>1, <4>1, <4>2, BoundsAssumption DEF WorkerOK, At
<3>4. /\ worker' \in [Workers -> WorkerState]
      /\ \A v \in Workers : Len(worker'[v].unsaved) <= MaxUnsaved
      /\ WorkerInv'
<4> HIDE DEF x
<4> QED
  BY <1>5, <3>1, <3>3
<3>5. QED
  BY <1>11, <3>4 DEF Open, TypeOK, SoundInv, rows, runs, environment, history
<2>3. CASE ~(worker[w].resume /\ ckpt[t] # NoCkpt)
<3> DEFINE x == [worker[w] EXCEPT !.pc = "between", !.g = Start, !.unsaved = <<Start>>]
<3>1. worker' = [worker EXCEPT ![w] = x]
  BY <1>11, <2>3 DEF Open
<3>2. x \in WorkerState /\ x.pc = "between" /\ x.g = Start /\ x.unsaved = <<Start>>
      /\ x.task = t
<4>1. <<Start>> \in Seq(GraphState)
  BY StartSound
<4>2. QED
  BY <2>1, <4>1, StartSound DEF WorkerState
<3>3. WorkerOK(x)
<4> HIDE DEF x
<4>1. Start.node # "end" /\ <<Start>> \in Seq(Sound) /\ Len(<<Start>>) = 1
  BY StartSound DEF Start
<4>2. QED
  BY <2>1, <3>2, <4>1, StartSound, BoundsAssumption DEF WorkerOK
<3>4. /\ worker' \in [Workers -> WorkerState]
      /\ \A v \in Workers : Len(worker'[v].unsaved) <= MaxUnsaved
      /\ WorkerInv'
<4> HIDE DEF x
<4> QED
  BY <1>5, <3>1, <3>2, <3>3
<3>5. QED
  BY <1>11, <3>4 DEF Open, TypeOK, SoundInv, rows, runs, environment, history
<2>4. QED
  BY <2>2, <2>3
<1>12. ASSUME NEW w \in Workers, StartNode(w) PROVE TypeInv'
<2> DEFINE x == [worker[w] EXCEPT !.pc = "node"]
<2>1. worker' = [worker EXCEPT ![w] = x]
  BY <1>12 DEF StartNode
<2>2. x \in WorkerState /\ WorkerOK(x)
  BY <1>12 DEF StartNode, TypeOK, WorkerState, WorkerInv, WorkerOK
<2>3. /\ worker' \in [Workers -> WorkerState]
      /\ \A v \in Workers : Len(worker'[v].unsaved) <= MaxUnsaved
      /\ WorkerInv'
<3> HIDE DEF x
<3> QED
  BY <1>5, <2>1, <2>2
<2>4. run' \in [Tasks -> {"none", "old", "current"}] /\ open' \in [Tasks -> Int]
<3>1. /\ run' = [run EXCEPT ![worker[w].task] = "current"]
      /\ open' = [open EXCEPT ![worker[w].task] = @ + 1]
  BY <1>12 DEF StartNode
<3>2. /\ run \in [Tasks -> {"none", "old", "current"}] /\ open \in [Tasks -> Int]
      /\ worker[w].task \in Tasks
  BY <1>12 DEF StartNode, TypeOK, WorkerInv, WorkerOK
<3>3. QED
  BY <3>1, <3>2
<2>5. QED
  BY <1>12, <2>3, <2>4 DEF StartNode, TypeOK, SoundInv, rows, environment, history
<1>13. ASSUME NEW w \in Workers, FinishNode(w) PROVE TypeInv'
<2> DEFINE t == worker[w].task
           g == worker[w].g
<2>1. /\ worker[w] \in WorkerState /\ WorkerOK(worker[w]) /\ t \in Tasks
      /\ g \in Sound /\ g.node # "end"
  BY <1>13 DEF FinishNode, TypeOK, WorkerInv, WorkerOK
<2>2. PICK next \in After(g) :
         worker' = [worker EXCEPT ![w].pc = At(next), ![w].g = next,
                        ![w].unsaved = Append(@, next)]
  BY <1>13 DEF FinishNode
<2>3. next \in Sound
  BY <2>1, AfterSound
<2> DEFINE x == [worker[w] EXCEPT !.pc = At(next), !.g = next, !.unsaved = Append(@, next)]
<2>4. worker' = [worker EXCEPT ![w] = x]
  BY <2>2
<2>5. /\ x.pc = At(next) /\ x.g = next /\ x.task = t
      /\ x.unsaved = Append(worker[w].unsaved, next)
  BY <2>1 DEF WorkerState
<2>6. /\ x.unsaved \in Seq(Sound) /\ Len(x.unsaved) = Len(worker[w].unsaved) + 1
      /\ x.unsaved \in Seq(GraphState)
<3>1. worker[w].unsaved \in Seq(Sound) /\ worker[w].unsaved \in Seq(GraphState)
  BY <2>1 DEF WorkerOK, WorkerState
<3>2. QED
<4> HIDE DEF x
<4> QED
  BY <2>3, <2>5, <3>1, SoundState
<2>7. x \in WorkerState
  BY <2>1, <2>3, <2>6, SoundState DEF WorkerState, At
<2>8. WorkerOK(x)
<3>1. Len(worker[w].unsaved) < MaxUnsaved /\ Len(worker[w].unsaved) \in Nat
  BY <1>13, <2>1 DEF FinishNode, WorkerState
<3>2. QED
<4> HIDE DEF x
<4> QED
  BY <2>1, <2>3, <2>5, <2>6, <3>1, BoundsAssumption DEF WorkerOK, At
<2>9. /\ worker' \in [Workers -> WorkerState]
      /\ \A v \in Workers : Len(worker'[v].unsaved) <= MaxUnsaved
      /\ WorkerInv'
<3> HIDE DEF x
<3> QED
  BY <1>5, <2>4, <2>7, <2>8
<2>10. resources' \in [Tasks -> {"none", "withheld", "published"}]
<3>1. resources' = [resources EXCEPT ![t] = Persisted(g, @)]
  BY <1>13 DEF FinishNode
<3>2. resources \in [Tasks -> {"none", "withheld", "published"}]
  BY DEF TypeOK
<3>3. QED
  BY <2>1, <3>1, <3>2, PersistedType
<2>11. open' \in [Tasks -> Int]
<3>1. open' = [open EXCEPT ![t] = @ - 1] /\ open \in [Tasks -> Int]
  BY <1>13 DEF FinishNode, TypeOK
<3>2. QED
  BY <2>1, <3>1
<2>12. QED
  BY <1>13, <2>9, <2>10, <2>11 DEF FinishNode, TypeOK, SoundInv, environment, history
<1>14. ASSUME NEW w \in Workers, FailNode(w) PROVE TypeInv'
<2> DEFINE t == worker[w].task
           g == worker[w].g
<2>1. worker[w] \in WorkerState /\ WorkerOK(worker[w]) /\ t \in Tasks /\ worker[w].pc = "node"
  BY <1>14 DEF FailNode, TypeOK, WorkerInv, WorkerOK
<2>2. PICK f \in FailuresOf(g.node) :
         /\ lastFail' = [lastFail EXCEPT ![t] = f]
         /\ worker' = [worker EXCEPT ![w].pc = "raised", ![w].failure = f]
  BY <1>14 DEF FailNode
<2>3. f \in Failures
  BY <2>2 DEF FailuresOf, Failures
<2> DEFINE x == [worker[w] EXCEPT !.pc = "raised", !.failure = f]
<2>4. worker' = [worker EXCEPT ![w] = x]
  BY <2>2
<2>5. x \in WorkerState /\ WorkerOK(x)
  BY <2>1, <2>3 DEF WorkerState, WorkerOK
<2>6. /\ worker' \in [Workers -> WorkerState]
      /\ \A v \in Workers : Len(worker'[v].unsaved) <= MaxUnsaved
      /\ WorkerInv'
<3> HIDE DEF x
<3> QED
  BY <1>5, <2>4, <2>5
<2>7. resources' \in [Tasks -> {"none", "withheld", "published"}]
<3>1. resources' = resources \/ resources' = [resources EXCEPT ![t] = Persisted(g, @)]
  BY <1>14 DEF FailNode
<3>2. resources \in [Tasks -> {"none", "withheld", "published"}]
  BY DEF TypeOK
<3>3. QED
  BY <2>1, <3>1, <3>2, PersistedType
<2>8. open' \in [Tasks -> Int] /\ lastFail' \in [Tasks -> Failures]
<3>1. open' = [open EXCEPT ![t] = @ - 1] /\ open \in [Tasks -> Int]
  BY <1>14 DEF FailNode, TypeOK
<3>2. lastFail \in [Tasks -> Failures]
  BY DEF TypeOK
<3>3. QED
  BY <2>1, <2>2, <2>3, <3>1, <3>2
<2>9. QED
  BY <1>14, <2>6, <2>7, <2>8 DEF FailNode, TypeOK, SoundInv, environment, history
<1>15. ASSUME NEW w \in Workers, SaveCheckpoint(w) PROVE TypeInv'
<2> DEFINE t == worker[w].task
           x == [worker[w] EXCEPT !.unsaved = Tail(@)]
           first == Head(worker[w].unsaved)
<2>1. worker[w] \in WorkerState /\ WorkerOK(worker[w]) /\ worker[w].unsaved # <<>>
  BY <1>15 DEF SaveCheckpoint, TypeOK, WorkerInv
<2>2. t \in Tasks /\ worker[w].pc \notin {"idle", "load", "open"}
  BY <2>1 DEF WorkerOK, Idle
<2>3. worker' = [worker EXCEPT ![w] = x]
  BY <1>15 DEF SaveCheckpoint
<2>4. /\ Tail(worker[w].unsaved) \in Seq(Sound) /\ Tail(worker[w].unsaved) \in Seq(GraphState)
      /\ Len(Tail(worker[w].unsaved)) <= MaxUnsaved /\ first \in Sound
  BY <2>1, BoundsAssumption DEF WorkerOK, WorkerState
<2>5. /\ x.pc = worker[w].pc /\ x.g = worker[w].g /\ x.task = t
      /\ x.unsaved = Tail(worker[w].unsaved) /\ x \in WorkerState
  BY <2>1, <2>4 DEF WorkerState
<2>6. WorkerOK(x)
<3> HIDE DEF x
<3> QED
  BY <2>1, <2>2, <2>4, <2>5 DEF WorkerOK
<2>7. /\ worker' \in [Workers -> WorkerState]
      /\ \A v \in Workers : Len(worker'[v].unsaved) <= MaxUnsaved
      /\ WorkerInv'
<3> HIDE DEF x
<3> QED
  BY <1>5, <2>3, <2>5, <2>6
<2>8. Saved(t, first) \in Checkpoint /\ Saved(t, first).g = first
  BY <2>2, <2>4, SoundState DEF Saved, TypeOK, Checkpoint
<2>9. ckpt' = [ckpt EXCEPT ![t] = Saved(t, first)]
  BY <1>15 DEF SaveCheckpoint
<2>10. ckpt' \in [Tasks -> Checkpoint \cup {NoCkpt}] /\ SoundInv'
  BY <2>2, <2>4, <2>8, <2>9 DEF TypeOK, SoundInv
<2>11. QED
  BY <1>15, <2>7, <2>10 DEF SaveCheckpoint, TypeOK, rows, runs, environment, history
<1>16. ASSUME NEW w \in Workers, RepeatNode(w) PROVE TypeInv'
<2> DEFINE t == worker[w].task
           x == [worker[w] EXCEPT !.pc = At(ckpt[t].g), !.g = ckpt[t].g,
                                  !.second = TRUE, !.failure = "none"]
<2>1. /\ worker[w] \in WorkerState /\ WorkerOK(worker[w]) /\ t \in Tasks
      /\ worker[w].unsaved = <<>> /\ ckpt[t] # NoCkpt
  BY <1>16 DEF RepeatNode, Repeatable, TypeOK, WorkerInv, WorkerOK
<2>2. ckpt[t].g \in Sound
  BY <2>1 DEF SoundInv
<2>3. worker' = [worker EXCEPT ![w] = x]
  BY <1>16 DEF RepeatNode
<2>4. x.pc = At(x.g) /\ x.g = ckpt[t].g /\ x.task = t /\ x.unsaved = <<>>
  BY <2>1 DEF WorkerState
<2>5. x \in WorkerState
  BY <2>1, <2>2, SoundState DEF WorkerState, At, Failures
<2>6. WorkerOK(x)
<3> HIDE DEF x
<3> QED
  BY <2>1, <2>2, <2>4, BoundsAssumption DEF WorkerOK, At
<2>7. /\ worker' \in [Workers -> WorkerState]
      /\ \A v \in Workers : Len(worker'[v].unsaved) <= MaxUnsaved
      /\ WorkerInv'
<3> HIDE DEF x
<3> QED
  BY <1>5, <2>3, <2>5, <2>6
<2>8. QED
  BY <1>16, <2>7 DEF RepeatNode, TypeOK, SoundInv, rows, runs, environment, history
<1>17. ASSUME NEW w \in Workers, NEW s \in {"failed", "completed"},
              NEW d \in {"failed", "completed", "no_change"}, Settle(w, s, d)
       PROVE  TypeInv'
<2>1. worker' = [worker EXCEPT ![w] = Idle]
  BY <1>17 DEF Settle
<2>2. /\ worker' \in [Workers -> WorkerState]
      /\ \A v \in Workers : Len(worker'[v].unsaved) <= MaxUnsaved
      /\ WorkerInv'
  BY <1>5, <2>1, IdleType, IdleOK
<2>3. /\ status' \in [Tasks -> Statuses]
      /\ decision' \in [Tasks -> {"pending", "completed", "failed", "no_change"}]
<3>1. /\ status' = [status EXCEPT ![worker[w].task] = s]
      /\ decision' = [decision EXCEPT ![worker[w].task] = d]
  BY <1>17 DEF Settle
<3>2. QED
  BY <3>1 DEF TypeOK, Statuses
<2>4. QED
  BY <1>17, <2>2, <2>3 DEF Settle, TypeOK, SoundInv, runs, environment, history
<1>18. ASSUME NEW w \in Workers, FailTask(w) \/ OpenFails(w) \/ ConcludeTask(w) PROVE TypeInv'
<2>1. \E s \in {"failed", "completed"}, d \in {"failed", "completed", "no_change"} :
         Settle(w, s, d)
  BY <1>18 DEF FailTask, OpenFails, ConcludeTask
<2>2. QED
  BY <1>17, <2>1
<1>19. ASSUME NEW w \in Workers, WorkerStep(w) PROVE TypeInv'
  BY <1>9, <1>10, <1>11, <1>12, <1>13, <1>14, <1>15, <1>16, <1>18, <1>19 DEF WorkerStep
<1>20. ASSUME Crash PROVE TypeInv'
<2>1. \A w \in Workers : worker'[w] = Idle
  BY <1>20 DEF Crash
<2>2. WorkerInv' /\ \A w \in Workers : Len(worker'[w].unsaved) <= MaxUnsaved
  BY <2>1, IdleOK DEF WorkerInv, WorkerOK
<2>3. worker' \in [Workers -> WorkerState] /\ request' \in [Requests -> RequestState]
  BY <1>20, IdleType DEF Crash
<2>4. QED
  BY <1>20, <2>2, <2>3 DEF Crash, TypeOK, SoundInv, rows, runs, history
<1>21. ASSUME NEW runOf, NEW failOf \in [Tasks -> Failures], Recover(runOf, failOf)
       PROVE  /\ status' \in [Tasks -> Statuses]
              /\ decision' \in [Tasks -> {"pending", "completed", "failed", "no_change"}]
              /\ ckpt' \in [Tasks -> Checkpoint \cup {NoCkpt}] /\ SoundInv'
              /\ recovered' \in [Tasks -> Nat] /\ lastFail' \in [Tasks -> Failures]
              /\ open' \in [Tasks -> Int] /\ claimed' \in SUBSET Tasks
<2>1. status' \in [Tasks -> Statuses]
  BY <1>21 DEF Recover, TypeOK, Statuses
<2>2. decision' \in [Tasks -> {"pending", "completed", "failed", "no_change"}]
  BY <1>21 DEF Recover, TypeOK
<2>3. ASSUME NEW t \in Tasks
      PROVE  /\ ckpt'[t] \in Checkpoint \cup {NoCkpt}
             /\ ckpt'[t] # NoCkpt => ckpt[t] # NoCkpt /\ ckpt'[t].g = ckpt[t].g
<3>1. ckpt[t] # NoCkpt => /\ ckpt[t] \in Checkpoint
                          /\ [ckpt[t] EXCEPT !.auto = 1] \in Checkpoint
                          /\ [ckpt[t] EXCEPT !.auto = 1].g = ckpt[t].g
<4>1. ckpt[t] # NoCkpt => ckpt[t] \in Checkpoint
  BY DEF TypeOK
<4>2. QED
  BY <4>1 DEF Checkpoint
<3>2. \/ ckpt'[t] = NoCkpt
      \/ ckpt'[t] = ckpt[t]
      \/ ckpt[t] # NoCkpt /\ ckpt'[t] = [ckpt[t] EXCEPT !.auto = 1]
  BY <1>21 DEF Recover
<3>3. QED
  BY <3>1, <3>2
<2>4. ckpt' \in [Tasks -> Checkpoint \cup {NoCkpt}]
  BY <1>21, <2>3 DEF Recover
<2>5. SoundInv'
  BY <2>3 DEF SoundInv
<2>6. recovered' \in [Tasks -> Nat]
  BY <1>21 DEF Recover, TypeOK
<2>7. lastFail' \in [Tasks -> Failures]
  BY <1>21 DEF Recover, Failures
<2>8. open' \in [Tasks -> Int] /\ claimed' \in SUBSET Tasks
  BY <1>21 DEF Recover, Closed, TypeOK
<2>9. QED
  BY <2>1, <2>2, <2>4, <2>5, <2>6, <2>7, <2>8
<1>22. ASSUME Startup PROVE TypeInv'
<2>1. \E runOf : \E failOf \in [Tasks -> Failures] : Recover(runOf, failOf)
<3>1. CASE UNCHANGED <<upgrades, run>> /\ Recover(run, lastFail)
  BY <3>1 DEF TypeOK
<3>2. CASE Recover(run', [t \in Tasks |->
                            IF Recoverable(lastFail[t]) THEN "stale" ELSE lastFail[t]])
<4>1. [t \in Tasks |-> IF Recoverable(lastFail[t]) THEN "stale" ELSE lastFail[t]]
        \in [Tasks -> Failures]
  BY DEF TypeOK, Failures
<4>2. QED
  BY <3>2, <4>1
<3>3. QED
  BY <1>22, <3>1, <3>2 DEF Startup
<2>2. run' \in [Tasks -> {"none", "old", "current"}]
  BY <1>22 DEF Startup, TypeOK
<2>3. QED
  BY <1>21, <1>22, <2>1, <2>2 DEF Startup, TypeOK, WorkerInv
<1>23. CASE UNCHANGED vars
  BY <1>23 DEF vars, TypeOK, SoundInv, WorkerInv, rows, runs, environment, history
<1>24. QED
  BY <1>1, <1>2, <1>3, <1>4, <1>6, <1>7, <1>8, <1>19, <1>20, <1>22, <1>23
     DEF Next, RequestStep, BackgroundStep, RecoveryStep, Workers

(***************************************************************************)
(* The recovery counter.                                                   *)
(***************************************************************************)
LEMMA RecoveryPreserved == TypeInv /\ RecoveryInv /\ [Next]_vars => RecoveryInv'
<1> SUFFICES ASSUME TypeOK, WorkerInv, RecoveryInv, [Next]_vars PROVE RecoveryInv'
    BY DEF TypeInv
<1>1. CASE UNCHANGED <<ckpt, recovered>>
  BY <1>1 DEF RecoveryInv
<1>2. ASSUME NEW r \in Requests, CommitRetry(r) PROVE RecoveryInv'
<2> DEFINE t == request[r].task
<2>1. t \in Tasks
  BY <1>2 DEF CommitRetry, TypeOK, RequestState
<2>2. \/ UNCHANGED <<ckpt, recovered>>
      \/ /\ ckpt' = [ckpt EXCEPT ![t] = NoCkpt]
         /\ recovered' = [recovered EXCEPT ![t] = 0]
  BY <1>2, <2>1 DEF CommitRetry, TypeOK
<2>3. QED
  BY <1>1, <2>1, <2>2 DEF RecoveryInv, TypeOK
<1>3. ASSUME NEW w \in Workers, SaveCheckpoint(w) PROVE RecoveryInv'
<2> DEFINE t == worker[w].task
           c == Saved(t, Head(worker[w].unsaved))
<2>1. ckpt' = [ckpt EXCEPT ![t] = c] /\ recovered' = recovered
  BY <1>3 DEF SaveCheckpoint, history
<2>2. c # NoCkpt /\ c.auto = IF ckpt[t] = NoCkpt THEN 0 ELSE ckpt[t].auto
<3>1. \A g \in GraphState : t \in Tasks => Saved(t, g) \in Checkpoint
  BY DEF Saved, TypeOK, Checkpoint
<3>2. t \in Tasks /\ Head(worker[w].unsaved) \in GraphState
<4>1. WorkerOK(worker[w]) /\ worker[w] \in WorkerState /\ worker[w].unsaved # <<>>
  BY <1>3 DEF SaveCheckpoint, TypeOK, WorkerInv
<4>2. QED
  BY <4>1 DEF WorkerOK, WorkerState, Idle
<3>3. c.auto = IF ckpt[t] = NoCkpt THEN 0 ELSE ckpt[t].auto
  BY DEF Saved
<3>4. QED
  BY <3>1, <3>2, <3>3, NoCkptAssumption
<2>3. QED
<3> HIDE DEF c
<3> QED
  BY <2>1, <2>2 DEF RecoveryInv, TypeOK
<1>4. ASSUME NEW runOf, NEW failOf, Recover(runOf, failOf) PROVE RecoveryInv'
<2> SUFFICES ASSUME NEW t \in Tasks
             PROVE  IF ckpt'[t] = NoCkpt THEN recovered'[t] = 0
                    ELSE ckpt'[t].auto = recovered'[t] /\ recovered'[t] <= 1
    BY DEF RecoveryInv
<2>1. \/ ckpt'[t] = NoCkpt /\ recovered'[t] = 0
      \/ ckpt'[t] = ckpt[t] /\ recovered'[t] = recovered[t]
      \/ /\ ckpt[t] # NoCkpt /\ ckpt[t].auto = 0
         /\ ckpt'[t] = [ckpt[t] EXCEPT !.auto = 1] /\ recovered'[t] = recovered[t] + 1
  BY <1>4 DEF Recover
<2>2. ckpt[t] # NoCkpt => /\ ckpt[t] \in Checkpoint
                          /\ [ckpt[t] EXCEPT !.auto = 1] \in Checkpoint
                          /\ [ckpt[t] EXCEPT !.auto = 1].auto = 1
<3>1. ckpt[t] # NoCkpt => ckpt[t] \in Checkpoint
  BY DEF TypeOK
<3>2. QED
  BY <3>1 DEF Checkpoint
<2>3. IF ckpt[t] = NoCkpt THEN recovered[t] = 0
      ELSE ckpt[t].auto = recovered[t] /\ recovered[t] <= 1
  BY DEF RecoveryInv
<2>4. CASE /\ ckpt[t] # NoCkpt /\ ckpt[t].auto = 0
           /\ ckpt'[t] = [ckpt[t] EXCEPT !.auto = 1] /\ recovered'[t] = recovered[t] + 1
<3>1. ckpt'[t] # NoCkpt /\ ckpt'[t].auto = 1
  BY <2>2, <2>4, NoCkptAssumption
<3>2. recovered[t] = 0
  BY <2>3, <2>4
<3>3. QED
  BY <2>4, <3>1, <3>2
<2>5. QED
  BY <2>1, <2>3, <2>4
<1>5. ASSUME Startup PROVE RecoveryInv'
  BY <1>4, <1>5 DEF Startup
<1>6. ASSUME NEW w \in Workers, WorkerStep(w), ~SaveCheckpoint(w) PROVE RecoveryInv'
  BY <1>1, <1>6
     DEF WorkerStep, LoadFails, Load, Open, StartNode, FinishNode, FailNode, RepeatNode,
         FailTask, OpenFails, ConcludeTask, Settle, rows, history
<1>7. ASSUME NEW w \in Workers, NEW t \in Tasks, Invoke(w, t) PROVE RecoveryInv'
  BY <1>1, <1>7 DEF Invoke, history
<1>8. QED
  BY <1>1, <1>2, <1>3, <1>5, <1>6, <1>7
     DEF Next, RequestStep, CreateTask, ReadRetry, ReadRetryOf, CommitSuccessor,
         BackgroundStep, BackgroundInvoke, RecoveryStep, RecoveryInvoke, Crash, Workers,
         vars, rows, history

(***************************************************************************)
(* A crash loses everything that is under way.                             *)
(***************************************************************************)
LEMMA DownPreserved == TypeInv /\ DownInv /\ [Next]_vars => DownInv'
<1> SUFFICES ASSUME TypeOK, WorkerInv, DownInv, [Next]_vars PROVE DownInv'
    BY DEF TypeInv
<1>1. CASE Crash
  BY <1>1 DEF Crash, DownInv
<1>2. CASE Startup
  BY <1>2 DEF Startup, DownInv
<1>3. CASE up /\ UNCHANGED up
  BY <1>3 DEF DownInv
<1>4. ASSUME NEW w \in Workers, WorkerStep(w) PROVE up /\ UNCHANGED up
<2>1. worker[w].pc # "idle" \/ worker[w].unsaved # <<>>
  BY <1>4 DEF WorkerStep, LoadFails, Load, Open, StartNode, FinishNode, FailNode,
              SaveCheckpoint, RepeatNode, FailTask, OpenFails, ConcludeTask
<2>2. up
  BY <2>1 DEF DownInv, Idle
<2>3. UNCHANGED up
  BY <1>4 DEF WorkerStep, LoadFails, Load, Open, StartNode, FinishNode, FailNode,
              SaveCheckpoint, RepeatNode, FailTask, OpenFails, ConcludeTask, Settle
<2>4. QED
  BY <2>2, <2>3
<1>5. CASE UNCHANGED vars
  BY <1>5 DEF vars, DownInv
<1>6. ASSUME NEW w \in Workers, NEW t \in Tasks, Invoke(w, t) PROVE UNCHANGED up
  BY <1>6 DEF Invoke
<1>7. QED
  BY <1>1, <1>2, <1>3, <1>4, <1>5, <1>6
     DEF Next, RequestStep, CreateTask, ReadRetry, ReadRetryOf, CommitSuccessor, CommitRetry,
         BackgroundStep, BackgroundInvoke, RecoveryStep, RecoveryInvoke, Workers

LEMMA RacedStays == ASSUME TypeOK, [Next]_vars, NEW t \in Tasks PROVE raced[t] => raced'[t]
<1>1. ASSUME NEW r \in Requests, CommitRetry(r) PROVE raced[t] => raced'[t]
  BY <1>1 DEF CommitRetry, TypeOK
<1>2. ASSUME NEW w \in Workers, WorkerStep(w) PROVE UNCHANGED raced
  BY <1>2 DEF WorkerStep, LoadFails, Load, Open, StartNode, FinishNode, FailNode,
              SaveCheckpoint, RepeatNode, FailTask, OpenFails, ConcludeTask, Settle, history
<1>3. ASSUME NEW w \in Workers, NEW u \in Tasks, Invoke(w, u) PROVE UNCHANGED raced
  BY <1>3 DEF Invoke, history
<1>4. QED
  BY <1>1, <1>2, <1>3
     DEF Next, RequestStep, CreateTask, ReadRetry, ReadRetryOf, CommitSuccessor, Crash,
         BackgroundStep, BackgroundInvoke, RecoveryStep, RecoveryInvoke, Workers, Startup,
         vars, history

\* A step of a worker changes no other worker, and its task only to give it up.
LEMMA StepFrame ==
  ASSUME TypeOK, WorkerInv, NEW w \in Workers, WorkerStep(w)
  PROVE  /\ worker[w].task \in Tasks
         /\ \A v \in Workers : v # w => worker'[v] = worker[v]
         /\ worker'[w].task = worker[w].task \/ worker'[w] = Idle
<1>1. WorkerOK(worker[w]) /\ worker[w] \in WorkerState
  BY DEF WorkerInv, TypeOK
<1>2. worker[w].pc # "idle" \/ worker[w].unsaved # <<>>
  BY DEF WorkerStep, LoadFails, Load, Open, StartNode, FinishNode, FailNode,
         SaveCheckpoint, RepeatNode, FailTask, OpenFails, ConcludeTask
<1>3. worker[w].task \in Tasks
  BY <1>1, <1>2 DEF WorkerOK, Idle
<1>4. CASE Load(w) \/ StartNode(w)
  BY <1>1, <1>3, <1>4 DEF Load, StartNode, TypeOK, WorkerState
<1>5. CASE Open(w)
  BY <1>1, <1>3, <1>5 DEF Open, TypeOK, WorkerState
<1>6. CASE FinishNode(w)
  BY <1>1, <1>3, <1>6 DEF FinishNode, TypeOK, WorkerState
<1>7. CASE FailNode(w)
  BY <1>1, <1>3, <1>7 DEF FailNode, TypeOK, WorkerState
<1>8. CASE SaveCheckpoint(w)
  BY <1>1, <1>3, <1>8 DEF SaveCheckpoint, TypeOK, WorkerState
<1>9. CASE RepeatNode(w)
  BY <1>1, <1>3, <1>9 DEF RepeatNode, TypeOK, WorkerState
<1>10. CASE LoadFails(w)
  BY <1>3, <1>10 DEF LoadFails, TypeOK
<1>11. ASSUME NEW s, NEW d, Settle(w, s, d)
       PROVE  worker'[w] = Idle /\ \A v \in Workers : v # w => worker'[v] = worker[v]
  BY <1>11 DEF Settle, TypeOK
<1>12. QED
  BY <1>3, <1>4, <1>5, <1>6, <1>7, <1>8, <1>9, <1>10, <1>11
     DEF WorkerStep, FailTask, OpenFails, ConcludeTask

(***************************************************************************)
(* One invocation.                                                         *)
(***************************************************************************)
Invoked(t) ==
    /\ sched[t] \in 0 .. 1
    /\ sched[t] = 1 => t \notin claimed
    /\ sched[t] = 1 \/ t \in claimed => status[t] \in {"pending", "retry_pending"}
    /\ \A w \in Workers : On(w, t) => status[t] = "running"
    /\ \A v, w \in Workers : On(v, t) /\ On(w, t) => v = w
    /\ \A r \in Requests :
          request[r].task = t /\ ~request[r].overtaken => status[t] = "failed"

LEMMA InvokedUnchanged ==
  ASSUME NEW t \in Tasks, Invoked(t), status'[t] = status[t], sched'[t] = sched[t],
         t \in claimed' => t \in claimed,
         \A w \in Workers : On(w, t)' => On(w, t),
         \A r \in Requests : request'[r].task = t /\ ~request'[r].overtaken =>
                                request[r].task = t /\ ~request[r].overtaken
  PROVE  Invoked(t)'
  BY DEF Invoked, On

LEMMA InvokedByRecovery ==
  ASSUME NEW t \in Tasks, sched'[t] = 0, t \in claimed' => status'[t] = "retry_pending",
         \A w \in Workers : worker'[w].task # t, \A r \in Requests : request'[r].task # t
  PROVE  Invoked(t)'
  BY DEF Invoked, On

LEMMA InvocationPreserved ==
    TypeInv /\ DownInv /\ InvocationInv /\ [Next]_vars => InvocationInv'
<1> SUFFICES ASSUME TypeOK, WorkerInv, DownInv, [Next]_vars,
                    \A t \in Tasks : ~raced[t] => Invoked(t),
                    NEW t \in Tasks, ~raced'[t]
             PROVE  Invoked(t)'
    BY DEF TypeInv, InvocationInv, Invoked
<1>1. raced[t] = FALSE /\ Invoked(t)
<2>1. raced[t] => raced'[t]
  BY RacedStays
<2>2. QED
  BY <2>1 DEF TypeOK
<1>2. ASSUME NEW u \in Tasks, CreateTask(u) PROVE Invoked(t)'
<2>1. CASE u = t
  BY <1>1, <1>2, <2>1 DEF CreateTask, Invoked, On, TypeOK
<2>2. CASE u # t
  BY <1>1, <1>2, <2>2, InvokedUnchanged DEF CreateTask, TypeOK, On
<2>3. QED
  BY <2>1, <2>2
<1>3. ASSUME NEW r \in Requests, NEW u \in Tasks, ReadRetry(r, u) PROVE Invoked(t)'
  BY <1>1, <1>3 DEF ReadRetry, ReadRetryOf, Invoked, On, TypeOK, rows
<1>4. ASSUME NEW r \in Requests, CommitSuccessor(r) PROVE Invoked(t)'
<2>1. PICK s \in Tasks : /\ status[s] = "absent"
                         /\ status' = [status EXCEPT ![s] = "pending"]
                         /\ sched' = [sched EXCEPT ![s] = @ + 1]
  BY <1>4 DEF CommitSuccessor
<2>2. \A q \in Requests : request'[q].task = t => request'[q] = request[q]
  BY <1>4, NoTaskAssumption DEF CommitSuccessor, TypeOK, NoRequest
<2>3. CASE s = t
  BY <1>1, <1>4, <2>1, <2>2, <2>3 DEF CommitSuccessor, Invoked, On, TypeOK
<2>4. CASE s # t
  BY <1>1, <1>4, <2>1, <2>2, <2>4, InvokedUnchanged DEF CommitSuccessor, TypeOK, On
<2>5. QED
  BY <2>3, <2>4
\* A retry that was overtaken finds the task as it read it, or has raced.
<1>5. ASSUME NEW r \in Requests, CommitRetry(r) PROVE Invoked(t)'
<2> DEFINE u == request[r].task
<2>1. u \in Tasks /\ status' = [status EXCEPT ![u] = "retry_pending"]
      /\ sched' = [sched EXCEPT ![u] = @ + 1] /\ UNCHANGED <<claimed, worker>>
  BY <1>5 DEF CommitRetry, TypeOK, RequestState
<2>2. \A q \in Requests : request'[q].task = t /\ ~request'[q].overtaken =>
         q # r /\ request'[q] = request[q] /\ u # t
<3>1. \A q \in Requests : request[q] \in RequestState
  BY DEF TypeOK
<3>2. QED
  BY <1>5, <3>1, NoTaskAssumption DEF CommitRetry, NoRequest, RequestState
<2>3. CASE u = t
<3>1. status[t] = "failed"
<4>1. raced' = [raced EXCEPT ![t] = @ \/ (request[r].overtaken /\ status[t] # "failed")]
  BY <1>5, <2>3 DEF CommitRetry
<4>2. ~request[r].overtaken \/ status[t] = "failed"
  BY <4>1 DEF TypeOK
<4>3. QED
  BY <1>1, <2>3, <4>2 DEF Invoked
<3>2. QED
  BY <1>1, <2>1, <2>2, <2>3, <3>1 DEF Invoked, On, TypeOK
<2>4. CASE u # t
  BY <1>1, <2>1, <2>2, <2>4, InvokedUnchanged DEF TypeOK, On
<2>5. QED
  BY <2>3, <2>4
<1>6. ASSUME NEW w \in Workers, worker[w] = Idle, NEW u \in Tasks,
             \/ worker'[w] = worker[w] /\ UNCHANGED status
             \/ worker'[w].task = u /\ status' = [status EXCEPT ![u] = "running"],
             \A v \in Workers : v # w => worker'[v] = worker[v],
             \/ sched' = [sched EXCEPT ![u] = @ - 1] /\ UNCHANGED claimed /\ sched[u] > 0
             \/ claimed' = claimed \ {u} /\ UNCHANGED sched /\ u \in claimed,
             UNCHANGED request
      PROVE  Invoked(t)'
<2>1. ~On(w, t) /\ worker[w].task = NoTask
  BY <1>6, NoTaskAssumption DEF On, Idle
<2>2. CASE u = t
<3>1. \A v \in Workers : ~On(v, t)
  BY <1>1, <1>6, <2>2 DEF Invoked, TypeOK
<3>2. \A r \in Requests : request[r].task = t => request[r].overtaken
  BY <1>1, <1>6, <2>2 DEF Invoked, TypeOK
<3>3. sched'[t] = 0 /\ t \notin claimed'
  BY <1>1, <1>6, <2>2 DEF Invoked, TypeOK
<3>4. \A v \in Workers : v # w => ~On(v, t)'
  BY <1>6, <3>1 DEF On
<3>5. On(w, t)' => status'[t] = "running"
  BY <1>6, <2>1, <2>2 DEF On, TypeOK
<3>6. QED
  BY <1>6, <3>2, <3>3, <3>4, <3>5 DEF Invoked, On
<2>3. CASE u # t
<3>1. status'[t] = status[t] /\ sched'[t] = sched[t] /\ (t \in claimed' => t \in claimed)
  BY <1>6, <2>3 DEF TypeOK
<3>2. \A v \in Workers : On(v, t)' => On(v, t)
  BY <1>6, <2>1, <2>3 DEF On
<3>3. QED
  BY <1>1, <1>6, <3>1, <3>2, InvokedUnchanged
<2>4. QED
  BY <2>2, <2>3
<1>7. ASSUME NEW w \in Workers, NEW u \in Tasks, Invoke(w, u),
             \/ sched' = [sched EXCEPT ![u] = @ - 1] /\ UNCHANGED claimed /\ sched[u] > 0
             \/ claimed' = claimed \ {u} /\ UNCHANGED sched /\ u \in claimed
      PROVE  Invoked(t)'
<2>1. worker[w] = Idle /\ UNCHANGED request
  BY <1>7 DEF Invoke
<2>2. CASE Unsettled(u)
<3>1. worker'[w].task = u
  BY <1>7, <2>2 DEF Invoke, TypeOK, WorkerState
<3>2. /\ status' = [status EXCEPT ![u] = "running"]
      /\ \A v \in Workers : v # w => worker'[v] = worker[v]
  BY <1>7, <2>2 DEF Invoke, TypeOK
<3>3. QED
  BY <1>6, <1>7, <2>1, <3>1, <3>2
<2>3. CASE ~Unsettled(u)
<3>1. UNCHANGED <<worker, status>>
  BY <1>7, <2>3 DEF Invoke
<3>2. QED
<4>1. /\ \A v \in Workers : v # w => worker'[v] = worker[v]
      /\ worker'[w] = worker[w] /\ UNCHANGED status /\ UNCHANGED request
  BY <2>1, <3>1
<4>2. QED
  BY <1>6, <1>7, <2>1, <4>1
<2>4. QED
  BY <2>2, <2>3
<1>8. ASSUME NEW w \in Slots, NEW u \in Tasks, BackgroundInvoke(w, u) PROVE Invoked(t)'
  BY <1>7, <1>8 DEF BackgroundInvoke, Workers
<1>9. ASSUME NEW u \in Tasks, RecoveryInvoke(u) PROVE Invoked(t)'
  BY <1>7, <1>9 DEF RecoveryInvoke, Workers
\* The other steps of a worker keep its task or leave it.
<1>10. ASSUME NEW w \in Workers, worker[w].task \in Tasks,
              \A v \in Workers : v # w => worker'[v] = worker[v],
              \/ worker'[w].task = worker[w].task /\ UNCHANGED status
              \/ /\ worker'[w].task = NoTask
                 /\ \/ UNCHANGED status
                    \/ \E s \in Statuses : status' = [status EXCEPT ![worker[w].task] = s],
              UNCHANGED <<sched, request>>, claimed' \subseteq claimed
       PROVE  Invoked(t)'
<2>1. \A v \in Workers : On(v, t)' => On(v, t)
  BY <1>10, NoTaskAssumption DEF On
<2>2. CASE status'[t] = status[t]
  BY <1>1, <1>10, <2>1, <2>2, InvokedUnchanged
<2>3. CASE status'[t] # status[t]
<3>1. worker[w].task = t /\ worker'[w].task = NoTask
  BY <1>10, <2>3 DEF TypeOK
<3>2. status[t] = "running" /\ \A v \in Workers : ~On(v, t)'
  BY <1>1, <1>10, <3>1, NoTaskAssumption DEF Invoked, On
<3>3. sched[t] = 0 /\ t \notin claimed
  BY <1>1, <3>2 DEF Invoked
<3>4. QED
  BY <1>1, <1>10, <3>2, <3>3 DEF Invoked
<2>4. QED
  BY <2>2, <2>3
<1>11. ASSUME NEW w \in Workers, WorkerStep(w) PROVE Invoked(t)'
<2>1. worker[w].task \in Tasks
  BY <1>11, StepFrame
<2>2. CASE Load(w) \/ Open(w) \/ StartNode(w) \/ FinishNode(w) \/ FailNode(w)
           \/ SaveCheckpoint(w) \/ RepeatNode(w)
<3>1. UNCHANGED <<status, sched, claimed, request>>
  BY <2>2 DEF Load, Open, StartNode, FinishNode, FailNode, SaveCheckpoint, RepeatNode, rows
<3>2. worker'[w].task = worker[w].task \/ worker'[w].task = NoTask
  BY <1>11, StepFrame DEF Idle
<3>3. QED
  BY <1>10, <1>11, <3>1, <3>2, StepFrame
<2>3. ASSUME \/ LoadFails(w)
             \/ \E s \in {"failed", "completed"}, d \in {"failed", "completed", "no_change"} :
                   Settle(w, s, d)
      PROVE  Invoked(t)'
<3>1. worker' = [worker EXCEPT ![w] = Idle] /\ UNCHANGED <<sched, request>>
  BY <2>3 DEF LoadFails, Settle
<3>2. /\ \A v \in Workers : v # w => worker'[v] = worker[v]
      /\ worker'[w].task = NoTask
  BY <3>1 DEF TypeOK, Idle
<3>4. /\ claimed' \subseteq claimed
      /\ \/ UNCHANGED status
         \/ \E s \in Statuses : status' = [status EXCEPT ![worker[w].task] = s]
  BY <2>3 DEF LoadFails, Settle, rows, Statuses
<3>5. QED
  BY <1>10, <2>1, <3>1, <3>2, <3>4
<2>4. CASE FailTask(w) \/ OpenFails(w) \/ ConcludeTask(w)
  BY <2>3, <2>4 DEF FailTask, OpenFails, ConcludeTask
<2>5. QED
  BY <1>11, <2>2, <2>3, <2>4 DEF WorkerStep
<1>12. CASE Crash
<2>1. /\ sched'[t] = 0 /\ claimed' = {}
      /\ \A w \in Workers : worker'[w].task # t
      /\ \A r \in Requests : request'[r].task # t
  BY <1>12, NoTaskAssumption DEF Crash, Idle, NoRequest
<2>2. QED
  BY <2>1, InvokedByRecovery
<1>13. ASSUME NEW runOf, NEW failOf, Recover(runOf, failOf)
       PROVE  t \in claimed' => status'[t] = "retry_pending"
  BY <1>13 DEF Recover
<1>14. CASE Startup
<2>1. t \in claimed' => status'[t] = "retry_pending"
  BY <1>13, <1>14 DEF Startup
<2>2. /\ sched'[t] = 0
      /\ \A w \in Workers : worker'[w].task # t
      /\ \A r \in Requests : request'[r].task # t
  BY <1>14, NoTaskAssumption DEF Startup, DownInv, Idle, NoRequest
<2>3. QED
  BY <2>1, <2>2, InvokedByRecovery
<1>15. CASE UNCHANGED vars
  BY <1>1, <1>15, InvokedUnchanged DEF vars, rows, On
<1>16. QED
  BY <1>2, <1>3, <1>4, <1>5, <1>8, <1>9, <1>11, <1>12, <1>14, <1>15
     DEF Next, RequestStep, BackgroundStep, RecoveryStep, Workers

(***************************************************************************)
(* Open runs.                                                              *)
(***************************************************************************)
NodeOf(w, t) == On(w, t) /\ worker[w].pc = "node"

RunOK(t) ==
    /\ up => open[t] = IF \E w \in Workers : NodeOf(w, t) THEN 1 ELSE 0
    /\ ~up /\ open[t] # 0 => status[t] \in Interrupted

LEMMA RunUnchanged ==
  ASSUME NEW t \in Tasks, RunOK(t), up' = up, up, open'[t] = open[t],
         \A w \in Workers : NodeOf(w, t)' <=> NodeOf(w, t)
  PROVE  RunOK(t)'
  BY DEF RunOK

LEMMA RunPreserved ==
    TypeInv /\ DownInv /\ InvocationInv /\ RunInv /\ [Next]_vars => RunInv'
<1> SUFFICES ASSUME TypeOK, WorkerInv, DownInv, [Next]_vars,
                    NEW t \in Tasks, ~raced[t], Invoked(t), RunOK(t)
             PROVE  RunOK(t)'
<2>1. ASSUME TypeInv, DownInv, InvocationInv, RunInv, [Next]_vars, NEW t \in Tasks, ~raced'[t]
      PROVE  ~raced[t] /\ Invoked(t) /\ RunOK(t)
<3>1. ~raced[t]
  BY <2>1, RacedStays DEF TypeInv
<3>2. QED
  BY <2>1, <3>1 DEF InvocationInv, Invoked, RunInv, RunOK, InNode, NodeOf
<2>2. QED
  BY <2>1 DEF TypeInv, RunInv, RunOK, InNode, NodeOf
<1>1. CASE up /\ UNCHANGED <<up, open, worker>>
  BY <1>1, RunUnchanged DEF NodeOf, On
<1>2. ASSUME NEW w \in Workers, NEW u \in Tasks, Invoke(w, u), up PROVE RunOK(t)'
<2>1. worker[w].pc = "idle" /\ worker'[w].pc # "node"
      /\ \A v \in Workers : v # w => worker'[v] = worker[v]
  BY <1>2 DEF Invoke, Idle, TypeOK, WorkerState
<2>2. \A v \in Workers : NodeOf(v, t)' <=> NodeOf(v, t)
  BY <2>1 DEF NodeOf, On
<2>3. QED
  BY <1>2, <2>2, RunUnchanged DEF Invoke, runs
<1>3. ASSUME NEW w \in Workers, WorkerStep(w) PROVE RunOK(t)'
<2> DEFINE u == worker[w].task
<2>1. /\ up /\ UNCHANGED up
      /\ u \in Tasks /\ \A v \in Workers : v # w => worker'[v] = worker[v]
<3>1. worker[w].pc # "idle" \/ worker[w].unsaved # <<>>
  BY <1>3 DEF WorkerStep, LoadFails, Load, Open, StartNode, FinishNode, FailNode,
              SaveCheckpoint, RepeatNode, FailTask, OpenFails, ConcludeTask
<3>2. up
  BY <3>1 DEF DownInv, Idle
<3>3. UNCHANGED up
  BY <1>3 DEF WorkerStep, LoadFails, Load, Open, StartNode, FinishNode, FailNode,
              SaveCheckpoint, RepeatNode, FailTask, OpenFails, ConcludeTask, Settle
<3>4. QED
  BY <1>3, <3>2, <3>3, StepFrame
<2>2. \A v \in Workers : v # w => (NodeOf(v, t)' <=> NodeOf(v, t))
  BY <2>1 DEF NodeOf, On
<2>3. CASE UNCHANGED open /\ (worker[w].pc = "node" <=> worker'[w].pc = "node")
           /\ (worker[w].pc = "node" => worker'[w].task = u)
  BY <2>1, <2>2, <2>3, RunUnchanged DEF NodeOf, On
<2>4. worker[w] \in WorkerState
  BY DEF TypeOK
<2>5. CASE StartNode(w)
<3>1. worker[w].pc = "between" /\ worker'[w].pc = "node" /\ worker'[w].task = u
      /\ open' = [open EXCEPT ![u] = @ + 1]
  BY <2>4, <2>5 DEF StartNode, TypeOK, WorkerState
<3>2. CASE u = t
<4>1. \A v \in Workers : ~NodeOf(v, t)
  BY <3>1, <3>2 DEF Invoked, NodeOf, On
<4>2. NodeOf(w, t)' /\ open[t] = 0
  BY <2>1, <3>1, <3>2, <4>1 DEF NodeOf, On, RunOK
<4>3. open'[t] = 1
  BY <3>1, <3>2, <4>2 DEF TypeOK
<4>4. QED
  BY <2>1, <4>2, <4>3 DEF RunOK
<3>3. CASE u # t
<4>1. ~NodeOf(w, t) /\ ~NodeOf(w, t)' /\ open'[t] = open[t]
  BY <3>1, <3>3 DEF NodeOf, On, TypeOK
<4>2. QED
  BY <2>1, <2>2, <4>1, RunUnchanged
<3>4. QED
  BY <3>2, <3>3
<2>6. CASE FinishNode(w) \/ FailNode(w)
<3>1. worker[w].pc = "node" /\ worker'[w].pc # "node" /\ open' = [open EXCEPT ![u] = @ - 1]
<4>1. CASE FinishNode(w)
  BY <2>4, <4>1 DEF FinishNode, At, TypeOK, WorkerState
<4>2. CASE FailNode(w)
  BY <2>4, <4>2 DEF FailNode, TypeOK, WorkerState
<4>3. QED
  BY <2>6, <4>1, <4>2
<3>2. CASE u = t
<4>1. NodeOf(w, t) /\ \A v \in Workers : v # w => ~NodeOf(v, t)
  BY <3>1, <3>2 DEF Invoked, NodeOf, On
<4>2. open[t] = 1 /\ \A v \in Workers : ~NodeOf(v, t)'
  BY <2>1, <2>2, <3>1, <4>1 DEF RunOK, NodeOf
<4>3. open'[t] = 0
  BY <3>1, <3>2, <4>2 DEF TypeOK
<4>4. QED
  BY <2>1, <4>2, <4>3 DEF RunOK
<3>3. CASE u # t
<4>1. ~NodeOf(w, t) /\ ~NodeOf(w, t)' /\ open'[t] = open[t]
  BY <3>1, <3>3 DEF NodeOf, On, TypeOK
<4>2. QED
  BY <2>1, <2>2, <4>1, RunUnchanged
<3>4. QED
  BY <3>2, <3>3
<2>7. CASE Load(w) \/ LoadFails(w)
  BY <2>3, <2>4, <2>7 DEF Load, LoadFails, TypeOK, WorkerState, Idle, runs
<2>8. CASE Open(w)
  BY <2>3, <2>4, <2>8 DEF Open, At, TypeOK, WorkerState, runs
<2>9. CASE SaveCheckpoint(w)
  BY <2>3, <2>4, <2>9 DEF SaveCheckpoint, TypeOK, WorkerState, runs
<2>10. CASE RepeatNode(w)
  BY <2>3, <2>4, <2>10 DEF RepeatNode, At, TypeOK, WorkerState, runs
<2>11. CASE FailTask(w) \/ OpenFails(w) \/ ConcludeTask(w)
<3>1. worker[w].pc # "node" /\ worker' = [worker EXCEPT ![w] = Idle] /\ UNCHANGED open
  BY <2>11 DEF FailTask, OpenFails, ConcludeTask, Settle, runs
<3>2. QED
  BY <2>3, <3>1 DEF TypeOK, Idle
<2>12. QED
  BY <1>3, <2>5, <2>6, <2>7, <2>8, <2>9, <2>10, <2>11 DEF WorkerStep
<1>4. CASE Crash
<2>1. up /\ ~up' /\ UNCHANGED <<open, status>>
  BY <1>4 DEF Crash, rows, runs
<2>2. open[t] # 0 => status[t] = "running"
  BY <2>1 DEF RunOK, NodeOf, Invoked
<2>3. QED
  BY <2>1, <2>2 DEF RunOK, Interrupted
<1>5. CASE Startup
<2>1. ~up /\ up' /\ UNCHANGED worker
  BY <1>5 DEF Startup
<2>2. \A w \in Workers : ~NodeOf(w, t)'
  BY <2>1 DEF DownInv, Idle, NodeOf
<2>3. ASSUME NEW runOf, NEW failOf, Recover(runOf, failOf) PROVE open'[t] = 0
  BY <2>1, <2>3 DEF Recover, Closed, RunOK
<2>4. open'[t] = 0
  BY <1>5, <2>3 DEF Startup
<2>5. QED
  BY <2>1, <2>2, <2>4 DEF RunOK
<1>6. CASE UNCHANGED vars
  BY <1>6 DEF vars, rows, runs, RunOK, NodeOf, On
<1>7. QED
  BY <1>1, <1>2, <1>3, <1>4, <1>5, <1>6
     DEF Next, RequestStep, CreateTask, ReadRetry, ReadRetryOf, CommitSuccessor, CommitRetry,
         BackgroundStep, BackgroundInvoke, RecoveryStep, RecoveryInvoke, Workers, runs

(***************************************************************************)
(* The checkpoint stays behind the rows.                                   *)
(***************************************************************************)
LEMMA EndPublished ==
  ASSUME NEW g \in Sound, g.node # "end", NEW next \in After(g), NEW b, Done(next)
  PROVE  Persisted(g, b) = "published"
<1>1. g \in GraphState
  BY DEF Sound
<1>2. next.node = "end" /\ next.verdict = "completed"
  BY DEF Done
<1>3. g.node = "finalize" /\ g.verdict = "completed"
<2>1. CASE g.node = "prepare"
<3>1. next.node # "end"
  BY <1>1, <2>1 DEF After, GraphState
<3>2. QED
  BY <1>2, <3>1
<2>2. CASE g.node = "produce"
<3>1. PICK v : next = [g EXCEPT !.node = "finalize", !.verdict = v]
  BY <1>1, <2>2 DEF After, GraphState
<3>2. next.node = "finalize"
  BY <1>1, <3>1 DEF GraphState
<3>3. QED
  BY <1>2, <3>2
<2>3. CASE g.node = "finalize"
<3>1. CASE g.verdict = "revision_required"
  BY <1>2, <2>3, <3>1 DEF After
<3>2. CASE g.verdict # "revision_required"
<4>1. next = [g EXCEPT !.node = "end"]
  BY <2>3, <3>2 DEF After
<4>2. QED
  BY <1>1, <1>2, <2>3, <4>1 DEF GraphState
<3>3. QED
  BY <3>1, <3>2
<2>4. QED
  BY <1>1, <2>1, <2>2, <2>3 DEF GraphState
<1>4. QED
  BY <1>3 DEF Persisted

\* A step of thread w, which alone may run task t if rows of t change.
LEMMA CkptStep ==
  ASSUME NEW t \in Tasks, NEW w \in Workers, CkptOK(t),
         (status'[t] = status[t] /\ ckpt'[t] = ckpt[t])
            \/ status'[t] \notin {"absent", "pending"},
         ckpt'[t] # NoCkpt /\ Done(ckpt'[t].g) => resources'[t] = "published",
         \A v \in Workers : v # w => worker'[v] = worker[v],
         (ckpt'[t] = ckpt[t] /\ resources'[t] = resources[t])
            \/ \A v \in Workers : v # w => ~On(v, t),
         On(w, t)' => Holds(worker'[w], ckpt'[t], resources'[t])
  PROVE  CkptOK(t)'
<1>1. ASSUME NEW v \in Workers, On(v, t)' PROVE Holds(worker'[v], ckpt'[t], resources'[t])
<2>1. CASE v = w
  BY <1>1, <2>1
<2>2. CASE v # w
<3>1. On(v, t) /\ worker'[v] = worker[v] /\ ckpt'[t] = ckpt[t] /\ resources'[t] = resources[t]
  BY <1>1, <2>2 DEF On
<3>2. QED
  BY <3>1 DEF CkptOK
<2>3. QED
  BY <2>1, <2>2
<1>2. status'[t] \in {"absent", "pending"} => ckpt'[t] = NoCkpt
  BY DEF CkptOK
<1>3. (\A v \in Workers : On(v, t) => Holds(worker[v], ckpt[t], resources[t]))'
  BY <1>1
<1>4. QED
  BY <1>2, <1>3 DEF CkptOK

\* A step outside the threads.
LEMMA CkptRows ==
  ASSUME NEW t \in Tasks, CkptOK(t), UNCHANGED worker, resources'[t] = resources[t],
         ckpt'[t] = ckpt[t] \/ ckpt'[t] = NoCkpt,
         status'[t] = status[t] \/ status'[t] \notin {"absent", "pending"}
            \/ ckpt[t] = NoCkpt
  PROVE  CkptOK(t)'
<1>1. ASSUME NEW v \in Workers, On(v, t)' PROVE Holds(worker'[v], ckpt'[t], resources'[t])
<2>1. On(v, t) /\ worker'[v] = worker[v]
  BY <1>1 DEF On
<2>2. Holds(worker[v], ckpt[t], resources[t])
  BY <2>1 DEF CkptOK
<2>3. QED
  BY <2>1, <2>2 DEF Holds
<1>2. (\A v \in Workers : On(v, t) => Holds(worker[v], ckpt[t], resources[t]))'
  BY <1>1
<1>3. QED
  BY <1>2 DEF CkptOK

\* A step after which no thread runs the task.
LEMMA CkptIdle ==
  ASSUME NEW t \in Tasks, CkptOK(t), resources'[t] = resources[t],
         ckpt'[t] # NoCkpt => ckpt[t] # NoCkpt /\ ckpt'[t].g = ckpt[t].g,
         status'[t] \in {"absent", "pending"} =>
            status'[t] = status[t] /\ ckpt'[t] = ckpt[t],
         \A v \in Workers : ~On(v, t)'
  PROVE  CkptOK(t)'
<1>1. (\A v \in Workers : On(v, t) => Holds(worker[v], ckpt[t], resources[t]))'
  OBVIOUS
<1>2. ckpt'[t] # NoCkpt /\ Done(ckpt'[t].g) => resources'[t] = "published"
  BY DEF CkptOK, Done
<1>3. status'[t] \in {"absent", "pending"} => ckpt'[t] = NoCkpt
  BY DEF CkptOK
<1>4. QED
  BY <1>1, <1>2, <1>3 DEF CkptOK

LEMMA CheckpointPreserved ==
    TypeInv /\ DownInv /\ InvocationInv /\ CheckpointInv /\ [Next]_vars => CheckpointInv'
<1> SUFFICES ASSUME TypeOK, SoundInv, WorkerInv, DownInv, [Next]_vars,
                    NEW t \in Tasks, ~raced[t], Invoked(t), CkptOK(t)
             PROVE  CkptOK(t)'
<2>1. ASSUME TypeInv, DownInv, InvocationInv, CheckpointInv, [Next]_vars,
             NEW t \in Tasks, ~raced'[t]
      PROVE  ~raced[t] /\ Invoked(t) /\ CkptOK(t)
<3>1. ~raced[t]
  BY <2>1, RacedStays DEF TypeInv
<3>2. QED
  BY <2>1, <3>1 DEF InvocationInv, Invoked, CheckpointInv
<2>2. QED
  BY <2>1 DEF TypeInv, CheckpointInv
<1> DEFINE b == resources[t]
           c == ckpt[t]
<1>1. ASSUME NEW u \in Tasks, CreateTask(u) PROVE CkptOK(t)'
<2>1. status'[t] = status[t] \/ ckpt[t] = NoCkpt
  BY <1>1 DEF CreateTask, TypeOK, CkptOK
<2>2. QED
  BY <1>1, <2>1, CkptRows DEF CreateTask
<1>2. ASSUME NEW r \in Requests, NEW u \in Tasks, ReadRetry(r, u) PROVE CkptOK(t)'
  BY <1>2, CkptRows DEF ReadRetry, ReadRetryOf, rows
<1>3. ASSUME NEW r \in Requests, CommitSuccessor(r) PROVE CkptOK(t)'
<2>1. status'[t] = status[t] \/ ckpt[t] = NoCkpt
  BY <1>3 DEF CommitSuccessor, TypeOK, CkptOK
<2>2. QED
  BY <1>3, <2>1, CkptRows DEF CommitSuccessor
<1>4. ASSUME NEW r \in Requests, CommitRetry(r) PROVE CkptOK(t)'
<2> DEFINE u == request[r].task
<2>1. status' = [status EXCEPT ![u] = "retry_pending"] /\ UNCHANGED <<worker, resources>>
  BY <1>4 DEF CommitRetry
<2>2. ckpt'[t] = ckpt[t] \/ ckpt'[t] = NoCkpt
  BY <1>4 DEF CommitRetry, TypeOK
<2>3. status'[t] = status[t] \/ status'[t] \notin {"absent", "pending"}
  BY <2>1 DEF TypeOK
<2>4. QED
  BY <2>1, <2>2, <2>3, CkptRows
\* An invocation of t that does not resume starts a task that was never run.
<1>5. ASSUME NEW w \in Workers, NEW u \in Tasks, Invoke(w, u), sched[u] > 0 \/ u \in claimed
      PROVE  CkptOK(t)'
<2>1. worker[w] = Idle /\ UNCHANGED <<ckpt, resources>>
  BY <1>5 DEF Invoke
<2>2. CASE UNCHANGED <<worker, status>>
  BY <2>1, <2>2, CkptRows
<2>3. CASE Unsettled(u)
<3>1. /\ status' = [status EXCEPT ![u] = "running"]
      /\ worker' = [worker EXCEPT ![w].pc = "load", ![w].task = u,
                        ![w].resume = status[u] \in {"failed", "retry_pending"}]
  BY <1>5, <2>3 DEF Invoke
<3>2. /\ worker'[w].pc = "load" /\ worker'[w].task = u /\ worker'[w].unsaved = <<>>
      /\ ~worker'[w].resume => status[u] \notin {"failed", "retry_pending"}
      /\ \A v \in Workers : v # w => worker'[v] = worker[v]
<4> DEFINE d == status[u] \in {"failed", "retry_pending"}
           x == [Idle EXCEPT !.pc = "load", !.task = u, !.resume = d]
<4>1. worker' = [worker EXCEPT ![w] = x]
  BY <2>1, <3>1
<4>2. x.pc = "load" /\ x.task = u /\ x.unsaved = <<>> /\ (x.resume <=> d)
  BY DEF Idle
<4>3. QED
<5> HIDE DEF x
<5> QED
  BY <4>1, <4>2 DEF TypeOK
<3>3. status'[t] = status[t] \/ status'[t] \notin {"absent", "pending"}
  BY <3>1 DEF TypeOK
<3>4. ASSUME On(w, t)' PROVE Holds(worker'[w], ckpt'[t], resources'[t])
<4>1. u = t
  BY <3>2, <3>4 DEF On
<4>2. status[t] \in {"pending", "retry_pending"}
  BY <1>5, <4>1 DEF Invoked, TypeOK
<4>3. ~worker'[w].resume => ckpt[t] = NoCkpt
  BY <3>2, <4>1, <4>2 DEF CkptOK
<4>4. QED
  BY <2>1, <3>2, <4>3 DEF Holds
<3>5. ckpt'[t] # NoCkpt /\ Done(ckpt'[t].g) => resources'[t] = "published"
  BY <2>1 DEF CkptOK
<3>6. QED
  BY <2>1, <3>2, <3>3, <3>4, <3>5, CkptStep
<2>4. QED
  BY <1>5, <2>2, <2>3 DEF Invoke
<1>6. ASSUME NEW w \in Slots, NEW u \in Tasks, BackgroundInvoke(w, u) PROVE CkptOK(t)'
  BY <1>5, <1>6 DEF BackgroundInvoke, Workers
<1>7. ASSUME NEW u \in Tasks, RecoveryInvoke(u) PROVE CkptOK(t)'
  BY <1>5, <1>7 DEF RecoveryInvoke, Workers
<1>8. ASSUME NEW w \in Workers, WorkerStep(w) PROVE CkptOK(t)'
<2> DEFINE u == worker[w].task
<2>1. u \in Tasks /\ \A v \in Workers : v # w => worker'[v] = worker[v]
  BY <1>8, StepFrame
<2>2. worker[w] \in WorkerState /\ WorkerOK(worker[w])
  BY DEF TypeOK, WorkerInv
<2>3. On(w, t) => /\ \A v \in Workers : v # w => ~On(v, t)
                  /\ status[t] = "running" /\ Holds(worker[w], ckpt[t], resources[t])
  BY DEF Invoked, CkptOK
<2>4. ckpt[t] # NoCkpt /\ Done(ckpt[t].g) => resources[t] = "published"
  BY DEF CkptOK
\* Steps that write no row of t but its status.
<2>5. ASSUME ckpt'[t] = ckpt[t], resources'[t] = resources[t],
             status'[t] = status[t] \/ status'[t] \notin {"absent", "pending"},
             On(w, t)' => Holds(worker'[w], ckpt[t], resources[t])
      PROVE  CkptOK(t)'
  BY <2>1, <2>4, <2>5, CkptStep
<2>6. ASSUME worker' = [worker EXCEPT ![w] = Idle], UNCHANGED <<ckpt, resources>>,
             status'[t] = status[t] \/ status'[t] \notin {"absent", "pending"}
      PROVE  CkptOK(t)'
<3>1. ~On(w, t)'
  BY <2>6, NoTaskAssumption DEF On, Idle, TypeOK
<3>2. QED
  BY <2>5, <2>6, <3>1
<2>7. CASE LoadFails(w)
  BY <2>6, <2>7 DEF LoadFails, rows
<2>8. ASSUME NEW s \in {"failed", "completed"}, NEW d, Settle(w, s, d) PROVE CkptOK(t)'
  BY <2>6, <2>8 DEF Settle, TypeOK
<2>9. CASE FailTask(w) \/ OpenFails(w) \/ ConcludeTask(w)
  BY <2>8, <2>9 DEF FailTask, OpenFails, ConcludeTask
<2>10. CASE Load(w)
<3>1. UNCHANGED <<status, ckpt, resources>>
  BY <2>10 DEF Load, rows
<3>2. /\ worker[w].pc = "load" /\ worker'[w].pc = "open" /\ worker'[w].task = u
      /\ worker'[w].unsaved = worker[w].unsaved /\ worker'[w].resume = worker[w].resume
  BY <2>2, <2>10 DEF Load, TypeOK, WorkerState
<3>3. On(w, t)' => Holds(worker'[w], ckpt[t], resources[t])
  BY <2>3, <3>2 DEF On, Holds
<3>4. QED
  BY <2>5, <3>1, <3>3
<2>11. CASE Open(w)
<3>1. UNCHANGED <<status, ckpt, resources>>
  BY <2>11 DEF Open, rows
<3>2. worker'[w].task = u /\ worker[w].pc = "open" /\ worker[w].unsaved = <<>>
  BY <2>2, <2>11 DEF Open, TypeOK, WorkerState, WorkerOK
<3>3. CASE u = t /\ worker[w].resume /\ ckpt[t] # NoCkpt
<4>1. /\ worker'[w].pc = At(ckpt[t].g) /\ worker'[w].g = ckpt[t].g
      /\ worker'[w].unsaved = <<>>
  BY <2>2, <2>11, <3>2, <3>3 DEF Open, TypeOK, WorkerState
<4>2. /\ worker'[w].pc \in {"between", "final"} /\ Len(worker'[w].unsaved) = 0
      /\ Done(ckpt[t].g) => worker'[w].pc = "final"
  BY <4>1 DEF At, Done
<4>3. Holds(worker'[w], ckpt[t], resources[t])
  BY <2>4, <3>3, <4>1, <4>2 DEF Holds
<4>4. QED
  BY <2>5, <3>1, <4>3
<3>4. CASE u = t /\ ~(worker[w].resume /\ ckpt[t] # NoCkpt)
<4>1. worker'[w].pc = "between" /\ worker'[w].unsaved = <<Start>>
  BY <2>2, <2>11, <3>2, <3>4 DEF Open, TypeOK, WorkerState
<4>2. ckpt[t] = NoCkpt
  BY <2>3, <3>2, <3>4 DEF On, Holds
<4>3. ~Done(Start)
  BY DEF Done, Start
<4>4. Holds(worker'[w], ckpt[t], resources[t])
  BY <4>1, <4>2, <4>3 DEF Holds
<4>5. QED
  BY <2>5, <3>1, <4>4
<3>5. CASE u # t
  BY <2>5, <3>1, <3>2, <3>5 DEF On
<3>6. QED
  BY <3>3, <3>4, <3>5
<2>12. CASE StartNode(w)
<3>1. UNCHANGED <<status, ckpt, resources>>
  BY <2>12 DEF StartNode, rows
<3>2. /\ worker[w].pc = "between" /\ worker'[w].pc = "node" /\ worker'[w].task = u
      /\ worker'[w].unsaved = worker[w].unsaved
  BY <2>2, <2>12 DEF StartNode, TypeOK, WorkerState
<3>3. On(w, t)' => Holds(worker'[w], ckpt[t], resources[t])
  BY <2>3, <3>2 DEF On, Holds
<3>4. QED
  BY <2>5, <3>1, <3>3
\* In a node the checkpoint and what is to be saved are of a graph not yet at its
\* end, and the node that ends it as completed has published.
<2>13. CASE FinishNode(w)
<3> DEFINE g == worker[w].g
<3>1. /\ worker[w].pc = "node" /\ UNCHANGED <<status, ckpt>>
      /\ resources' = [resources EXCEPT ![u] = Persisted(g, @)]
  BY <2>13 DEF FinishNode
<3>2. PICK next \in After(g) :
         worker' = [worker EXCEPT ![w].pc = At(next), ![w].g = next,
                        ![w].unsaved = Append(@, next)]
  BY <2>13 DEF FinishNode
<3>3. /\ worker'[w].pc = At(next) /\ worker'[w].g = next /\ worker'[w].task = u
      /\ worker'[w].unsaved = Append(worker[w].unsaved, next)
  BY <2>2, <3>2 DEF TypeOK, WorkerState
<3>4. CASE u = t
<4>1. resources'[t] = Persisted(g, resources[t])
  BY <3>1, <3>4 DEF TypeOK
<4>2. Done(next) => resources'[t] = "published" /\ At(next) = "final"
<5>1. g \in Sound /\ g.node # "end"
  BY <2>2, <3>1 DEF WorkerOK
<5>2. QED
  BY <4>1, <5>1, EndPublished DEF Done, At
<4>3. /\ ~(ckpt[t] # NoCkpt /\ Done(ckpt[t].g))
      /\ \A i \in 1 .. Len(worker[w].unsaved) : ~Done(worker[w].unsaved[i])
      /\ \A v \in Workers : v # w => ~On(v, t)
  BY <2>3, <3>1, <3>4 DEF On, Holds
<4>4. ASSUME NEW i \in 1 .. Len(worker'[w].unsaved), Done(worker'[w].unsaved[i])
      PROVE  worker'[w].unsaved[i] = next
<5>1. worker[w].unsaved \in Seq(GraphState)
  BY <2>2 DEF WorkerState
<5>2. QED
  BY <3>3, <4>3, <4>4, <5>1
<4>5. worker'[w].pc \notin {"load", "open"}
  BY <3>3 DEF At
<4>6. Holds(worker'[w], ckpt'[t], resources'[t])
<5>1. \A i \in 1 .. Len(worker'[w].unsaved) :
         Done(worker'[w].unsaved[i]) => worker'[w].pc = "final" /\ resources'[t] = "published"
  BY <3>3, <4>2, <4>4
<5>2. QED
  BY <3>1, <3>3, <4>2, <4>3, <4>5, <5>1 DEF Holds
<4>7. QED
  BY <2>1, <3>1, <4>3, <4>6, CkptStep
<3>5. CASE u # t
<4>1. ckpt'[t] = ckpt[t] /\ resources'[t] = resources[t] /\ status'[t] = status[t]
      /\ ~On(w, t)'
  BY <3>1, <3>3, <3>5 DEF TypeOK, On
<4>2. QED
  BY <2>5, <4>1
<3>6. QED
  BY <3>4, <3>5
<2>14. CASE FailNode(w)
<3>1. /\ worker[w].pc = "node" /\ UNCHANGED <<status, ckpt>>
      /\ resources' = resources
            \/ resources' = [resources EXCEPT ![u] = Persisted(worker[w].g, @)]
  BY <2>14 DEF FailNode
<3>2. /\ worker'[w].pc = "raised" /\ worker'[w].task = u
      /\ worker'[w].unsaved = worker[w].unsaved
  BY <2>2, <2>14 DEF FailNode, TypeOK, WorkerState
<3>3. CASE u = t
<4>1. /\ ~(ckpt[t] # NoCkpt /\ Done(ckpt[t].g))
      /\ \A i \in 1 .. Len(worker[w].unsaved) : ~Done(worker[w].unsaved[i])
      /\ \A v \in Workers : v # w => ~On(v, t)
  BY <2>3, <3>1, <3>3 DEF On, Holds
<4>2. Holds(worker'[w], ckpt'[t], resources'[t])
  BY <3>1, <3>2, <4>1 DEF Holds
<4>3. QED
  BY <2>1, <3>1, <4>1, <4>2, CkptStep
<3>4. CASE u # t
<4>1. ckpt'[t] = ckpt[t] /\ resources'[t] = resources[t] /\ status'[t] = status[t]
      /\ ~On(w, t)'
  BY <3>1, <3>2, <3>4 DEF TypeOK, On
<4>2. QED
  BY <2>5, <4>1
<3>5. QED
  BY <3>3, <3>4
<2>15. CASE SaveCheckpoint(w)
<3> DEFINE first == Head(worker[w].unsaved)
<3>1. /\ worker[w].unsaved # <<>> /\ UNCHANGED <<status, resources>>
      /\ ckpt' = [ckpt EXCEPT ![u] = Saved(u, first)]
  BY <2>15 DEF SaveCheckpoint, rows
<3>2. /\ worker'[w].pc = worker[w].pc /\ worker'[w].task = u /\ worker'[w].g = worker[w].g
      /\ worker'[w].resume = worker[w].resume
      /\ worker'[w].unsaved = Tail(worker[w].unsaved)
  BY <2>2, <2>15 DEF SaveCheckpoint, TypeOK, WorkerState
<3>3. CASE u = t
<4>1. ckpt'[t].g = first
  BY <3>1, <3>3 DEF TypeOK, Saved
<4>2. /\ status[t] = "running" /\ Holds(worker[w], ckpt[t], resources[t])
      /\ \A v \in Workers : v # w => ~On(v, t)
  BY <2>3, <3>3 DEF On
<4>3. worker[w].unsaved \in Seq(GraphState) /\ Len(worker[w].unsaved) > 0
      /\ worker[w].pc \notin {"load", "open"}
  BY <2>2, <3>1 DEF WorkerState, WorkerOK
<4>4. first = worker[w].unsaved[1] /\ 1 \in 1 .. Len(worker[w].unsaved)
  BY <4>3
<4>5. Done(first) => worker[w].pc = "final" /\ resources[t] = "published"
  BY <4>2, <4>4 DEF Holds
<4>6. ASSUME NEW i \in 1 .. Len(worker'[w].unsaved)
      PROVE  \E j \in 1 .. Len(worker[w].unsaved) : worker'[w].unsaved[i] = worker[w].unsaved[j]
<5>1. i + 1 \in 1 .. Len(worker[w].unsaved) /\ worker'[w].unsaved[i] = worker[w].unsaved[i + 1]
  BY <3>2, <4>3
<5>2. QED
  BY <5>1
<4>7. \A i \in 1 .. Len(worker'[w].unsaved) :
         Done(worker'[w].unsaved[i]) => worker'[w].pc = "final" /\ resources'[t] = "published"
  BY <3>1, <3>2, <4>2, <4>6 DEF Holds
<4>8. Holds(worker'[w], ckpt'[t], resources'[t])
  BY <3>1, <3>2, <4>1, <4>2, <4>3, <4>5, <4>7 DEF Holds
<4>9. ckpt'[t] # NoCkpt /\ Done(ckpt'[t].g) => resources'[t] = "published"
  BY <3>1, <4>1, <4>5
<4>10. status'[t] \notin {"absent", "pending"}
  BY <3>1, <4>2
<4>11. QED
  BY <2>1, <4>2, <4>8, <4>9, <4>10, CkptStep
<3>4. CASE u # t
<4>1. ckpt'[t] = ckpt[t] /\ resources'[t] = resources[t] /\ status'[t] = status[t]
      /\ ~On(w, t)'
  BY <3>1, <3>2, <3>4 DEF TypeOK, On
<4>2. QED
  BY <2>5, <4>1
<3>5. QED
  BY <3>3, <3>4
<2>16. CASE RepeatNode(w)
<3>1. UNCHANGED <<status, ckpt, resources>>
  BY <2>16 DEF RepeatNode, rows
<3>2. /\ worker[w].pc = "raised" /\ worker'[w].task = u /\ worker'[w].unsaved = <<>>
      /\ worker'[w].pc = At(ckpt[u].g) /\ worker'[w].g = ckpt[u].g /\ ckpt[u] # NoCkpt
  BY <2>2, <2>16 DEF RepeatNode, Repeatable, TypeOK, WorkerState
<3>3. On(w, t)' => u = t /\ ~Done(ckpt[t].g)
  BY <2>3, <3>2 DEF On, Holds
<3>4. On(w, t)' => Holds(worker'[w], ckpt[t], resources[t])
  BY <3>2, <3>3 DEF Holds, At
<3>5. QED
  BY <2>5, <3>1, <3>4
<2>17. QED
  BY <1>8, <2>7, <2>9, <2>10, <2>11, <2>12, <2>13, <2>14, <2>15, <2>16 DEF WorkerStep
<1>9. CASE Crash
<2>1. \A v \in Workers : ~On(v, t)'
  BY <1>9, NoTaskAssumption DEF Crash, Idle, On
<2>2. UNCHANGED <<status, ckpt, resources>>
  BY <1>9 DEF Crash, rows
<2>3. QED
  BY <2>1, <2>2, CkptIdle
<1>10. CASE Startup
<2>1. \A v \in Workers : ~On(v, t)'
  BY <1>10, NoTaskAssumption DEF Startup, DownInv, Idle, On
<2>2. ASSUME NEW runOf, NEW failOf, Recover(runOf, failOf)
      PROVE  /\ status'[t] \in {"absent", "pending"} => status'[t] = status[t] /\ ckpt'[t] = ckpt[t]
             /\ \/ ckpt'[t] = ckpt[t] \/ ckpt'[t] = NoCkpt
                \/ ckpt[t] # NoCkpt /\ ckpt'[t] = [ckpt[t] EXCEPT !.auto = 1]
  BY <2>2 DEF Recover, Interrupted
<2>3. ckpt[t] # NoCkpt => [ckpt[t] EXCEPT !.auto = 1].g = ckpt[t].g
  BY DEF TypeOK, Checkpoint
<2>4. /\ status'[t] \in {"absent", "pending"} => status'[t] = status[t] /\ ckpt'[t] = ckpt[t]
      /\ ckpt'[t] # NoCkpt => ckpt[t] # NoCkpt /\ ckpt'[t].g = ckpt[t].g
  BY <1>10, <2>2, <2>3 DEF Startup
<2>5. resources'[t] = resources[t]
  BY <1>10 DEF Startup
<2>6. QED
  BY <2>1, <2>4, <2>5, CkptIdle
<1>11. CASE UNCHANGED vars
  BY <1>11, CkptRows DEF vars, rows
<1>12. QED
  BY <1>1, <1>2, <1>3, <1>4, <1>6, <1>7, <1>8, <1>9, <1>10, <1>11
     DEF Next, RequestStep, BackgroundStep, RecoveryStep, Workers

(***************************************************************************)
(* The invariant, and what it implies.                                     *)
(***************************************************************************)
LEMMA AbsentPreserved == TypeInv /\ AbsentInv /\ [Next]_vars => AbsentInv'
<1> SUFFICES ASSUME TypeOK, WorkerInv, AbsentInv, [Next]_vars PROVE AbsentInv'
    BY DEF TypeInv
<1>1. ASSUME NEW t \in Tasks, CreateTask(t) PROVE AbsentInv'
  BY <1>1 DEF CreateTask, AbsentInv, TypeOK
<1>2. ASSUME NEW r \in Requests, CommitSuccessor(r) PROVE AbsentInv'
  BY <1>2 DEF CommitSuccessor, AbsentInv, TypeOK
<1>3. ASSUME NEW r \in Requests, CommitRetry(r) PROVE AbsentInv'
<2> DEFINE u == request[r].task
<2>1. /\ status' = [status EXCEPT ![u] = "retry_pending"]
      /\ decision' = [decision EXCEPT ![u] = "pending"]
  BY <1>3 DEF CommitRetry
<2>2. QED
  BY <2>1 DEF AbsentInv, TypeOK
<1>4. ASSUME NEW w \in Workers, NEW t \in Tasks, Invoke(w, t) PROVE AbsentInv'
  BY <1>4 DEF Invoke, AbsentInv, TypeOK
<1>5. ASSUME NEW w \in Workers, NEW s \in {"failed", "completed"}, NEW d, Settle(w, s, d)
      PROVE  AbsentInv'
<2>1. /\ status' = [status EXCEPT ![worker[w].task] = s]
      /\ decision' = [decision EXCEPT ![worker[w].task] = d]
  BY <1>5 DEF Settle
<2>2. QED
  BY <2>1 DEF AbsentInv, TypeOK
<1>6. CASE UNCHANGED <<status, decision>>
  BY <1>6 DEF AbsentInv
<1>7. ASSUME NEW w \in Workers, WorkerStep(w) PROVE AbsentInv'
  BY <1>5, <1>6, <1>7
     DEF WorkerStep, LoadFails, Load, Open, StartNode, FinishNode, FailNode,
         SaveCheckpoint, RepeatNode, FailTask, OpenFails, ConcludeTask, rows
<1>8. ASSUME NEW runOf, NEW failOf, Recover(runOf, failOf) PROVE AbsentInv'
  BY <1>8 DEF Recover, Interrupted, AbsentInv
<1>9. QED
  BY <1>1, <1>2, <1>3, <1>4, <1>6, <1>7, <1>8
     DEF Next, RequestStep, ReadRetry, ReadRetryOf, BackgroundStep, BackgroundInvoke,
         RecoveryStep, RecoveryInvoke, Workers, Crash, Startup, vars, rows

LEMMA InitIInv == Init => IInv
<1> SUFFICES ASSUME Init PROVE IInv
    OBVIOUS
<1>1. TypeInv
  BY InitTypes
<1>2. /\ up /\ claimed = {}
      /\ \A w \in Workers : worker[w].task = NoTask
      /\ \A r \in Requests : request[r].task = NoTask
      /\ \A t \in Tasks : ckpt[t] = NoCkpt /\ recovered[t] = 0 /\ sched[t] = 0 /\ open[t] = 0
                          /\ decision[t] = "pending"
  BY DEF Init, Idle, NoRequest
<1>3. RecoveryInv /\ DownInv /\ AbsentInv
  BY <1>2 DEF RecoveryInv, DownInv, AbsentInv
<1>4. InvocationInv /\ RunInv /\ CheckpointInv
  BY <1>2, NoTaskAssumption DEF InvocationInv, RunInv, InNode, CheckpointInv, CkptOK, On
<1>5. QED
  BY <1>1, <1>3, <1>4 DEF IInv

LEMMA NextIInv == IInv /\ [Next]_vars => IInv'
  BY TypesPreserved, RecoveryPreserved, DownPreserved, InvocationPreserved, RunPreserved,
     CheckpointPreserved, AbsentPreserved DEF IInv

THEOREM Invariance == Spec => []IInv
  BY InitIInv, NextIInv, PTL DEF Spec

\* Every variable keeps its type, and no thread hands over more checkpoints than
\* its saver may hold.
THEOREM TypeCorrectness == Spec => []TypeOK
<1>1. IInv => TypeOK
  BY DEF IInv, TypeInv
<1>2. QED
  BY <1>1, Invariance, PTL

\* However often the process restarts, a checkpoint is resumed automatically once.
THEOREM RecoveryBudgetHolds == Spec => []RecoveryBudget
<1>1. IInv => RecoveryBudget
  BY DEF IInv, RecoveryInv, RecoveryBudget
<1>2. QED
  BY <1>1, Invariance, PTL

\* A task has at most one invocation, queued or running, unless two retries raced.
THEOREM OneInvocationHolds == Spec => []OneInvocation
<1>1. ASSUME IInv, NEW t \in Tasks, ~raced[t]
      PROVE  sched[t] + (IF t \in claimed THEN 1 ELSE 0)
                + Cardinality({w \in Workers : worker[w].task = t}) <= 1
<2> DEFINE threads == {w \in Workers : worker[w].task = t}
<2>1. Invoked(t)
  BY <1>1 DEF IInv, InvocationInv, Invoked
<2>2. CASE threads = {}
<3>1. Cardinality(threads) = 0
  BY <2>2, FS_EmptySet
<3>2. sched[t] + (IF t \in claimed THEN 1 ELSE 0) <= 1
  BY <2>1 DEF Invoked
<3>3. QED
  BY <3>1, <3>2, <2>1 DEF Invoked
<2>3. CASE threads # {}
<3>1. PICK w \in Workers : On(w, t)
  BY <2>3 DEF On
<3>2. threads = {w}
  BY <2>1, <3>1 DEF Invoked, On
<3>3. Cardinality(threads) = 1
  BY <3>2, FS_Singleton
<3>4. sched[t] = 0 /\ t \notin claimed
  BY <2>1, <3>1 DEF Invoked
<3>5. QED
  BY <3>3, <3>4
<2>4. QED
  BY <2>2, <2>3
<1>2. IInv => OneInvocation
  BY <1>1 DEF OneInvocation
<1>3. QED
  BY <1>2, Invariance, PTL

\* A settled task has no run left open, whatever crashed in between.
THEOREM NoOrphanRunHolds == Spec => []NoOrphanRun
<1>1. ASSUME IInv, NEW t \in Tasks, Settled(t), ~raced[t] PROVE open[t] = 0
<2>1. Invoked(t) /\ RunOK(t)
  BY <1>1 DEF IInv, InvocationInv, Invoked, RunInv, RunOK, InNode, NodeOf
<2>2. status[t] \notin Interrupted
  BY <1>1 DEF Settled, Interrupted
<2>3. \A w \in Workers : ~NodeOf(w, t)
  BY <2>1, <2>2 DEF Invoked, NodeOf, Interrupted
<2>4. up \in BOOLEAN
  BY <1>1 DEF IInv, TypeInv, TypeOK
<2>5. QED
  BY <2>1, <2>2, <2>3, <2>4 DEF RunOK
<1>2. IInv => NoOrphanRun
  BY <1>1 DEF NoOrphanRun
<1>3. QED
  BY <1>2, Invariance, PTL

\* A checkpoint of a completed graph has its resources published.
THEOREM CheckpointBehindRowsHolds == Spec => []CheckpointBehindRows
<1>1. IInv => CheckpointBehindRows
  BY DEF IInv, CheckpointInv, CkptOK, CheckpointBehindRows
<1>2. QED
  BY <1>1, Invariance, PTL

(***************************************************************************)
(* Refinement.  With at most one handler running a retry at a time, what   *)
(* the learner sees is TaskLifecycle.                                      *)
(***************************************************************************)
Alone == (\A r \in Requests : ~request[r].overtaken) /\ (\A t \in Tasks : ~raced[t])

LEMMA AlonePreserved ==
  ASSUME \A r, q \in Requests : r = q
  PROVE  TypeInv /\ Alone /\ [Next]_vars => Alone'
<1> SUFFICES ASSUME TypeOK, WorkerInv, Alone, [Next]_vars PROVE Alone'
    BY DEF TypeInv
<1>1. CASE UNCHANGED <<request, raced>>
  BY <1>1 DEF Alone
<1>2. ASSUME NEW r \in Requests, NEW t \in Tasks, ReadRetry(r, t) PROVE Alone'
  BY <1>2 DEF ReadRetry, ReadRetryOf, Alone, TypeOK, history
<1>3. ASSUME NEW r \in Requests, CommitSuccessor(r) PROVE Alone'
  BY <1>3 DEF CommitSuccessor, Alone, TypeOK, NoRequest, history
<1>4. ASSUME NEW r \in Requests, CommitRetry(r) PROVE Alone'
<2>1. \A q \in Requests : request'[q] = NoRequest
  BY <1>4 DEF CommitRetry
<2>2. raced' = [raced EXCEPT ![request[r].task] =
                   @ \/ (request[r].overtaken /\ status[request[r].task] # "failed")]
  BY <1>4 DEF CommitRetry
<2>3. \A t \in Tasks : ~raced'[t]
  BY <2>2 DEF Alone, TypeOK
<2>4. QED
  BY <2>1, <2>3 DEF Alone, NoRequest
<1>5. CASE Crash
  BY <1>5 DEF Crash, Alone, NoRequest, history
<1>6. ASSUME NEW w \in Workers, WorkerStep(w) PROVE UNCHANGED <<request, raced>>
  BY <1>6 DEF WorkerStep, LoadFails, Load, Open, StartNode, FinishNode, FailNode,
              SaveCheckpoint, RepeatNode, FailTask, OpenFails, ConcludeTask, Settle, history
<1>7. ASSUME NEW w \in Workers, NEW u \in Tasks, Invoke(w, u) PROVE UNCHANGED <<request, raced>>
  BY <1>7 DEF Invoke, history
<1>8. QED
  BY <1>1, <1>2, <1>3, <1>4, <1>5, <1>6, <1>7
     DEF Next, RequestStep, CreateTask, BackgroundStep, BackgroundInvoke, RecoveryStep,
         RecoveryInvoke, Workers, Startup, vars, history

LEMMA StepRefines ==
    IInv /\ Alone /\ [Next]_vars => [Lifecycle!Next]_Lifecycle!vars
<1> SUFFICES ASSUME IInv, Alone, [Next]_vars PROVE [Lifecycle!Next]_Lifecycle!vars
    OBVIOUS
<1>a. /\ TypeOK /\ WorkerInv /\ AbsentInv /\ DownInv
      /\ \A t \in Tasks : Invoked(t) /\ CkptOK(t)
  BY DEF IInv, TypeInv, Alone, InvocationInv, Invoked, CheckpointInv
<1>b. CASE UNCHANGED <<status, decision, resources>>
  BY <1>b DEF Lifecycle!vars
<1>1. ASSUME NEW t \in Tasks, Lifecycle!Submit(t) \/ Lifecycle!Begin(t) \/ Lifecycle!Write(t)
               \/ Lifecycle!Complete(t) \/ Lifecycle!Fail(t) \/ Lifecycle!Retry(t)
      PROVE  [Lifecycle!Next]_Lifecycle!vars
  BY <1>1 DEF Lifecycle!Next
<1>2. ASSUME NEW t \in Tasks, status[t] = "absent",
             status' = [status EXCEPT ![t] = "pending"], UNCHANGED <<decision, resources>>
      PROVE  Lifecycle!Submit(t)
<2>1. decision' = [decision EXCEPT ![t] = "pending"]
  BY <1>a, <1>2 DEF AbsentInv, TypeOK
<2>2. QED
  BY <1>2, <2>1 DEF Lifecycle!Submit, Lifecycle!Move
<1>3. ASSUME NEW t \in Tasks, CreateTask(t) PROVE Lifecycle!Submit(t)
  BY <1>2, <1>3 DEF CreateTask
<1>4. ASSUME NEW r \in Requests, CommitSuccessor(r) PROVE \E t \in Tasks : Lifecycle!Submit(t)
  BY <1>2, <1>4 DEF CommitSuccessor
<1>5. ASSUME NEW r \in Requests, CommitRetry(r)
      PROVE  \E t \in Tasks : Lifecycle!Retry(t)
<2> DEFINE t == request[r].task
<2>1. /\ t \in Tasks /\ UNCHANGED resources
      /\ status' = [status EXCEPT ![t] = "retry_pending"]
      /\ decision' = [decision EXCEPT ![t] = "pending"]
  BY <1>5, <1>a DEF CommitRetry, TypeOK, RequestState
<2>2. status[t] = "failed"
  BY <1>a, <2>1 DEF Alone, Invoked
<2>3. QED
  BY <2>1, <2>2 DEF Lifecycle!Retry, Lifecycle!Move
<1>6. ASSUME NEW w \in Workers, NEW t \in Tasks, Invoke(w, t), sched[t] > 0 \/ t \in claimed
      PROVE  UNCHANGED <<status, decision, resources>> \/ Lifecycle!Begin(t)
<2>1. status[t] \in {"pending", "retry_pending"}
  BY <1>a, <1>6 DEF Invoked, TypeOK
<2>2. QED
  BY <1>6, <2>1 DEF Invoke, Lifecycle!Begin, Lifecycle!Move
<1>7. ASSUME NEW w \in Workers, FinishNode(w) \/ FailNode(w)
      PROVE  \/ UNCHANGED <<status, decision, resources>>
             \/ \E t \in Tasks : Lifecycle!Write(t)
<2> DEFINE t == worker[w].task
           g == worker[w].g
<2>1. /\ worker[w].pc = "node" /\ UNCHANGED <<status, decision>>
      /\ resources' = resources \/ resources' = [resources EXCEPT ![t] = Persisted(g, @)]
  BY <1>7 DEF FinishNode, FailNode
<2>2. t \in Tasks /\ status[t] = "running"
  BY <1>a, <2>1 DEF WorkerInv, WorkerOK, Invoked, On
<2>3. Persisted(g, resources[t]) \in {resources[t], "withheld", "published"}
  BY DEF Persisted
<2>4. CASE Persisted(g, resources[t]) = resources[t]
  BY <1>a, <2>1, <2>2, <2>4 DEF TypeOK
<2>5. CASE Persisted(g, resources[t]) \in {"withheld", "published"}
  BY <2>1, <2>2, <2>5 DEF Lifecycle!Write
<2>6. QED
  BY <2>3, <2>4, <2>5
<1>8. ASSUME NEW w \in Workers, worker[w].pc # "idle", Settle(w, "failed", "failed")
      PROVE  \E t \in Tasks : Lifecycle!Fail(t)
<2>1. worker[w].task \in Tasks /\ status[worker[w].task] = "running"
  BY <1>a, <1>8 DEF WorkerInv, WorkerOK, Invoked, On
<2>2. QED
  BY <1>8, <2>1 DEF Settle, Lifecycle!Fail, Lifecycle!Move
<1>9. ASSUME NEW w \in Workers, ConcludeTask(w)
      PROVE  \E t \in Tasks : Lifecycle!Complete(t) \/ Lifecycle!Fail(t)
<2> DEFINE t == worker[w].task
           g == worker[w].g
<2>1. worker[w].pc = "final" /\ t \in Tasks /\ status[t] = "running" /\ g.node = "end"
  BY <1>a, <1>9 DEF ConcludeTask, WorkerInv, WorkerOK, Invoked, On
<2>2. CASE g.verdict = "completed"
<3>1. resources[t] = "published"
  BY <1>a, <2>1, <2>2 DEF CkptOK, On, Holds, Done
<3>2. QED
  BY <1>9, <2>1, <2>2, <3>1 DEF ConcludeTask, Settle, Lifecycle!Complete, Lifecycle!Move
<2>3. CASE g.verdict = "no_change"
  BY <1>9, <2>1, <2>3 DEF ConcludeTask, Settle, Lifecycle!Complete, Lifecycle!Move
<2>4. CASE g.verdict \notin {"completed", "no_change"}
  BY <1>8, <1>9, <2>1, <2>4 DEF ConcludeTask
<2>5. QED
  BY <2>2, <2>3, <2>4
<1>10. ASSUME NEW w \in Workers, WorkerStep(w)
       PROVE  \/ UNCHANGED <<status, decision, resources>>
              \/ \E t \in Tasks : Lifecycle!Write(t) \/ Lifecycle!Complete(t) \/ Lifecycle!Fail(t)
<2>1. CASE Load(w) \/ LoadFails(w) \/ Open(w) \/ StartNode(w) \/ SaveCheckpoint(w)
           \/ RepeatNode(w)
  BY <2>1 DEF Load, LoadFails, Open, StartNode, SaveCheckpoint, RepeatNode, rows
<2>2. CASE FinishNode(w) \/ FailNode(w)
  BY <1>7, <2>2
<2>3. CASE FailTask(w) \/ OpenFails(w)
  BY <1>8, <2>3 DEF FailTask, OpenFails
<2>4. CASE ConcludeTask(w)
  BY <1>9, <2>4
<2>5. QED
  BY <1>10, <2>1, <2>2, <2>3, <2>4 DEF WorkerStep
<1>11. ASSUME NEW runOf, NEW failOf, Recover(runOf, failOf), UNCHANGED resources
       PROVE  Lifecycle!Restart
<2>1. claimed' \in SUBSET {t \in Tasks : status[t] \in {"running", "retry_pending"}}
  BY <1>11 DEF Recover, Interrupted
<2>2. status' = [t \in Tasks |->
                    IF t \in claimed' THEN "retry_pending"
                    ELSE IF t \in {u \in Tasks : status[u] \in {"running", "retry_pending"}}
                         THEN "failed" ELSE status[t]]
  BY <1>11 DEF Recover, Interrupted
<2>3. decision' = [t \in Tasks |->
                    IF t \in claimed' THEN "pending"
                    ELSE IF t \in {u \in Tasks : status[u] \in {"running", "retry_pending"}}
                         THEN "failed" ELSE decision[t]]
  BY <1>11 DEF Recover, Interrupted
<2>4. QED
  BY <1>11, <2>1, <2>2, <2>3 DEF Lifecycle!Restart
<1>12. CASE Startup
<2>1. Lifecycle!Restart
  BY <1>11, <1>12 DEF Startup
<2>2. QED
  BY <2>1 DEF Lifecycle!Next
<1>13. CASE Crash \/ UNCHANGED vars
  BY <1>b, <1>13 DEF Crash, vars, rows
<1>14. ASSUME NEW r \in Requests, NEW t \in Tasks, ReadRetry(r, t)
       PROVE  UNCHANGED <<status, decision, resources>>
  BY <1>14 DEF ReadRetry, ReadRetryOf, rows
<1>15. ASSUME NEW w \in Slots, BackgroundStep(w) PROVE [Lifecycle!Next]_Lifecycle!vars
  BY <1>b, <1>1, <1>6, <1>10, <1>15 DEF BackgroundStep, BackgroundInvoke, Workers
<1>16. CASE RecoveryStep
  BY <1>b, <1>1, <1>6, <1>10, <1>16 DEF RecoveryStep, RecoveryInvoke, Workers
<1>17. QED
  BY <1>b, <1>1, <1>3, <1>4, <1>5, <1>12, <1>13, <1>14, <1>15, <1>16 DEF Next, RequestStep

\* Through crashes, recovery and retries, a task that reports a completed package
\* has published it, and rows change only as TaskLifecycle allows.
THEOREM LifecycleRefinement ==
  ASSUME \A r, q \in Requests : r = q
  PROVE  Spec => ImplementsLifecycle
<1>1. Init => Lifecycle!Init
  BY DEF Init, Lifecycle!Init
<1>2. Init => Alone
  BY DEF Init, Alone, NoRequest
<1>3. TypeInv /\ Alone /\ [Next]_vars => Alone'
  BY AlonePreserved
<1>4. IInv => TypeInv
  BY DEF IInv
<1>5. QED
  BY <1>1, <1>2, <1>3, <1>4, Invariance, StepRefines, PTL
     DEF Spec, Lifecycle!Spec, ImplementsLifecycle
=============================================================================
