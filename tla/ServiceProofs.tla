---------------------------- MODULE ServiceProofs ----------------------------
(***************************************************************************)
(* Proofs about WorkerPool, Container and WebhookBatch, for any number of  *)
(* workers, tasks, callers, events and groups and any buffer size.         *)
(***************************************************************************)
EXTENDS WorkerPool, Container, WebhookBatch, TLAPS

----------------------------------------------------------------------------
(* WorkerPool *)

\* The types of what the proof looks into.
WorkerInv ==
    /\ worker \in [PoolWorkers -> [pc : {"none", "idle", "gone", "running", "submitting", "submitted"},
                                   task : Tasks \cup {NoTask}]]
    /\ taskChan \in Seq(Tasks)
    /\ errorChan \in Int /\ errorChan >= -1

\* Only a pool that is shut down holds the lock across steps or has its errorChan closed, and
\* then no worker is left but those of a late Start.
ClosedInv ==
    /\ mu => closed
    /\ errorChan = -1 =>
          closed /\ (lateStart \/ \A w \in PoolWorkers : worker[w].pc \in {"none", "gone"})

PoolInv == WorkerInv /\ ClosedInv /\ PanicOnlyAfterLateStart

LEMMA PoolStart == PoolInit => PoolInv
  <1> SUFFICES ASSUME PoolInit PROVE PoolInv
    OBVIOUS
  <1>1. WorkerInv
    BY DEF PoolInit, WorkerInv, At
  <1>2. ClosedInv /\ PanicOnlyAfterLateStart
    BY DEF PoolInit, ClosedInv, PanicOnlyAfterLateStart
  <1> QED
    BY <1>1, <1>2 DEF PoolInv

\* Submit puts tasks into the channel and nothing else.
LEMMA SubmitType ==
    ASSUME taskChan \in Seq(Tasks), NEW t \in Tasks, Submit(t)
    PROVE  taskChan' \in Seq(Tasks)
  BY DEF Submit

\* The steps of a caller, of contexts and of a reader of errors.
LEMMA CallerKeeps ==
    ASSUME PoolInv, ~panicked,
           CancelParent \/ Drain \/ \E t \in Tasks : Call(t) \/ Expire(t)
    PROVE  PoolInv'
  <1> USE DEF PoolInv, WorkerInv, ClosedInv, PanicOnlyAfterLateStart, ctlVars
  <1>1. ASSUME NEW t \in Tasks, Call(t) PROVE PoolInv'
    <2>1. taskChan' \in Seq(Tasks)
      BY <1>1, SubmitType DEF Call
    <2> QED
      BY <1>1, <2>1 DEF Call
  <1>2. ASSUME NEW t \in Tasks, Expire(t) PROVE PoolInv'
    BY <1>2 DEF Expire
  <1>3. CASE CancelParent
    BY <1>3 DEF CancelParent
  <1>4. CASE Drain
    BY <1>4 DEF Drain
  <1> QED
    BY <1>1, <1>2, <1>3, <1>4

\* The steps of a worker: with errorChan closed only a worker of a late Start takes any.
LEMMA WorkerKeeps ==
    ASSUME PoolInv, ~panicked, NEW w \in PoolWorkers,
           \/ WorkerStep(w) \/ EnterSubmit(w)
           \/ \E failed \in BOOLEAN : Return(w, failed)
    PROVE  PoolInv'
  <1> USE DEF PoolInv
  <1>1. worker[w].pc \notin {"none", "gone"}
    BY DEF WorkerStep, Take, Exit, SubmitFromTask, EnterSubmit, Return
  <1>2. errorChan = -1 => closed /\ lateStart
    BY <1>1 DEF ClosedInv
  <1>3. UNCHANGED <<mu, closed, lateStart>> /\ (errorChan' = -1 => errorChan = -1)
    BY DEF WorkerStep, Take, Exit, SubmitFromTask, EnterSubmit, Return, ctlVars, WorkerInv
  <1>4. ClosedInv'
    BY <1>2, <1>3 DEF ClosedInv
  <1>5. PanicOnlyAfterLateStart'
    <2>1. CASE UNCHANGED panicked
      BY <1>3, <2>1 DEF PanicOnlyAfterLateStart
    <2>2. ASSUME NEW failed \in BOOLEAN, Return(w, failed) PROVE PanicOnlyAfterLateStart'
      BY <1>2, <1>3, <2>2 DEF Return, PanicOnlyAfterLateStart
    <2> QED
      BY <2>1, <2>2 DEF WorkerStep, Take, Exit, SubmitFromTask, EnterSubmit
  <1>6. WorkerInv'
    <2>1. CASE Take(w)
      BY <2>1 DEF Take, At, WorkerInv
    <2>2. CASE Exit(w)
      BY <2>2 DEF Exit, Gone, At, WorkerInv
    <2>3. CASE SubmitFromTask(w)
      <3>1. taskChan' \in Seq(Tasks)
        BY <2>3, SubmitType DEF SubmitFromTask, WorkerInv
      <3> QED
        BY <2>3, <3>1 DEF SubmitFromTask, WorkerInv
    <2>4. CASE EnterSubmit(w)
      BY <2>4 DEF EnterSubmit, WorkerInv
    <2>5. ASSUME NEW failed \in BOOLEAN, Return(w, failed) PROVE WorkerInv'
      BY <2>5, PoolAssumption DEF Return, Idle, At, WorkerInv
    <2> QED
      BY <2>1, <2>2, <2>3, <2>4, <2>5 DEF WorkerStep
  <1> QED
    BY <1>4, <1>5, <1>6

\* Start and the two halves of Shutdown.
LEMMA ControlKeeps == ASSUME PoolInv, ~panicked, Start \/ Shutdown \/ Waited PROVE PoolInv'
  <1> USE DEF PoolInv, WorkerInv, ClosedInv, PanicOnlyAfterLateStart
  <1>1. CASE Start
    BY <1>1 DEF Start, Idle, At
  <1>2. CASE Shutdown
    BY <1>2 DEF Shutdown
  <1>3. CASE Waited
    BY <1>3 DEF Waited
  <1> QED
    BY <1>1, <1>2, <1>3

\* PoolInv is an invariant of the worker pool.
THEOREM PoolInvariance == PoolSpec => []PoolInv
  <1>1. PoolInv /\ [PoolNext]_poolVars => PoolInv'
    <2> SUFFICES ASSUME PoolInv, [PoolNext]_poolVars PROVE PoolInv'
      OBVIOUS
    <2>1. CASE PoolNext
      BY <2>1, CallerKeeps, WorkerKeeps, ControlKeeps DEF PoolNext
    <2>2. CASE UNCHANGED poolVars
      BY <2>2 DEF poolVars, ctlVars, PoolInv, WorkerInv, ClosedInv, PanicOnlyAfterLateStart
    <2> QED
      BY <2>1, <2>2
  <1> QED
    BY <1>1, PoolStart, PTL DEF PoolSpec

\* No worker sends on the closed errorChan unless Start was called after Shutdown.
THEOREM PoolPanics == PoolSpec => []PanicOnlyAfterLateStart
  <1>1. PoolInv => PanicOnlyAfterLateStart
    BY DEF PoolInv
  <1> QED
    BY <1>1, PoolInvariance, PTL

----------------------------------------------------------------------------
(* WorkerPool: where the tasks are *)

Busy(w) == worker[w].pc \in {"running", "submitting", "submitted"}
Queued(t) == \E i \in 1..Len(taskChan) : taskChan[i] = t

\* The channel holds each task that waits once and no other, within its capacity.
ChannelInv ==
    /\ task \in [Tasks -> {"new", "queued", "refused", "running", "ran"}]
    /\ Len(taskChan) <= BufferSize
    /\ \A i, j \in 1..Len(taskChan) : taskChan[i] = taskChan[j] => i = j
    /\ \A t \in Tasks : task[t] = "queued" <=> Queued(t)

\* A running task has one worker, and a worker is busy with a running task or has none.
HolderInv ==
    /\ \A w \in PoolWorkers : IF Busy(w) THEN worker[w].task \in Tasks ELSE worker[w].task = NoTask
    /\ \A w \in PoolWorkers : Busy(w) => task[worker[w].task] = "running"
    /\ \A v, w \in PoolWorkers : Busy(v) /\ Busy(w) /\ worker[v].task = worker[w].task => v = w
    /\ \A t \in Tasks : task[t] = "running" => \E w \in PoolWorkers : worker[w].task = t
    /\ ~started => \A w \in PoolWorkers : worker[w].pc = "none"

TasksInv == WorkerInv /\ ChannelInv /\ HolderInv

\* A call of Submit puts its task behind the others or refuses it; no running task is touched.
LEMMA SubmitKeeps ==
    ASSUME WorkerInv, ChannelInv, NEW t \in Tasks, Submit(t)
    PROVE  ChannelInv' /\ \A u \in Tasks : task'[u] = "running" <=> task[u] = "running"
  <1> USE DEF WorkerInv, ChannelInv
  <1>1. task[t] = "new" /\ ~Queued(t)
    BY DEF Submit
  <1>2. CASE /\ ~closed /\ Len(taskChan) < BufferSize
             /\ taskChan' = Append(taskChan, t)
             /\ task' = [task EXCEPT ![t] = "queued"]
    <2>1. Len(taskChan') = Len(taskChan) + 1 /\ Len(taskChan') <= BufferSize
      BY <1>2, PoolAssumption
    <2>2. \A i \in 1..Len(taskChan') : taskChan'[i] = IF i <= Len(taskChan) THEN taskChan[i] ELSE t
      BY <1>2
    <2>3. Len(taskChan) \in Nat
      OBVIOUS
    <2>4. \A i, j \in 1..Len(taskChan') : taskChan'[i] = taskChan'[j] => i = j
      BY <1>1, <2>1, <2>2, <2>3 DEF Queued
    <2>5. ASSUME NEW u \in Tasks PROVE (Queued(u))' <=> (u = t \/ Queued(u))
      <3> HIDE DEF WorkerInv, ChannelInv
      <3>1. taskChan'[Len(taskChan')] = t /\ Len(taskChan') \in 1..Len(taskChan')
        BY <2>1, <2>2, <2>3
      <3> QED
        BY <2>1, <2>2, <2>3, <3>1 DEF Queued
    <2>6. \A u \in Tasks : task'[u] = IF u = t THEN "queued" ELSE task[u]
      BY <1>2
    <2> QED
      BY <1>1, <1>2, <2>1, <2>4, <2>5, <2>6
  <1>3. CASE task' = [task EXCEPT ![t] = "refused"] /\ UNCHANGED taskChan
    BY <1>1, <1>3 DEF Queued
  <1> QED
    BY <1>2, <1>3 DEF Submit

\* The worker that takes the oldest task takes the only copy of it out of the channel.
LEMMA TakenOnce ==
    ASSUME TasksInv, NEW w \in PoolWorkers, Take(w)
    PROVE  ChannelInv' /\ HolderInv'
  <1> USE DEF TasksInv
  <1>0. PICK h \in Tasks : h = Head(taskChan)
    BY DEF Take, WorkerInv
  <1>1. Len(taskChan) \in Nat /\ Len(taskChan) >= 1 /\ h = taskChan[1]
    BY <1>0 DEF Take, WorkerInv
  <1>2. Queued(h) /\ task[h] = "queued"
    BY <1>1 DEF Queued, ChannelInv
  <1>3. Len(taskChan') = Len(taskChan) - 1 /\ \A i \in 1..Len(taskChan') : taskChan'[i] = taskChan[i + 1]
    BY <1>1 DEF Take, WorkerInv
  <1>4. task' = [task EXCEPT ![h] = "running"] /\ worker' = [worker EXCEPT ![w] = At("running", h)]
        /\ ~Busy(w) /\ started' = started
    BY <1>0 DEF Take, Busy, ctlVars
  <1>5. \A u \in Tasks : task'[u] = IF u = h THEN "running" ELSE task[u]
    BY <1>4 DEF ChannelInv
  <1>6. ChannelInv'
    <2>1. Len(taskChan') <= BufferSize
      BY <1>1, <1>3, PoolAssumption DEF ChannelInv
    <2>2. \A i, j \in 1..Len(taskChan') : taskChan'[i] = taskChan'[j] => i = j
      BY <1>1, <1>3 DEF ChannelInv
    <2>3. ~(Queued(h))'
      BY <1>1, <1>3 DEF ChannelInv, Queued
    <2>4. ASSUME NEW u \in Tasks, u # h PROVE (Queued(u))' <=> Queued(u)
      <3>1. ASSUME NEW i \in 1..Len(taskChan), taskChan[i] = u PROVE (Queued(u))'
        <4>1. i - 1 \in 1..Len(taskChan') /\ taskChan'[i - 1] = u
          BY <1>1, <1>3, <2>4, <3>1
        <4> QED
          BY <4>1 DEF Queued
      <3>2. ASSUME NEW i \in 1..Len(taskChan'), taskChan'[i] = u PROVE Queued(u)
        <4>1. i + 1 \in 1..Len(taskChan) /\ taskChan[i + 1] = u
          BY <1>1, <1>3, <3>2
        <4> QED
          BY <4>1 DEF Queued
      <3> QED
        BY <3>1, <3>2 DEF Queued
    <2>5. task' \in [Tasks -> {"new", "queued", "refused", "running", "ran"}]
      BY <1>1, <1>4 DEF ChannelInv
    <2>6. \A u \in Tasks : task'[u] = "queued" <=> (Queued(u))'
      BY <1>5, <2>3, <2>4 DEF ChannelInv
    <2> QED
      BY <2>1, <2>2, <2>5, <2>6 DEF ChannelInv
  <1>7. HolderInv'
    <2>1. \A v \in PoolWorkers : worker'[v] = IF v = w THEN At("running", h) ELSE worker[v]
      BY <1>4 DEF WorkerInv
    <2>2. \A v \in PoolWorkers : (Busy(v))' <=> (v = w \/ Busy(v))
      BY <2>1 DEF Busy, At
    <2>3. \A v \in PoolWorkers : worker'[v].task = IF v = w THEN h ELSE worker[v].task
      BY <2>1 DEF At
    <2>4. started
      BY DEF Take, HolderInv
    <2> QED
      BY <1>1, <1>2, <1>4, <1>5, <2>2, <2>3, <2>4, PoolAssumption DEF HolderInv
  <1> QED
    BY <1>6, <1>7

\* A worker whose task returns is the only one that has it.
LEMMA ReturnKeeps ==
    ASSUME TasksInv, NEW w \in PoolWorkers, NEW failed \in BOOLEAN, Return(w, failed)
    PROVE  ChannelInv' /\ HolderInv'
  <1> DEFINE r == worker[w].task
  <1> USE DEF TasksInv
  <1>1. Busy(w) /\ r \in Tasks /\ task[r] = "running"
    BY DEF Return, Busy, HolderInv
  <1>2. task' = [task EXCEPT ![r] = "ran"] /\ worker' = [worker EXCEPT ![w] = Idle]
        /\ taskChan' = taskChan /\ started' = started
    BY DEF Return, ctlVars
  <1>3. started
    BY DEF Return, HolderInv
  <1>4. \A v \in PoolWorkers : Busy(v) /\ v # w => worker[v].task # r
    BY <1>1 DEF HolderInv
  <1> HIDE DEF r
  <1>5. \A u \in Tasks : task'[u] = IF u = r THEN "ran" ELSE task[u]
    BY <1>2 DEF ChannelInv
  <1>6. ChannelInv'
    BY <1>1, <1>2, <1>5 DEF ChannelInv, Queued
  <1>7. \A v \in PoolWorkers : worker'[v] = IF v = w THEN Idle ELSE worker[v]
    BY <1>2 DEF WorkerInv
  <1>8. \A v \in PoolWorkers : (Busy(v))' <=> (v # w /\ Busy(v))
    BY <1>7 DEF Busy, Idle, At
  <1>9. \A v \in PoolWorkers : worker'[v].task = IF v = w THEN NoTask ELSE worker[v].task
    BY <1>7 DEF Idle, At
  <1>10. HolderInv'
    <2>1. \A v \in PoolWorkers : (Busy(v))' => task'[worker'[v].task] = "running"
      BY <1>4, <1>5, <1>8, <1>9 DEF HolderInv
    <2>2. ASSUME NEW u \in Tasks, task'[u] = "running"
          PROVE  \E v \in PoolWorkers : worker'[v].task = u
      <3>1. u # r /\ task[u] = "running"
        BY <1>5, <2>2
      <3>2. PICK v \in PoolWorkers : worker[v].task = u
        BY <3>1 DEF HolderInv
      <3>3. v # w
        BY <3>1, <3>2 DEF r
      <3> QED
        BY <1>9, <3>2, <3>3
    <2> QED
      BY <1>2, <1>3, <1>8, <1>9, <2>1, <2>2 DEF HolderInv
  <1> QED
    BY <1>6, <1>10

\* A worker's other steps leave it with the task it has, or with none if it had none.
LEMMA SameHolders ==
    ASSUME TasksInv, NEW w \in PoolWorkers,
           \/ Exit(w) \/ EnterSubmit(w)
           \/ SubmitFromTask(w)
    PROVE  /\ started /\ started' = started
           /\ \A v \in PoolWorkers : worker'[v].task = worker[v].task /\ ((Busy(v))' <=> Busy(v))
  <1> USE DEF TasksInv
  <1>1. started /\ started' = started
    BY DEF Exit, EnterSubmit, SubmitFromTask, ctlVars, HolderInv
  <1>2. worker[w].task = NoTask => ~Busy(w)
    BY PoolAssumption DEF HolderInv
  <1>3. CASE Exit(w)
    <2>1. ~Busy(w) /\ worker[w].task = NoTask
      BY <1>3 DEF Exit, Busy, HolderInv
    <2>2. \A v \in PoolWorkers : worker'[v] = IF v = w THEN Gone ELSE worker[v]
      BY <1>3 DEF Exit, WorkerInv
    <2> QED
      BY <1>1, <2>1, <2>2 DEF Busy, Gone, At
  <1>4. CASE EnterSubmit(w) \/ SubmitFromTask(w)
    <2>1. Busy(w)
      BY <1>4 DEF EnterSubmit, SubmitFromTask, Busy
    <2>2. PICK pc \in {"submitting", "submitted"} : worker' = [worker EXCEPT ![w].pc = pc]
      BY <1>4 DEF EnterSubmit, SubmitFromTask
    <2>3. \A v \in PoolWorkers : v # w => worker'[v] = worker[v]
      BY <2>2 DEF WorkerInv
    <2>4. worker'[w].pc = pc /\ worker'[w].task = worker[w].task
      BY <2>2 DEF WorkerInv
    <2> QED
      BY <1>1, <2>1, <2>3, <2>4 DEF Busy
  <1> QED
    BY <1>3, <1>4

\* Every task keeps its holder when no worker changes hands and the running tasks are the same.
LEMMA HoldersStay ==
    ASSUME TasksInv, started' = started, started \/ worker' = worker,
           \A v \in PoolWorkers : worker'[v].task = worker[v].task /\ ((Busy(v))' <=> Busy(v)),
           \A u \in Tasks : task'[u] = "running" <=> task[u] = "running"
    PROVE  HolderInv'
  <1> USE DEF TasksInv
  <1>1. \A v \in PoolWorkers :
           IF (Busy(v))' THEN worker'[v].task \in Tasks ELSE worker'[v].task = NoTask
    BY DEF HolderInv
  <1>2. \A v \in PoolWorkers : (Busy(v))' => task'[worker'[v].task] = "running"
    BY DEF HolderInv
  <1>3. \A v, w \in PoolWorkers :
           (Busy(v))' /\ (Busy(w))' /\ worker'[v].task = worker'[w].task => v = w
    BY DEF HolderInv
  <1>4. \A u \in Tasks : task'[u] = "running" => \E w \in PoolWorkers : worker'[w].task = u
    BY DEF HolderInv
  <1>5. ~started' => \A w \in PoolWorkers : worker'[w].pc = "none"
    BY DEF HolderInv
  <1> QED
    BY <1>1, <1>2, <1>3, <1>4, <1>5 DEF HolderInv

\* Every step keeps the tasks in order.
LEMMA TasksStep == TasksInv /\ WorkerInv' /\ [PoolNext]_poolVars => TasksInv'
  <1> SUFFICES ASSUME TasksInv, WorkerInv', [PoolNext]_poolVars PROVE ChannelInv' /\ HolderInv'
    BY DEF TasksInv
  <1>1. ASSUME NEW t \in Tasks, Call(t) PROVE ChannelInv' /\ HolderInv'
    <2>1. ChannelInv' /\ \A u \in Tasks : task'[u] = "running" <=> task[u] = "running"
      BY <1>1, SubmitKeeps DEF Call, TasksInv
    <2>2. worker' = worker /\ started' = started
      BY <1>1 DEF Call, ctlVars
    <2> QED
      BY <2>1, <2>2, HoldersStay DEF Busy
  <1>2. ASSUME NEW w \in PoolWorkers, SubmitFromTask(w) PROVE ChannelInv' /\ HolderInv'
    <2>1. PICK t \in Tasks : Submit(t)
      BY <1>2 DEF SubmitFromTask
    <2>2. ChannelInv' /\ \A u \in Tasks : task'[u] = "running" <=> task[u] = "running"
      BY <2>1, SubmitKeeps DEF TasksInv
    <2> QED
      BY <1>2, <2>2, SameHolders, HoldersStay
  <1>3. ASSUME NEW w \in PoolWorkers, Exit(w) \/ EnterSubmit(w) PROVE ChannelInv' /\ HolderInv'
    <2>1. task' = task /\ taskChan' = taskChan
      BY <1>3 DEF Exit, EnterSubmit
    <2>2. ChannelInv'
      BY <2>1 DEF TasksInv, ChannelInv, Queued
    <2> QED
      BY <1>3, <2>1, <2>2, SameHolders, HoldersStay
  <1>4. CASE Start
    <2>1. ~started /\ started' /\ task' = task /\ taskChan' = taskChan
      BY <1>4 DEF Start
    <2>2. ChannelInv'
      BY <2>1 DEF TasksInv, ChannelInv, Queued
    <2>3. \A w \in PoolWorkers : ~Busy(w) /\ worker[w].task = NoTask
      BY <2>1 DEF TasksInv, HolderInv, Busy
    <2>4. \A t \in Tasks : task'[t] # "running"
      BY <2>1, <2>3, PoolAssumption DEF TasksInv, HolderInv
    <2>5. \A w \in PoolWorkers : ~(Busy(w))' /\ worker'[w].task = NoTask
      BY <1>4 DEF Start, Busy, Idle, At
    <2> QED
      BY <2>1, <2>2, <2>4, <2>5 DEF HolderInv
  <1>5. CASE UNCHANGED <<worker, task, taskChan, started>>
    <2>1. ChannelInv'
      BY <1>5 DEF TasksInv, ChannelInv, Queued
    <2> QED
      BY <1>5, <2>1, HoldersStay DEF Busy
  <1>6. CASE UNCHANGED poolVars \/ CancelParent \/ Drain \/ Shutdown \/ Waited \/ \E t \in Tasks : Expire(t)
    BY <1>5, <1>6 DEF poolVars, ctlVars, CancelParent, Drain, Shutdown, Waited, Expire
  <1> QED
    BY <1>1, <1>2, <1>3, <1>4, <1>6, TakenOnce, ReturnKeeps DEF PoolNext, WorkerStep

\* Each task waits in the channel once, has one worker while it runs, and is in one place only.
THEOREM TasksHeldOnce == PoolSpec => []TasksInv
  <1>1. PoolInit => TasksInv
    <2> SUFFICES ASSUME PoolInit PROVE TasksInv
      OBVIOUS
    <2>1. WorkerInv
      BY PoolStart DEF PoolInv
    <2>2. ChannelInv
      BY PoolAssumption DEF PoolInit, ChannelInv, Queued
    <2>3. \A w \in PoolWorkers : worker[w].pc = "none" /\ worker[w].task = NoTask
      BY DEF PoolInit, At
    <2>4. HolderInv
      BY <2>3 DEF PoolInit, HolderInv, Busy
    <2> QED
      BY <2>1, <2>2, <2>4 DEF TasksInv
  <1>2. PoolInv => WorkerInv
    BY DEF PoolInv
  <1> QED
    BY <1>1, <1>2, PoolInvariance, TasksStep, PTL DEF PoolSpec

\* A task whose fate is settled: it ran, or Submit refused it.
SettledOnce == \A t \in Tasks : task[t] \in {"refused", "ran"} => task'[t] = task[t]

\* No task is run again or accepted after all, whichever worker, caller or Shutdown moves: Take
\* meets only tasks that wait and Return only tasks that run.
THEOREM TasksSettle == PoolSpec => [][SettledOnce]_poolVars
  <1>1. TasksInv /\ [PoolNext]_poolVars => [SettledOnce]_poolVars
    <2> SUFFICES ASSUME TasksInv, PoolNext PROVE SettledOnce
      OBVIOUS
    <2> USE DEF TasksInv
    <2>1. ASSUME NEW t \in Tasks, Submit(t) PROVE SettledOnce
      BY <2>1 DEF Submit, SettledOnce, ChannelInv
    <2>2. ASSUME NEW w \in PoolWorkers, Take(w) PROVE SettledOnce
      <3>1. Head(taskChan) = taskChan[1] /\ 1 \in 1..Len(taskChan) /\ Head(taskChan) \in Tasks
        BY <2>2 DEF Take, WorkerInv
      <3>2. task[Head(taskChan)] = "queued"
        BY <3>1 DEF ChannelInv, Queued
      <3> QED
        BY <2>2, <3>1, <3>2 DEF Take, SettledOnce, ChannelInv
    <2>3. ASSUME NEW w \in PoolWorkers, NEW failed \in BOOLEAN, Return(w, failed) PROVE SettledOnce
      <3>1. worker[w].task \in Tasks /\ task[worker[w].task] = "running"
        BY <2>3 DEF Return, HolderInv, Busy
      <3>2. task' = [task EXCEPT ![worker[w].task] = "ran"]
        BY <2>3 DEF Return
      <3> QED
        BY <3>1, <3>2 DEF SettledOnce, ChannelInv
    <2>4. CASE UNCHANGED task
      BY <2>4 DEF SettledOnce
    <2> QED
      BY <2>1, <2>2, <2>3, <2>4 DEF PoolNext, WorkerStep, Call, SubmitFromTask, Start, CancelParent,
         Drain, Shutdown, Waited, Expire, Exit, EnterSubmit
  <1> QED
    BY <1>1, TasksHeldOnce, PTL DEF PoolSpec

----------------------------------------------------------------------------
(* Container *)

\* An instance is created only while there is none, so at most once until Close.
ContainerInv ==
    /\ created \in [Getters -> 0..1]
    /\ \A p \in Getters \ present : created[p] = 0

\* ContainerInv is an invariant of the container's getters and of Close.
THEOREM ContainerInvariance == ContainerSpec => []ContainerInv
  <1>1. ContainerInit => ContainerInv
    BY DEF ContainerInit, ContainerInv
  <1>2. ContainerInv /\ [ContainerNext]_containerVars => ContainerInv'
    <2> SUFFICES ASSUME ContainerInv, [ContainerNext]_containerVars PROVE ContainerInv'
      OBVIOUS
    <2> USE DEF ContainerInv
    <2>1. CASE UNCHANGED <<present, created>>
      BY <2>1
    <2>2. ASSUME NEW t \in Callers, Create(t) PROVE ContainerInv'
      <3>1. CASE present' = present \cup {Top(t)} /\ created' = [created EXCEPT ![Top(t)] = Made(@)]
        <4>1. Top(t) \notin present
          BY <2>2 DEF Create
        <4>2. Top(t) \in Getters => Made(created[Top(t)]) = 1
          BY <4>1 DEF Made
        <4>3. \A p \in Getters : created'[p] = IF p = Top(t) THEN 1 ELSE created[p]
          BY <3>1, <4>2
        <4>4. created' \in [Getters -> 0..1]
          <5>1. created' = [p \in Getters |-> IF p = Top(t) THEN 1 ELSE created[p]]
            BY <3>1, <4>2
          <5> QED
            BY <5>1
        <4> QED
          BY <3>1, <4>3, <4>4
      <3> QED
        BY <2>1, <2>2, <3>1 DEF Create
    <2>3. CASE CloseContainer
      BY <2>3 DEF CloseContainer
    <2>4. ASSUME NEW t \in Callers, GetterStep(t) PROVE ContainerInv'
      BY <2>1, <2>2, <2>4 DEF GetterStep, Look, LockContainer, Found, Descend, CreateFails
    <2>5. ASSUME NEW t \in Callers, NEW p \in Asked, Ask(t, p) PROVE ContainerInv'
      BY <2>1, <2>5 DEF Ask
    <2>6. CASE UNCHANGED containerVars
      BY <2>1, <2>6 DEF containerVars
    <2> QED
      BY <2>3, <2>4, <2>5, <2>6 DEF ContainerNext
  <1> QED
    BY <1>1, <1>2, PTL DEF ContainerSpec

\* However the callers of the container race, no instance is created twice before Close.
THEOREM ContainerShares == ContainerSpec => []InstanceShared
  <1>1. ContainerInv => InstanceShared
    BY DEF ContainerInv, InstanceShared
  <1> QED
    BY <1>1, ContainerInvariance, PTL

----------------------------------------------------------------------------
(* Container: who holds c.mu *)

\* A call in progress; only a getter that takes c.mu waits for it.
Frame == {f \in [getter : Getters, done : Nat, pc : {"look", "lock", "held"}] :
             f.getter \in Unguarded => f.pc = "held"}

\* A getter in which the caller has taken c.mu and not given it back.
Holds(f) == f.pc = "held" /\ f.getter \notin Unguarded

\* Every caller is in a stack of such calls.
StackInv == stack \in [Callers -> Seq(Frame)]

\* c.mu is held exactly while some getter has it, by that getter's caller, and by one getter only.
LockInv ==
    /\ \A t \in Callers : \A i \in 1..Len(stack[t]) : Holds(stack[t][i]) => cmu = t
    /\ \A t \in Callers : \A i, j \in 1..Len(stack[t]) :
          Holds(stack[t][i]) /\ Holds(stack[t][j]) => i = j
    /\ cmu # Nobody => cmu \in Callers /\ \E i \in 1..Len(stack[cmu]) : Holds(stack[cmu][i])

FrameInv == StackInv /\ LockInv

\* The caller waits for the lock that it holds itself.
Stuck(t) == cmu = t /\ stack[t] # <<>> /\ Head(stack[t]).pc \in {"look", "lock"}

\* The getters that take c.mu and call no other, and those that take it not.
Lone == {p \in Getters : Needs[p] = <<>>} \cup Unguarded

\* With such getters alone, only one that takes no lock has called another.
LoneInv ==
    \A t \in Callers : \A i \in 1..Len(stack[t]) :
       /\ stack[t][i].getter \in Lone
       /\ i > 1 => stack[t][i].getter \in Unguarded

\* A caller that waits for its own lock waits for good.
StuckForGood == \A t \in Callers : Stuck(t) => Stuck(t)'

\* What a getter calls are getters.
LEMMA NeedsAre == \A p \in Getters : Needs[p] \in Seq(Getters)
  <1>1. Getters = {"GetCacheRepository", "GetConfigRepository", "GetUpstreamClient",
                   "GetHandlerAdapterFactory", "GetAptProxyConfig", "ProvideConfigLoader",
                   "GetRootConfig", "GetCacheService", "GetConfigService", "GetServiceFactory",
                   "GetHandlerFactory", "ProvideConfigWatcher", "ProvideHotReloadManager"}
    BY DEF Needs, Getters
  <1>2. \A p \in {"GetCacheRepository", "GetConfigRepository", "GetUpstreamClient",
                   "GetHandlerAdapterFactory", "GetAptProxyConfig", "ProvideConfigLoader"} :
           Needs[p] = <<>>
    BY DEF Needs
  <1>3. /\ Needs["GetRootConfig"] = <<"ProvideConfigLoader">>
        /\ Needs["GetCacheService"] = <<"GetCacheRepository">>
        /\ Needs["GetConfigService"] = <<"GetConfigRepository">>
        /\ Needs["GetServiceFactory"] = <<"GetCacheService", "GetConfigService", "GetUpstreamClient">>
        /\ Needs["GetHandlerFactory"] = <<"GetServiceFactory">>
        /\ Needs["ProvideConfigWatcher"] = <<"ProvideConfigLoader">>
        /\ Needs["ProvideHotReloadManager"] = <<"ProvideConfigLoader">>
    BY DEF Needs
  <1>4. /\ <<>> \in Seq(Getters)
        /\ \A p, q, r \in Getters : <<p>> \in Seq(Getters) /\ <<p, q, r>> \in Seq(Getters)
    OBVIOUS
  <1> DEFINE S == Seq(Getters)
  <1>5. \A p \in {"GetCacheRepository", "GetConfigRepository", "GetUpstreamClient",
                   "GetHandlerAdapterFactory", "GetAptProxyConfig", "ProvideConfigLoader"} : Needs[p] \in S
    BY <1>2, <1>4
  <1>6. /\ Needs["GetRootConfig"] \in S /\ Needs["GetCacheService"] \in S
        /\ Needs["GetConfigService"] \in S /\ Needs["GetServiceFactory"] \in S
        /\ Needs["GetHandlerFactory"] \in S /\ Needs["ProvideConfigWatcher"] \in S
        /\ Needs["ProvideHotReloadManager"] \in S
    <2>1. {"ProvideConfigLoader", "GetCacheRepository", "GetConfigRepository", "GetCacheService",
           "GetConfigService", "GetUpstreamClient", "GetServiceFactory"} \subseteq Getters
      BY <1>1
    <2> QED
      BY <1>3, <1>4, <2>1
  <1> HIDE DEF S
  <1>7. \A p \in Getters : Needs[p] \in S
    BY <1>1, <1>5, <1>6
  <1> QED
    BY <1>7 DEF S

\* A getter is entered without the lock.
LEMMA EntryIs ==
    ASSUME NEW p \in Getters
    PROVE  Entry(p) \in Frame /\ ~Holds(Entry(p)) /\ Entry(p).getter = p
  <1>1. CASE p \in DoubleChecked
    <2>1. p \notin Unguarded
      BY <1>1 DEF DoubleChecked, Unguarded
    <2> QED
      BY <1>1, <2>1 DEF Entry, Frame, Holds
  <1>2. CASE p \in Unguarded /\ p \notin DoubleChecked
    BY <1>2 DEF Entry, Frame, Holds
  <1>3. CASE p \notin DoubleChecked /\ p \notin Unguarded
    BY <1>3 DEF Entry, Frame, Holds
  <1> QED
    BY <1>1, <1>2, <1>3

\* What each step makes of the stack of its caller; the other callers keep theirs.
LEMMA BackIs ==
    ASSUME StackInv, NEW t \in Callers, stack[t] # <<>>, Back(t)
    PROVE  /\ StackInv' /\ \A u \in Callers : u # t => stack'[u] = stack[u]
           /\ Len(stack'[t]) = Len(stack[t]) - 1
           /\ \A i \in 1..Len(stack'[t]) : /\ stack'[t][i].getter = stack[t][i + 1].getter
                                           /\ stack'[t][i].pc = stack[t][i + 1].pc
  <1> DEFINE s == stack[t]
             f == Served(s[2])
             r == IF Len(s) = 1 THEN <<>> ELSE <<f>> \o Tail(Tail(s))
  <1>1. s \in Seq(Frame) /\ Len(s) \in Nat /\ Len(s) >= 1
    BY DEF StackInv
  <1>2. stack' = [stack EXCEPT ![t] = r]
    BY DEF Back
  <1> HIDE DEF r
  <1>3. stack'[t] = r /\ \A u \in Callers : u # t => stack'[u] = stack[u]
    BY <1>2 DEF StackInv
  <1> USE DEF r
  <1> HIDE DEF s
  <1>4. CASE Len(s) = 1
    <2>1. r = <<>>
      BY <1>4
    <2> QED
      BY <1>1, <1>2, <1>3, <1>4, <2>1 DEF StackInv, s
  <1>5. CASE Len(s) > 1
    <2>1. s[2] \in Frame
      BY <1>1, <1>5
    <2>2. f \in Frame /\ f.getter = s[2].getter /\ f.pc = s[2].pc
      BY <2>1 DEF Frame, Served
    <2> DEFINE q == Tail(Tail(s))
    <2>3. Tail(s) \in Seq(Frame) /\ Len(Tail(s)) = Len(s) - 1
          /\ \A i \in 1..(Len(s) - 1) : Tail(s)[i] = s[i + 1]
      BY <1>1, <1>5
    <2>4. q \in Seq(Frame) /\ Len(q) = Len(s) - 2 /\ \A i \in 1..(Len(s) - 2) : q[i] = s[i + 2]
      BY <1>1, <1>5, <2>3
    <2>5. r = <<f>> \o q
      BY <1>5
    <2> HIDE DEF f, q
    <2>6. r \in Seq(Frame) /\ Len(r) = Len(s) - 1
      BY <1>1, <1>5, <2>2, <2>4, <2>5
    <2>7. r[1] = f /\ \A i \in 2..Len(r) : r[i] = q[i - 1]
      BY <1>1, <1>5, <2>2, <2>4, <2>5, <2>6
    <2> HIDE DEF r
    <2>8. ASSUME NEW i \in 1..Len(r) PROVE r[i].getter = s[i + 1].getter /\ r[i].pc = s[i + 1].pc
      <3>1. CASE i = 1
        BY <2>2, <2>7, <3>1
      <3>2. CASE i > 1
        BY <1>1, <2>4, <2>6, <2>7, <3>2
      <3> QED
        BY <3>1, <3>2
    <2>9. StackInv'
      BY <1>2, <2>6 DEF StackInv
    <2> QED
      BY <1>3, <2>6, <2>8, <2>9 DEF s
  <1> HIDE DEF f, r
  <1>6. Len(s) \in Nat \ {0}
    BY <1>1
  <1>7. ASSUME NEW n \in Nat \ {0} PROVE n = 1 \/ n > 1
    OBVIOUS
  <1> QED
    BY <1>4, <1>5, <1>6, <1>7, Zenon

LEMMA MoveIs ==
    ASSUME StackInv, NEW t \in Callers, stack[t] # <<>>, NEW pc \in {"lock", "held"},
           pc = "lock" => In(t, "look"), Move(t, pc)
    PROVE  /\ StackInv' /\ \A u \in Callers : u # t => stack'[u] = stack[u]
           /\ Len(stack'[t]) = Len(stack[t])
           /\ stack'[t][1].pc = pc /\ stack'[t][1].getter = stack[t][1].getter
           /\ \A i \in 2..Len(stack[t]) : stack'[t][i] = stack[t][i]
  <1> DEFINE s == stack[t]
             f == [Head(s) EXCEPT !.pc = pc]
             q == Tail(s)
             r == <<f>> \o q
  <1>1. s \in Seq(Frame) /\ Len(s) \in Nat /\ Len(s) >= 1 /\ (pc = "lock" => Head(s).pc = "look")
    BY DEF StackInv, In
  <1>2. stack' = [stack EXCEPT ![t] = r]
    BY DEF Move
  <1> HIDE DEF r
  <1>3. stack'[t] = r /\ \A u \in Callers : u # t => stack'[u] = stack[u]
    BY <1>2 DEF StackInv
  <1> USE DEF r
  <1> HIDE DEF s
  <1>4. f \in Frame /\ f.getter = s[1].getter /\ f.pc = pc
    <2>1. Head(s) = s[1] /\ s[1] \in Frame
      BY <1>1
    <2> QED
      BY <1>1, <2>1 DEF Frame
  <1>5. q \in Seq(Frame) /\ Len(q) = Len(s) - 1 /\ \A i \in 1..(Len(s) - 1) : q[i] = s[i + 1]
    BY <1>1
  <1> HIDE DEF f, q
  <1>6. r \in Seq(Frame) /\ Len(r) = Len(s) /\ r[1] = f /\ \A i \in 2..Len(r) : r[i] = q[i - 1]
    BY <1>1, <1>4, <1>5
  <1> HIDE DEF r
  <1>7. \A i \in 2..Len(s) : r[i] = s[i]
    BY <1>1, <1>5, <1>6
  <1>8. StackInv'
    BY <1>2, <1>6 DEF StackInv
  <1> QED
    BY <1>3, <1>4, <1>6, <1>7, <1>8 DEF s

LEMMA DescendIs ==
    ASSUME StackInv, NEW t \in Callers, Descend(t)
    PROVE  /\ StackInv' /\ \A u \in Callers : u # t => stack'[u] = stack[u]
           /\ Len(stack'[t]) = Len(stack[t]) + 1
           /\ ~Holds(stack'[t][1])
           /\ \E k \in 1..Len(Needs[stack[t][1].getter]) :
                 stack'[t][1].getter = Needs[stack[t][1].getter][k]
           /\ \A i \in 1..Len(stack[t]) : stack'[t][i + 1] = stack[t][i]
  <1> DEFINE s == stack[t]
             g == Head(s)
             e == Entry(Needs[g.getter][g.done + 1])
             r == <<e>> \o s
  <1>1. s \in Seq(Frame) /\ Len(s) \in Nat /\ Len(s) >= 1
    BY DEF StackInv, Descend, In
  <1>2. stack' = [stack EXCEPT ![t] = r]
    BY DEF Descend
  <1> HIDE DEF r
  <1>3. stack'[t] = r /\ \A u \in Callers : u # t => stack'[u] = stack[u]
    BY <1>2 DEF StackInv
  <1> USE DEF r
  <1>4. g = s[1] /\ g \in Frame
    BY <1>1
  <1>5. g.getter \in Getters /\ g.done + 1 \in 1..Len(Needs[g.getter])
    <2>1. g.getter \in Getters /\ g.done \in Nat /\ g.done < Len(Needs[g.getter])
      BY <1>4 DEF Descend, Frame
    <2>2. Len(Needs[g.getter]) \in Nat
      BY <2>1, NeedsAre
    <2> QED
      BY <2>1, <2>2
  <1>6. e \in Frame /\ ~Holds(e) /\ e.getter = Needs[g.getter][g.done + 1]
    <2>1. Needs[g.getter][g.done + 1] \in Getters
      BY <1>5, NeedsAre
    <2> QED
      BY <2>1, EntryIs
  <1> HIDE DEF s, g, e
  <1>7. r \in Seq(Frame) /\ Len(r) = Len(s) + 1 /\ r[1] = e /\ \A i \in 1..Len(s) : r[i + 1] = s[i]
    BY <1>1, <1>6
  <1> HIDE DEF r
  <1>8. StackInv'
    BY <1>2, <1>7 DEF StackInv
  <1> QED
    BY <1>3, <1>4, <1>5, <1>6, <1>7, <1>8 DEF s

\* The other callers keep their calls, and the one that holds the lock keeps it.
LEMMA OthersKeep ==
    ASSUME FrameInv, NEW t \in Callers, GetterStep(t) \/ \E p \in Asked : Ask(t, p),
           NEW u \in Callers, u # t
    PROVE  stack'[u] = stack[u] /\ (cmu = u => cmu' = u) /\ (cmu' = u => cmu = u)
  <1> USE DEF FrameInv
  <1>1. u # Nobody /\ t # Nobody
    BY ContainerAssumption
  <1>2. ASSUME Back(t), stack[t] # <<>> PROVE stack'[u] = stack[u] /\ (cmu = u => cmu' = u) /\ (cmu' = u => cmu = u)
    <2>1. In(t, "held") /\ Top(t) \notin Unguarded => cmu = t
      <3>1. 1 \in 1..Len(stack[t]) /\ stack[t][1] = Head(stack[t])
        BY <1>2 DEF StackInv
      <3> QED
        BY <3>1 DEF In, Top, LockInv, Holds
    <2>2. stack'[u] = stack[u]
      BY <1>2, BackIs
    <2> QED
      BY <1>1, <1>2, <2>1, <2>2 DEF Back
  <1>3. ASSUME NEW pc, Move(t, pc) PROVE stack'[u] = stack[u]
    BY <1>3 DEF Move, StackInv
  <1>4. CASE Look(t)
    BY <1>1, <1>2, <1>3, <1>4 DEF Look, In
  <1>5. CASE LockContainer(t)
    BY <1>1, <1>3, <1>5 DEF LockContainer
  <1>6. CASE Found(t) \/ Create(t)
    BY <1>2, <1>6 DEF Found, Create, Ready, In
  <1>7. CASE Descend(t)
    BY <1>7, DescendIs DEF Descend
  <1>8. CASE CreateFails(t)
    BY <1>1, <1>8 DEF CreateFails, StackInv
  <1>9. ASSUME NEW p \in Asked, Ask(t, p) PROVE stack'[u] = stack[u] /\ cmu' = cmu
    BY <1>9 DEF Ask, StackInv
  <1> QED
    BY <1>4, <1>5, <1>6, <1>7, <1>8, <1>9 DEF GetterStep

\* It is enough to look at the calls of the caller that moves.
LEMMA OneCaller ==
    ASSUME FrameInv, NEW t \in Callers, GetterStep(t) \/ \E p \in Asked : Ask(t, p),
           \A i \in 1..Len(stack'[t]) : Holds(stack'[t][i]) => cmu' = t,
           \A i, j \in 1..Len(stack'[t]) : Holds(stack'[t][i]) /\ Holds(stack'[t][j]) => i = j,
           cmu' = t => \E i \in 1..Len(stack'[t]) : Holds(stack'[t][i]),
           cmu' \in {cmu, t, Nobody}
    PROVE  LockInv'
  <1>1. ASSUME NEW u \in Callers, u # t PROVE stack'[u] = stack[u] /\ (cmu = u <=> cmu' = u)
    BY <1>1, OthersKeep
  <1>2. \A u \in Callers : \A i \in 1..Len(stack'[u]) : Holds(stack'[u][i]) => cmu' = u
    BY <1>1 DEF FrameInv, LockInv
  <1>3. \A u \in Callers : \A i, j \in 1..Len(stack'[u]) :
           Holds(stack'[u][i]) /\ Holds(stack'[u][j]) => i = j
    BY <1>1 DEF FrameInv, LockInv
  <1>4. cmu' # Nobody => cmu' \in Callers /\ \E i \in 1..Len(stack'[cmu']) : Holds(stack'[cmu'][i])
    <2>1. CASE cmu' = t
      BY <2>1
    <2>2. CASE cmu' = cmu /\ cmu # t
      BY <1>1, <2>2 DEF FrameInv, LockInv
    <2> QED
      BY <2>1, <2>2
  <1> QED
    BY <1>2, <1>3, <1>4 DEF LockInv

\* A call that returns gives back the lock it has taken, and then no other call has it.
LEMMA ReturnFrees ==
    ASSUME FrameInv, NEW t \in Callers, GetterStep(t), stack[t] # <<>>, Back(t)
    PROVE  FrameInv'
  <1> USE DEF FrameInv
  <1>1. StackInv' /\ Len(stack[t]) \in Nat /\ Len(stack[t]) >= 1 /\ stack[t][1] = Head(stack[t])
    BY BackIs DEF StackInv
  <1>2. /\ Len(stack'[t]) = Len(stack[t]) - 1
        /\ \A i \in 1..Len(stack'[t]) : Holds(stack'[t][i]) <=> Holds(stack[t][i + 1])
    BY BackIs DEF Holds
  <1>3. \A i \in 1..Len(stack'[t]) : i + 1 \in 1..Len(stack[t])
    BY <1>1, <1>2
  <1>4. t # Nobody
    BY ContainerAssumption
  <1>5. CASE Holds(stack[t][1])
    <2>1. cmu' = Nobody
      BY <1>1, <1>5 DEF Back, In, Top, Holds
    <2>2. \A i \in 1..Len(stack'[t]) : ~Holds(stack'[t][i])
      BY <1>1, <1>2, <1>3, <1>5 DEF LockInv
    <2> QED
      BY <1>1, <1>4, <2>1, <2>2, OneCaller
  <1>6. CASE ~Holds(stack[t][1])
    <2>1. cmu' = cmu
      BY <1>1, <1>6 DEF Back, In, Top, Holds
    <2>2. \A i \in 1..Len(stack'[t]) : Holds(stack'[t][i]) => cmu' = t
      BY <1>2, <1>3, <2>1 DEF LockInv
    <2>3. \A i, j \in 1..Len(stack'[t]) : Holds(stack'[t][i]) /\ Holds(stack'[t][j]) => i = j
      <3> SUFFICES ASSUME NEW i \in 1..Len(stack'[t]), NEW j \in 1..Len(stack'[t]),
                          Holds(stack'[t][i]), Holds(stack'[t][j])
                   PROVE  i = j
        OBVIOUS
      <3>1. i + 1 = j + 1
        BY <1>2, <1>3 DEF LockInv
      <3> QED
        BY <1>1, <1>2, <3>1
    <2>4. cmu' = t => \E i \in 1..Len(stack'[t]) : Holds(stack'[t][i])
      <3> SUFFICES ASSUME cmu = t PROVE \E i \in 1..Len(stack'[t]) : Holds(stack'[t][i])
        BY <2>1
      <3>1. PICK i \in 1..Len(stack[t]) : Holds(stack[t][i])
        BY <1>4 DEF LockInv
      <3>2. i - 1 \in 1..Len(stack'[t]) /\ (i - 1) + 1 = i
        BY <1>1, <1>2, <1>6, <3>1
      <3> QED
        BY <1>2, <3>1, <3>2
    <2> QED
      BY <1>1, <2>1, <2>2, <2>3, <2>4, OneCaller
  <1> QED
    BY <1>5, <1>6

\* The lock is taken only when no call has it.
LEMMA LockTakes ==
    ASSUME FrameInv, NEW t \in Callers, LockContainer(t)
    PROVE  FrameInv'
  <1> USE DEF FrameInv
  <1>1. cmu = Nobody /\ cmu' = t /\ t # Nobody /\ In(t, "lock") /\ Move(t, "held") /\ stack[t] # <<>>
    BY ContainerAssumption DEF LockContainer, In
  <1>2. Len(stack[t]) \in Nat /\ Len(stack[t]) >= 1 /\ stack[t][1] = Head(stack[t]) /\ stack[t][1] \in Frame
    BY <1>1 DEF StackInv
  <1>3. \A i \in 1..Len(stack[t]) : ~Holds(stack[t][i])
    BY <1>1 DEF LockInv
  <1>4. /\ StackInv' /\ Len(stack'[t]) = Len(stack[t])
        /\ stack'[t][1].pc = "held" /\ stack'[t][1].getter = stack[t][1].getter
        /\ \A i \in 2..Len(stack[t]) : stack'[t][i] = stack[t][i]
    BY <1>1, MoveIs
  <1>5. stack[t][1].getter \notin Unguarded
    BY <1>1, <1>2 DEF In, Frame
  <1>6. Holds(stack'[t][1])
    BY <1>4, <1>5 DEF Holds
  <1>7. \A i \in 1..Len(stack'[t]) : Holds(stack'[t][i]) => i = 1
    BY <1>2, <1>3, <1>4
  <1>8. GetterStep(t) /\ 1 \in 1..Len(stack'[t])
    BY <1>2, <1>4 DEF GetterStep
  <1> QED
    BY <1>1, <1>4, <1>6, <1>7, <1>8, OneCaller

\* The second half of a look that finds nothing, the call of another getter and a failure.
LEMMA OtherSteps ==
    ASSUME FrameInv, NEW t \in Callers,
           \/ Look(t) /\ Top(t) \notin present
           \/ Descend(t) \/ CreateFails(t)
           \/ \E p \in Asked : Ask(t, p)
    PROVE  FrameInv'
  <1> USE DEF FrameInv
  <1>1. t # Nobody
    BY ContainerAssumption
  <1>2. CASE Look(t) /\ Top(t) \notin present
    <2>1. stack[t] # <<>> /\ In(t, "look") /\ Move(t, "lock") /\ cmu' = cmu
      BY <1>2 DEF Look, In
    <2>2. Len(stack[t]) \in Nat /\ Len(stack[t]) >= 1 /\ stack[t][1] = Head(stack[t])
      BY <2>1 DEF StackInv
    <2>3. /\ StackInv' /\ Len(stack'[t]) = Len(stack[t]) /\ stack'[t][1].pc = "lock"
          /\ \A i \in 2..Len(stack[t]) : stack'[t][i] = stack[t][i]
      BY <2>1, MoveIs
    <2>4. \A i \in 1..Len(stack[t]) : Holds(stack'[t][i]) <=> Holds(stack[t][i])
      BY <2>1, <2>2, <2>3 DEF Holds, In
    <2>5. GetterStep(t)
      BY <1>2 DEF GetterStep
    <2> QED
      BY <1>1, <2>1, <2>3, <2>4, <2>5, OneCaller DEF LockInv
  <1>3. CASE Descend(t)
    <2>1. cmu' = cmu /\ GetterStep(t) /\ Len(stack[t]) \in Nat
      BY <1>3 DEF Descend, GetterStep, StackInv
    <2>2. /\ StackInv' /\ Len(stack'[t]) = Len(stack[t]) + 1 /\ ~Holds(stack'[t][1])
          /\ \A i \in 1..Len(stack[t]) : stack'[t][i + 1] = stack[t][i]
      BY <1>3, DescendIs
    <2>3. ASSUME NEW i \in 1..Len(stack'[t]), Holds(stack'[t][i])
          PROVE  i - 1 \in 1..Len(stack[t]) /\ Holds(stack[t][i - 1])
      <3>1. i - 1 \in 1..Len(stack[t]) /\ (i - 1) + 1 = i
        BY <2>1, <2>2, <2>3
      <3> QED
        BY <2>2, <2>3, <3>1
    <2>4. \A i \in 1..Len(stack'[t]) : Holds(stack'[t][i]) => cmu' = t
      BY <2>1, <2>3 DEF LockInv
    <2>5. \A i, j \in 1..Len(stack'[t]) : Holds(stack'[t][i]) /\ Holds(stack'[t][j]) => i = j
      <3> SUFFICES ASSUME NEW i \in 1..Len(stack'[t]), NEW j \in 1..Len(stack'[t]),
                          Holds(stack'[t][i]), Holds(stack'[t][j])
                   PROVE  i = j
        OBVIOUS
      <3>1. i - 1 = j - 1
        BY <2>3 DEF LockInv
      <3> QED
        BY <2>1, <2>2, <3>1
    <2>6. cmu' = t => \E i \in 1..Len(stack'[t]) : Holds(stack'[t][i])
      <3> SUFFICES ASSUME cmu = t PROVE \E i \in 1..Len(stack'[t]) : Holds(stack'[t][i])
        BY <2>1
      <3>1. PICK i \in 1..Len(stack[t]) : Holds(stack[t][i])
        BY <1>1 DEF LockInv
      <3>2. i + 1 \in 1..Len(stack'[t])
        BY <2>1, <2>2
      <3> QED
        BY <2>2, <3>1, <3>2
    <2> QED
      BY <2>1, <2>2, <2>4, <2>5, <2>6, OneCaller
  <1>4. CASE CreateFails(t)
    <2>1. stack' = [stack EXCEPT ![t] = <<>>] /\ cmu' = (IF cmu = t THEN Nobody ELSE cmu) /\ GetterStep(t)
      BY <1>4 DEF CreateFails, GetterStep
    <2>2. StackInv' /\ stack'[t] = <<>> /\ Len(stack'[t]) = 0
      BY <2>1 DEF StackInv
    <2>3. cmu' # t /\ cmu' \in {cmu, Nobody}
      BY <1>1, <2>1
    <2> QED
      BY <2>1, <2>2, <2>3, OneCaller
  <1>5. ASSUME NEW p \in Asked, Ask(t, p) PROVE FrameInv'
    <2>1. stack[t] = <<>> /\ stack' = [stack EXCEPT ![t] = <<Entry(p)>>] /\ cmu' = cmu
      BY <1>5 DEF Ask
    <2>2. Entry(p) \in Frame /\ ~Holds(Entry(p))
      BY EntryIs, ContainerAssumption
    <2> DEFINE e == Entry(p)
    <2> HIDE DEF e
    <2>3. stack'[t] = <<e>>
      BY <2>1 DEF StackInv, e
    <2>4. <<e>> \in Seq(Frame) /\ Len(<<e>>) = 1 /\ <<e>>[1] = e
      BY <2>2 DEF e
    <2>5. StackInv'
      BY <2>1, <2>4 DEF StackInv, e
    <2>6. \A i \in 1..Len(stack'[t]) : ~Holds(stack'[t][i])
      BY <2>2, <2>3, <2>4 DEF e
    <2>7. cmu # t
      BY <1>1, <2>1 DEF LockInv
    <2> QED
      BY <1>5, <2>1, <2>5, <2>6, <2>7, OneCaller
  <1> QED
    BY <1>2, <1>3, <1>4, <1>5

LEMMA FrameStep == FrameInv /\ [ContainerNext]_containerVars => FrameInv'
  <1> SUFFICES ASSUME FrameInv, [ContainerNext]_containerVars PROVE FrameInv'
    OBVIOUS
  <1>1. ASSUME NEW t \in Callers, Look(t) \/ Found(t) \/ Create(t) PROVE FrameInv'
    <2>1. GetterStep(t) /\ stack[t] # <<>>
      BY <1>1 DEF GetterStep, Look, Found, Create, Ready, In
    <2>2. CASE Back(t)
      BY <2>1, <2>2, ReturnFrees
    <2>3. CASE Look(t) /\ Top(t) \notin present
      BY <2>3, OtherSteps
    <2> QED
      BY <1>1, <2>2, <2>3 DEF Look, Found, Create
  <1>2. ASSUME NEW t \in Callers, LockContainer(t) \/ Descend(t) \/ CreateFails(t) PROVE FrameInv'
    BY <1>2, LockTakes, OtherSteps
  <1>3. ASSUME NEW t \in Callers, NEW p \in Asked, Ask(t, p) PROVE FrameInv'
    BY <1>3, OtherSteps
  <1>4. CASE CloseContainer \/ UNCHANGED containerVars
    BY <1>4 DEF CloseContainer, containerVars, FrameInv, StackInv, LockInv
  <1> QED
    BY <1>1, <1>2, <1>3, <1>4 DEF ContainerNext, GetterStep

\* c.mu is held by one call at most, the one its holder made, through returns, failures and Close.
THEOREM ContainerLock == ContainerSpec => []FrameInv
  <1>1. ContainerInit => FrameInv
    <2> SUFFICES ASSUME ContainerInit PROVE FrameInv
      OBVIOUS
    <2>1. StackInv /\ cmu = Nobody /\ \A t \in Callers : stack[t] = <<>>
      BY DEF ContainerInit, StackInv
    <2> QED
      BY <2>1 DEF FrameInv, LockInv
  <1> QED
    BY <1>1, FrameStep, PTL DEF ContainerSpec

\* A getter that calls a getter while it holds c.mu, which RWMutex does not allow, never returns:
\* no step of this caller, of another one or of Close gives the lock back.
THEOREM ContainerDeadlock == ContainerSpec => [][StuckForGood]_containerVars
  <1>1. FrameInv /\ [ContainerNext]_containerVars => [StuckForGood]_containerVars
    <2> SUFFICES ASSUME FrameInv, ContainerNext, NEW t \in Callers, Stuck(t) PROVE Stuck(t)'
      BY DEF StuckForGood
    <2>1. t # Nobody /\ cmu = t
      BY ContainerAssumption DEF Stuck
    <2>2. ASSUME GetterStep(t) PROVE FALSE
      BY <2>1, <2>2 DEF GetterStep, Look, LockContainer, Found, Descend, Create, CreateFails, Ready, In, Stuck
    <2>3. ASSUME NEW p \in Asked, Ask(t, p) PROVE FALSE
      BY <2>3 DEF Ask, Stuck
    <2>4. ASSUME NEW u \in Callers, GetterStep(u) \/ \E p \in Asked : Ask(u, p) PROVE Stuck(t)'
      <3>1. u # t
        BY <2>2, <2>3, <2>4
      <3>2. stack'[t] = stack[t] /\ cmu' = t
        BY <2>1, <2>4, <3>1, OthersKeep
      <3> QED
        BY <3>2 DEF Stuck
    <2>5. CASE CloseContainer
      BY <2>5 DEF CloseContainer, Stuck
    <2> QED
      BY <2>4, <2>5 DEF ContainerNext
  <1> QED
    BY <1>1, ContainerLock, PTL DEF ContainerSpec

\* What a getter that takes no lock calls is a getter that calls no other.
LEMMA LoneNeeds ==
    ASSUME NEW p \in Lone, NEW k \in 1..Len(Needs[p])
    PROVE  p \in Unguarded /\ Needs[p][k] \in Lone
  <1>1. p \in Unguarded
    BY DEF Lone
  <1>2. Needs[p] = <<"ProvideConfigLoader">> /\ Needs["ProvideConfigLoader"] = <<>>
    BY <1>1 DEF Unguarded, Needs
  <1>3. "ProvideConfigLoader" \in Getters
    BY DEF Getters, Needs
  <1>4. Needs[p][k] = "ProvideConfigLoader"
    BY <1>2
  <1> QED
    BY <1>1, <1>2, <1>3, <1>4 DEF Lone

LEMMA LoneStep ==
    ASSUME Asked \subseteq Lone, FrameInv, LoneInv, [ContainerNext]_containerVars
    PROVE  LoneInv'
  <1> DEFINE Fine(t) == \A i \in 1..Len(stack'[t]) :
                           /\ stack'[t][i].getter \in Lone
                           /\ i > 1 => stack'[t][i].getter \in Unguarded
  <1> SUFFICES ASSUME NEW t \in Callers PROVE Fine(t)
    BY DEF LoneInv
  <1>1. Len(stack[t]) \in Nat
    BY DEF FrameInv, StackInv
  <1>2. CASE stack'[t] = stack[t]
    BY <1>2 DEF LoneInv
  <1>3. ASSUME stack[t] # <<>>, Back(t) PROVE Fine(t)
    <2>1. /\ Len(stack'[t]) = Len(stack[t]) - 1
          /\ \A i \in 1..Len(stack'[t]) : stack'[t][i].getter = stack[t][i + 1].getter
      BY <1>3, BackIs DEF FrameInv
    <2>2. \A i \in 1..Len(stack'[t]) : i + 1 \in 1..Len(stack[t]) /\ i + 1 > 1
      BY <1>1, <2>1
    <2> QED
      BY <2>1, <2>2 DEF LoneInv
  <1>4. ASSUME stack[t] # <<>>, NEW pc \in {"lock", "held"}, pc = "lock" => In(t, "look"), Move(t, pc)
        PROVE  Fine(t)
    <2>1. /\ Len(stack'[t]) = Len(stack[t]) /\ stack'[t][1].getter = stack[t][1].getter
          /\ \A i \in 2..Len(stack[t]) : stack'[t][i] = stack[t][i]
      BY <1>4, MoveIs DEF FrameInv
    <2>2. \A i \in 1..Len(stack'[t]) : stack'[t][i].getter = stack[t][i].getter
      BY <1>1, <2>1
    <2> QED
      BY <2>1, <2>2 DEF LoneInv
  <1>5. CASE Descend(t)
    <2> DEFINE g == stack[t][1].getter
    <2>1. PICK k \in 1..Len(Needs[g]) : stack'[t][1].getter = Needs[g][k]
      BY <1>5, DescendIs DEF FrameInv
    <2>2. /\ Len(stack'[t]) = Len(stack[t]) + 1
          /\ \A i \in 1..Len(stack[t]) : stack'[t][i + 1] = stack[t][i]
      BY <1>5, DescendIs DEF FrameInv
    <2>3. 1 \in 1..Len(stack[t])
      BY <1>1, <1>5 DEF Descend, In, FrameInv, StackInv
    <2>4. g \in Lone
      BY <2>3 DEF LoneInv
    <2>5. g \in Unguarded /\ stack'[t][1].getter \in Lone
      BY <2>1, <2>4, LoneNeeds
    <2>6. ASSUME NEW i \in 1..Len(stack'[t]), i > 1
          PROVE  stack'[t][i].getter \in Lone /\ stack'[t][i].getter \in Unguarded
      <3>1. i - 1 \in 1..Len(stack[t]) /\ stack'[t][i] = stack[t][i - 1]
        BY <1>1, <2>2, <2>6
      <3>2. CASE i - 1 = 1
        BY <2>4, <2>5, <3>1, <3>2
      <3>3. CASE i - 1 > 1
        BY <3>1, <3>3 DEF LoneInv
      <3> QED
        BY <1>1, <3>1, <3>2, <3>3
    <2>7. \A i \in 1..Len(stack'[t]) : i = 1 \/ i > 1
      BY <1>1, <2>2
    <2> QED
      BY <2>5, <2>6, <2>7
  <1>6. ASSUME NEW p \in Asked, Ask(t, p) PROVE Fine(t)
    <2>1. stack' = [stack EXCEPT ![t] = <<Entry(p)>>] /\ p \in Lone /\ p \in Getters
      BY <1>6, ContainerAssumption DEF Ask
    <2> DEFINE e == Entry(p)
    <2>2. e.getter \in Lone
      BY <2>1, EntryIs
    <2>3. stack'[t] = <<e>>
      BY <2>1 DEF FrameInv, StackInv
    <2> HIDE DEF e
    <2>4. Len(stack'[t]) = 1 /\ stack'[t][1] = e
      BY <2>3
    <2> QED
      BY <2>2, <2>4
  <1>7. CASE CreateFails(t)
    <2>1. stack'[t] = <<>>
      BY <1>7 DEF CreateFails, FrameInv, StackInv
    <2> QED
      BY <2>1
  <1>8. CASE GetterStep(t)
    <2>1. CASE Look(t)
      BY <1>3, <1>4, <2>1 DEF Look, In
    <2>2. CASE LockContainer(t)
      BY <1>4, <2>2 DEF LockContainer, In
    <2>3. CASE Found(t) \/ Create(t)
      BY <1>3, <2>3 DEF Found, Create, Ready, In
    <2> QED
      BY <1>5, <1>7, <1>8, <2>1, <2>2, <2>3 DEF GetterStep
  <1>9. ASSUME NEW u \in Callers, u # t, GetterStep(u) \/ \E p \in Asked : Ask(u, p) PROVE Fine(t)
    BY <1>2, <1>9, OthersKeep
  <1>10. CASE CloseContainer \/ UNCHANGED containerVars
    BY <1>2, <1>10 DEF CloseContainer, containerVars
  <1> HIDE DEF Fine
  <1> QED
    BY <1>6, <1>8, <1>9, <1>10 DEF ContainerNext

\* Callers of getters that call no other getter under c.mu never wait for their own lock, however
\* they race: the safety half of GetterReturns.
THEOREM ContainerLoneReturns ==
    ASSUME Asked \subseteq Lone
    PROVE  ContainerSpec => [](\A t \in Callers : ~Stuck(t))
  <1>1. ContainerInit => LoneInv
    BY DEF ContainerInit, LoneInv
  <1>2. FrameInv /\ LoneInv /\ [ContainerNext]_containerVars => LoneInv'
    BY LoneStep
  <1>3. FrameInv /\ LoneInv => \A t \in Callers : ~Stuck(t)
    <2> SUFFICES ASSUME FrameInv, LoneInv, NEW t \in Callers, Stuck(t) PROVE FALSE
      OBVIOUS
    <2>1. cmu = t /\ t # Nobody /\ stack[t] # <<>> /\ Head(stack[t]).pc # "held"
      BY ContainerAssumption DEF Stuck
    <2>2. PICK i \in 1..Len(stack[t]) : Holds(stack[t][i])
      BY <2>1 DEF FrameInv, LockInv
    <2>3. i = 1
      BY <2>2 DEF LoneInv, Holds, FrameInv, StackInv
    <2>4. Head(stack[t]) = stack[t][1]
      BY <2>1 DEF FrameInv, StackInv
    <2> QED
      BY <2>1, <2>2, <2>3, <2>4 DEF Holds
  <1> QED
    BY <1>1, <1>2, <1>3, ContainerLock, PTL DEF ContainerSpec

----------------------------------------------------------------------------
(* WebhookBatch *)

BatchTypes ==
    /\ batch \in [Groups -> SUBSET Events] /\ sending \in [Flushers -> SUBSET Events]
    /\ flushCh \in Seq(Groups) /\ due \subseteq Groups /\ old \subseteq Groups
    /\ fate \in [Events -> {"new", "batched", "over"}]
    /\ times \in [Events -> 0..1]

\* An event is in its own group and not sent, or has been sent once.
OnceInv ==
    /\ \A g \in Groups : \A e \in batch[g] : fate[e] = "batched" /\ times[e] = 0 /\ GroupOf[e] = g
    /\ \A x \in Flushers : \A e \in sending[x] : times[e] = 1
    /\ \A e \in Events : fate[e] = "new" => times[e] = 0

\* What Stop has passed by was empty then: it holds only what was added since.
StopInv ==
    /\ manager = "stopping" => \A g \in Groups \ left : batch[g] \subseteq after
    /\ manager = "stopped" => \A g \in Groups : batch[g] \subseteq after

BatchInv == BatchTypes /\ OnceInv /\ StopInv

LEMMA BatchStart == BatchInit => BatchInv
  <1> SUFFICES ASSUME BatchInit PROVE BatchInv
    OBVIOUS
  <1>1. BatchTypes
    BY DEF BatchInit, BatchTypes
  <1>2. OnceInv /\ StopInv
    BY DEF BatchInit, OnceInv, StopInv
  <1> QED
    BY <1>1, <1>2 DEF BatchInv

\* A request is one for a group, whether it fits or not.
LEMMA RequestType ==
    ASSUME flushCh \in Seq(Groups), NEW g \in Groups, Request(g)
    PROVE  flushCh' \in Seq(Groups)
  BY DEF Request

LEMMA AddKeeps == ASSUME BatchInv, NEW e \in Events, AddEvent(e) PROVE BatchInv'
  <1> USE DEF BatchInv
  <1> DEFINE g == GroupOf[e]
  <1>0. g \in Groups
    BY BatchAssumption
  <1>1. /\ fate[e] = "new" /\ fate' = [fate EXCEPT ![e] = "batched"]
        /\ batch' = [batch EXCEPT ![g] = @ \cup {e}]
        /\ after' = IF manager \in {"running", "cancelled"} THEN after ELSE after \cup {e}
        /\ UNCHANGED <<old, sending, due, left, manager, times>>
    BY DEF AddEvent
  <1>2. flushCh' \in Seq(Groups)
    BY <1>0, RequestType DEF AddEvent, BatchTypes
  <1>3. batch'[g] = batch[g] \cup {e} /\ \A h \in Groups \ {g} : batch'[h] = batch[h]
    BY <1>0, <1>1 DEF BatchTypes
  <1>4. BatchTypes'
    BY <1>0, <1>1, <1>2 DEF BatchTypes
  <1>5. OnceInv'
    <2>1. times[e] = 0
      BY <1>1 DEF OnceInv
    <2>2. fate'[e] = "batched" /\ \A f \in Events \ {e} : fate'[f] = fate[f]
      BY <1>1 DEF BatchTypes
    <2>3. ASSUME NEW h \in Groups, NEW f \in batch'[h]
          PROVE  fate'[f] = "batched" /\ times'[f] = 0 /\ GroupOf[f] = h
      <3>0. f \in Events
        BY <1>4 DEF BatchTypes
      <3>1. CASE f = e
        BY <3>1, <1>1, <1>3, <2>1, <2>2 DEF OnceInv
      <3>2. CASE f # e
        BY <3>0, <3>2, <1>1, <1>3, <2>2 DEF OnceInv
      <3> QED
        BY <3>1, <3>2
    <2> QED
      BY <1>1, <2>2, <2>3 DEF OnceInv
  <1>6. StopInv'
    BY <1>1, <1>3 DEF StopInv
  <1> QED
    BY <1>4, <1>5, <1>6

\* flushGroup: the group is taken out of the map in the step that makes it a batch.
LEMMA TakeKeeps ==
    ASSUME BatchInv, NEW x \in Flushers, NEW g \in Groups, TakeGroup(x, g), UNCHANGED fate
    PROVE  /\ OnceInv'
           /\ batch' \in [Groups -> SUBSET Events] /\ sending' \in [Flushers -> SUBSET Events]
           /\ old' \subseteq Groups /\ times' \in [Events -> 0..1]
           /\ batch'[g] = {} /\ \A h \in Groups \ {g} : batch'[h] = batch[h]
  <1> USE DEF BatchInv
  <1>1. /\ sending' = [sending EXCEPT ![x] = batch[g]]
        /\ times' = [e \in Events |-> IF e \in batch[g] /\ times[e] < 2 THEN times[e] + 1 ELSE times[e]]
        /\ batch' = [batch EXCEPT ![g] = {}] /\ old' = old \ {g}
    BY DEF TakeGroup, Sends
  <1>2. /\ batch' \in [Groups -> SUBSET Events] /\ sending' \in [Flushers -> SUBSET Events]
        /\ old' \subseteq Groups
        /\ batch'[g] = {} /\ \A h \in Groups \ {g} : batch'[h] = batch[h]
        /\ sending'[x] = batch[g] /\ \A y \in Flushers \ {x} : sending'[y] = sending[y]
    BY <1>1 DEF BatchTypes
  <1>3. \A e \in Events : times'[e] = IF e \in batch[g] THEN 1 ELSE times[e]
    BY <1>1 DEF BatchTypes, OnceInv
  <1>4. times' \in [Events -> 0..1]
    BY <1>1, <1>3 DEF BatchTypes
  <1>5. OnceInv'
    <2>1. ASSUME NEW h \in Groups, NEW e \in batch'[h]
          PROVE  fate[e] = "batched" /\ times'[e] = 0 /\ GroupOf[e] = h
      <3>1. h # g /\ e \in batch[h] /\ e \in Events
        BY <1>2
      <3>2. e \notin batch[g]
        BY <3>1 DEF OnceInv
      <3> QED
        BY <1>3, <3>1, <3>2 DEF OnceInv
    <2>2. ASSUME NEW y \in Flushers, NEW e \in sending'[y] PROVE times'[e] = 1
      <3>0. e \in Events
        BY <1>2
      <3>1. e \in batch[g] \/ e \in sending[y]
        BY <1>2
      <3> QED
        BY <1>3, <3>0, <3>1 DEF OnceInv
    <2>3. ASSUME NEW e \in Events, fate[e] = "new" PROVE times'[e] = 0
      <3>1. e \notin batch[g]
        BY <2>3 DEF OnceInv
      <3> QED
        BY <1>3, <2>3, <3>1 DEF OnceInv
    <2> QED
      BY <2>1, <2>2, <2>3 DEF OnceInv
  <1> QED
    BY <1>2, <1>4, <1>5

LEMMA FlushKeeps == ASSUME BatchInv, FlushNext PROVE BatchInv'
  <1> USE DEF BatchInv
  <1>1. Head(flushCh) \in Groups /\ flushCh' \in Seq(Groups)
    BY DEF FlushNext, BatchTypes
  <1>2. TakeGroup("worker", Head(flushCh)) /\ UNCHANGED <<due, left, manager, fate, after>>
    BY DEF FlushNext
  <1> DEFINE g == Head(flushCh)
  <1>3. /\ OnceInv'
        /\ batch' \in [Groups -> SUBSET Events] /\ sending' \in [Flushers -> SUBSET Events]
        /\ old' \subseteq Groups /\ times' \in [Events -> 0..1]
        /\ batch'[g] = {} /\ \A h \in Groups \ {g} : batch'[h] = batch[h]
    BY <1>1, <1>2, TakeKeeps DEF Flushers
  <1>4. BatchTypes'
    BY <1>1, <1>2, <1>3 DEF BatchTypes
  <1>5. StopInv'
    BY <1>1, <1>2, <1>3 DEF StopInv
  <1> QED
    BY <1>3, <1>4, <1>5

LEMMA FlushLeftKeeps == ASSUME BatchInv, NEW g \in Groups, FlushLeft(g) PROVE BatchInv'
  <1> USE DEF BatchInv
  <1>2. /\ TakeGroup("stop", g) /\ UNCHANGED <<flushCh, due, manager, fate, after>>
        /\ left' = left \ {g}
    BY DEF FlushLeft
  <1>3. /\ OnceInv'
        /\ batch' \in [Groups -> SUBSET Events] /\ sending' \in [Flushers -> SUBSET Events]
        /\ old' \subseteq Groups /\ times' \in [Events -> 0..1]
        /\ batch'[g] = {} /\ \A h \in Groups \ {g} : batch'[h] = batch[h]
    BY <1>2, TakeKeeps DEF Flushers
  <1>4. BatchTypes'
    BY <1>2, <1>3 DEF BatchTypes
  <1>5. StopInv'
    BY <1>2, <1>3 DEF StopInv
  <1> QED
    BY <1>3, <1>4, <1>5

LEMMA EndsKeeps == ASSUME BatchInv, NEW x \in Flushers, BatchEnds(x) PROVE BatchInv'
  <1> USE DEF BatchInv
  <1>1. /\ fate' = [e \in Events |-> IF e \in sending[x] THEN "over" ELSE fate[e]]
        /\ sending' = [sending EXCEPT ![x] = {}]
        /\ UNCHANGED <<batch, old, flushCh, due, left, manager, times, after>>
    BY DEF BatchEnds
  <1>2. BatchTypes'
    BY <1>1 DEF BatchTypes
  <1>3. \A y \in Flushers : sending'[y] \subseteq sending[y]
    BY <1>1 DEF BatchTypes
  <1>4. \A g \in Groups : \A e \in batch[g] : e \in Events /\ e \notin sending[x]
    BY DEF OnceInv, BatchTypes
  <1>5. OnceInv'
    BY <1>1, <1>3, <1>4 DEF OnceInv
  <1>6. StopInv'
    BY <1>1 DEF StopInv
  <1> QED
    BY <1>2, <1>5, <1>6

\* The steps that move no event.
LEMMA ControlBatchKeeps ==
    ASSUME BatchInv,
           \/ \E g \in Groups : Wait(g) \/ RequestDue(g)
           \/ flushExpiredGroups \/ CancelBatches \/ StopBatches \/ BatchesStopped
           \/ \E x \in {"worker", "ticker"} : Ends(x)
           \/ UNCHANGED batchVars
    PROVE  BatchInv'
  <1> USE DEF BatchInv
  <1>1. UNCHANGED <<batch, sending, fate, times, after>>
    BY DEF Wait, RequestDue, flushExpiredGroups, CancelBatches, StopBatches, BatchesStopped, Ends, batchVars
  <1>2. OnceInv'
    BY <1>1 DEF OnceInv
  <1>3. old' \subseteq Groups /\ due' \subseteq Groups
    BY DEF Wait, RequestDue, flushExpiredGroups, CancelBatches, StopBatches, BatchesStopped, Ends,
           batchVars, BatchTypes
  <1>4. flushCh' \in Seq(Groups)
    BY RequestType
    DEF Wait, RequestDue, flushExpiredGroups, CancelBatches, StopBatches, BatchesStopped, Ends,
        batchVars, BatchTypes
  <1>5. BatchTypes'
    BY <1>1, <1>3, <1>4 DEF BatchTypes
  <1>6. StopInv'
    <2>1. CASE UNCHANGED <<manager, left>>
      BY <1>1, <2>1 DEF StopInv
    <2>2. CASE CancelBatches
      BY <1>1, <2>2 DEF StopInv, CancelBatches
    <2>3. CASE StopBatches
      BY <1>1, <2>3 DEF StopInv, StopBatches
    <2>4. CASE BatchesStopped
      BY <1>1, <2>4 DEF StopInv, BatchesStopped
    <2> QED
      BY <2>1, <2>2, <2>3, <2>4 DEF Wait, RequestDue, flushExpiredGroups, Ends, batchVars
  <1> QED
    BY <1>2, <1>5, <1>6

\* BatchInv is an invariant of the batch manager.
THEOREM BatchInvariance == BatchSpec => []BatchInv
  <1>1. BatchInv /\ [BatchNext]_batchVars => BatchInv'
    BY AddKeeps, FlushKeeps, FlushLeftKeeps, EndsKeeps, ControlBatchKeeps DEF BatchNext
  <1> QED
    BY <1>1, BatchStart, PTL DEF BatchSpec

\* No event is sent in two batches, whoever flushes its group and however often that was asked.
THEOREM BatchOnce == BatchSpec => []BatchedOnce
  <1>1. BatchInv => BatchedOnce
    BY DEF BatchInv, BatchTypes, BatchedOnce
  <1> QED
    BY <1>1, BatchInvariance, PTL

\* When Stop has returned, a group holds only events that were added after Stop was called.
THEOREM BatchStop == BatchSpec => []StopFlushes
  <1>1. BatchInv => StopFlushes
    BY DEF BatchInv, StopInv, StopFlushes
  <1> QED
    BY <1>1, BatchInvariance, PTL

=============================================================================
