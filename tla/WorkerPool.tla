----------------------------- MODULE WorkerPool -----------------------------
(***************************************************************************)
(* internal/goroutine/worker_pool.go: workers that take tasks from a       *)
(* bounded channel, Submit, SubmitWithTimeout, Shutdown and                *)
(* ShutdownWithTimeout.                                                    *)
(*                                                                         *)
(* Submit and Start hold p.mu for one step that never blocks.  Shutdown    *)
(* holds it while it waits for the workers, so the lock is the one Boolean *)
(* mu.  A task may itself call Submit (Parents), and a task submitted with *)
(* a timeout (Timed) may never return: its worker then waits for the       *)
(* task's context only.                                                    *)
(***************************************************************************)
EXTENDS Integers, Sequences

CONSTANTS PoolWorkers,  \* the goroutines Start creates
          Tasks,        \* the tasks that may be submitted, each at most once
          Parents,      \* those that call Submit when they run
          Timed,        \* those submitted through SubmitWithTimeout
          BufferSize,   \* capacity of taskChan and of errorChan
          NoTask        \* the task of a worker that runs none

ASSUME PoolAssumption ==
    /\ Parents \subseteq Tasks /\ Timed \subseteq Tasks \ Parents
    /\ BufferSize \in Nat \ {0} /\ NoTask \notin Tasks

VARIABLES
    started, closed,  \* p.started and p.closed
    mu,               \* whether Shutdown holds p.mu
    ctxDone,          \* p.ctx is cancelled
    taskChan,         \* tasks in the channel, oldest first
    errorChan,        \* number of errors in the channel, -1 once it is closed
    worker,           \* worker[w]: none, idle, a running or a submitting task, gone
    task,             \* task[t]: new, queued, refused, running, ran
    expired,          \* timed tasks whose context is over
    lateStart,        \* Start found the pool already closed
    panicked          \* a send on a closed channel has killed the process

ctlVars == <<started, closed, mu, ctxDone, lateStart>>
poolVars == <<ctlVars, taskChan, errorChan, worker, task, expired, panicked>>

At(pc, t) == [pc |-> pc, task |-> t]
Idle == At("idle", NoTask)
Gone == At("gone", NoTask)

PoolTypeOK ==
    /\ {started, closed, mu, ctxDone, lateStart, panicked} \subseteq BOOLEAN
    /\ taskChan \in Seq(Tasks) /\ Len(taskChan) <= BufferSize
    /\ errorChan \in -1..BufferSize
    /\ \A w \in PoolWorkers :
          worker[w] \in {At(pc, NoTask) : pc \in {"none", "idle", "gone"}}
             \cup {At(pc, t) : pc \in {"running", "submitting", "submitted"}, t \in Tasks}
    /\ task \in [Tasks -> {"new", "queued", "refused", "running", "ran"}]
    /\ expired \subseteq Timed

PoolInit ==
    /\ started = FALSE /\ closed = FALSE /\ mu = FALSE /\ ctxDone = FALSE
    /\ taskChan = <<>> /\ errorChan = 0
    /\ worker = [w \in PoolWorkers |-> At("none", NoTask)]
    /\ task = [t \in Tasks |-> "new"]
    /\ expired = {} /\ lateStart = FALSE /\ panicked = FALSE

Start ==
    /\ ~mu /\ ~started
    /\ started' = TRUE
    /\ lateStart' = closed
    /\ worker' = [w \in PoolWorkers |-> Idle]
    /\ UNCHANGED <<closed, mu, ctxDone, taskChan, errorChan, task, expired, panicked>>

\* Submit's select: a ready case is chosen at random, the default only if none is.
Submit(t) ==
    /\ ~mu /\ task[t] = "new"
    /\ \/ /\ ~closed /\ Len(taskChan) < BufferSize
          /\ taskChan' = Append(taskChan, t)
          /\ task' = [task EXCEPT ![t] = "queued"]
       \/ /\ closed \/ ctxDone \/ Len(taskChan) = BufferSize
          /\ task' = [task EXCEPT ![t] = "refused"]
          /\ UNCHANGED taskChan

Call(t) ==
    /\ Submit(t)
    /\ UNCHANGED <<ctlVars, errorChan, worker, expired, panicked>>

\* The deadline passes, or SubmitWithTimeout returns and its defer cancels the context.
Expire(t) ==
    /\ t \in Timed \ expired /\ task[t] # "new"
    /\ expired' = expired \cup {t}
    /\ UNCHANGED <<ctlVars, taskChan, errorChan, worker, task, panicked>>

\* The context NewWorkerPool was given is cancelled.
CancelParent ==
    /\ ~ctxDone /\ ctxDone' = TRUE
    /\ UNCHANGED <<started, closed, mu, taskChan, errorChan, worker, task, expired, lateStart, panicked>>

----------------------------------------------------------------------------
(* worker *)

Take(w) ==
    /\ worker[w].pc = "idle" /\ taskChan # <<>>
    /\ taskChan' = Tail(taskChan)
    /\ worker' = [worker EXCEPT ![w] = At("running", Head(taskChan))]
    /\ task' = [task EXCEPT ![Head(taskChan)] = "running"]
    /\ UNCHANGED <<ctlVars, errorChan, expired, panicked>>

Exit(w) ==
    /\ worker[w].pc = "idle"
    /\ ctxDone \/ (closed /\ taskChan = <<>>)
    /\ worker' = [worker EXCEPT ![w] = Gone]
    /\ UNCHANGED <<ctlVars, taskChan, errorChan, task, expired, panicked>>

\* The running task calls Submit, and waits there while Shutdown holds the lock.
EnterSubmit(w) ==
    /\ worker[w].pc = "running" /\ worker[w].task \in Parents
    /\ worker' = [worker EXCEPT ![w].pc = "submitting"]
    /\ UNCHANGED <<ctlVars, taskChan, errorChan, task, expired, panicked>>

SubmitFromTask(w) ==
    /\ worker[w].pc = "submitting"
    /\ \E t \in Tasks : Submit(t)
    /\ worker' = [worker EXCEPT ![w].pc = "submitted"]
    /\ UNCHANGED <<ctlVars, errorChan, expired, panicked>>

\* Mutant: a task's error ends its worker.
ReturnEnds(w, failed) ==
    /\ worker[w].pc \in {"running", "submitted"}
    /\ worker' = [worker EXCEPT ![w] = IF failed THEN Gone ELSE Idle]
    /\ task' = [task EXCEPT ![worker[w].task] = "ran"]
    /\ UNCHANGED <<ctlVars, taskChan, errorChan, expired, panicked>>

\* Execute returns.  A failed send on a full errorChan is dropped; on a closed one it panics.
Return(w, failed) ==
    /\ worker[w].pc \in {"running", "submitted"}
    /\ worker' = [worker EXCEPT ![w] = Idle]
    /\ task' = [task EXCEPT ![worker[w].task] = "ran"]
    /\ panicked' = (failed /\ errorChan = -1)
    /\ errorChan' = IF failed /\ errorChan \in 0..(BufferSize - 1) THEN errorChan + 1 ELSE errorChan
    /\ UNCHANGED <<ctlVars, taskChan, expired>>

\* A reader of ErrorChan.
Drain ==
    /\ errorChan > 0 /\ errorChan' = errorChan - 1
    /\ UNCHANGED <<ctlVars, taskChan, worker, task, expired, panicked>>

----------------------------------------------------------------------------
(* Shutdown; ShutdownWithTimeout runs it in a goroutine that outlives the timeout *)

\* Mutant: errorChan is closed before the workers have ended.
ShutdownClosesErrors ==
    /\ ~mu /\ ~closed
    /\ closed' = TRUE /\ ctxDone' = TRUE /\ mu' = TRUE /\ errorChan' = -1
    /\ UNCHANGED <<started, taskChan, worker, task, expired, lateStart, panicked>>

Shutdown ==
    /\ ~mu /\ ~closed
    /\ closed' = TRUE /\ ctxDone' = TRUE /\ mu' = TRUE
    /\ UNCHANGED <<started, taskChan, errorChan, worker, task, expired, lateStart, panicked>>

\* Mutant: NewWorkerPool, not Start, adds the workers to the wait group.
WaitedForAll ==
    /\ mu /\ \A w \in PoolWorkers : worker[w].pc = "gone"
    /\ mu' = FALSE /\ errorChan' = -1
    /\ UNCHANGED <<started, closed, ctxDone, taskChan, worker, task, expired, lateStart, panicked>>

Waited ==
    /\ mu /\ \A w \in PoolWorkers : worker[w].pc \in {"none", "gone"}
    /\ mu' = FALSE /\ errorChan' = -1
    /\ UNCHANGED <<started, closed, ctxDone, taskChan, worker, task, expired, lateStart, panicked>>

WorkerStep(w) == Take(w) \/ Exit(w) \/ SubmitFromTask(w)

PoolNext ==
    /\ ~panicked
    /\ \/ Start \/ CancelParent \/ Drain \/ Shutdown \/ Waited
       \/ \E t \in Tasks : Call(t) \/ Expire(t)
       \/ \E w \in PoolWorkers :
             \/ WorkerStep(w) \/ EnterSubmit(w)
             \/ \E failed \in BOOLEAN : Return(w, failed)

\* A task that has a timeout need not return by itself; every other one does.
MustReturn(w) ==
    /\ worker[w].pc \in {"running", "submitted"}
    /\ worker[w].task \in Timed => worker[w].task \in expired \/ ctxDone
    /\ \E failed \in BOOLEAN : Return(w, failed)

PoolFairness ==
    /\ WF_poolVars(~panicked /\ Waited)
    /\ \A w \in PoolWorkers :
          /\ WF_poolVars(~panicked /\ WorkerStep(w))
          /\ WF_poolVars(~panicked /\ MustReturn(w))
    /\ \A t \in Timed : WF_poolVars(~panicked /\ Expire(t))

PoolSpec == PoolInit /\ [][PoolNext]_poolVars /\ PoolFairness

----------------------------------------------------------------------------
(* Properties *)

\* No worker sends on the closed errorChan, which would kill the process, as long as Start
\* is not called on a pool that is already shut down (Start looks at started, not at closed,
\* and such workers may still take what is left in the channel).
PanicOnlyAfterLateStart == panicked => lateStart

\* Shutdown returns, although a timed task may hang for ever, unless a worker's task waits
\* in Submit for the lock that Shutdown holds: that one deadlock is the only way to get stuck.
ShutdownReturns == mu ~> (~mu \/ \E w \in PoolWorkers : worker[w].pc = "submitting")

\* A task that Submit accepted is run once the pool is started, unless its context ends first.
AcceptedTaskRuns ==
    \A t \in Tasks : (started /\ task[t] = "queued") ~> (task[t] \in {"running", "ran"} \/ ctxDone)

=============================================================================
