---------------------------- MODULE AutoRecovery ----------------------------
(***************************************************************************)
(* internal/health/auto_recovery.go for one registered component: the      *)
(* monitor that checks it every ten seconds, the RecoveryTrigger of the    *)
(* current outage, and the goroutines that perform recoveries.             *)
(*                                                                         *)
(* A goroutine keeps its pointer to the trigger it was started for, which  *)
(* may have been dropped from the map since.  FailureCount is only         *)
(* compared with the threshold and stops there; AttemptCount stops one     *)
(* above its limit.                                                        *)
(***************************************************************************)
EXTENDS Naturals

CONSTANTS Triggers,          \* identities of RecoveryTrigger objects
          NoTrigger,         \* the component has none in ars.triggers
          Runs,              \* goroutines that may perform a recovery at a time
          FailureThreshold, MaxRetryAttempts

ASSUME RecoveryAssumption ==
    /\ NoTrigger \notin Triggers
    /\ FailureThreshold \in Nat \ {0} /\ MaxRetryAttempts \in Nat \ {0}

VARIABLES
    health,    \* what GetStatus reports of the component
    trigger,   \* ars.triggers[component]
    count,     \* count[x]: FailureCount, AttemptCount of x, and whether its cooldown is over
    run,       \* run[r]: free, spawned, counting or acting, its trigger and the AttemptCount it has read
    monitor,   \* whether monitorHealth still runs
    late       \* triggers checked while a goroutine spawned for them had not begun

recoveryVars == <<health, trigger, count, run, monitor, late>>

Fresh == [failures |-> 0, attempts |-> 0, cooled |-> FALSE]
Free == [pc |-> "free", trigger |-> NoTrigger, seen |-> 0]
Spawned(x) == [pc |-> "spawned", trigger |-> x, seen |-> 0]
Capped(n, limit) == IF n > limit THEN limit ELSE n

RecoveryInit ==
    /\ health = "healthy" /\ trigger = NoTrigger
    /\ count = [x \in Triggers |-> Fresh]
    /\ run = [r \in Runs |-> Free]
    /\ monitor = TRUE /\ late = {}

----------------------------------------------------------------------------
(* checkAndRecover *)

\* The trigger that handleFailure works on: the current one, or a new object.
TriggerAt(x) ==
    IF trigger # NoTrigger THEN x = trigger
    ELSE x \in Triggers /\ \A r \in Runs : run[r].trigger # x

Counted(x) ==
    LET c == IF trigger = NoTrigger THEN Fresh ELSE count[x] IN
    [c EXCEPT !.failures = Capped(@ + 1, FailureThreshold)]

\* Mutant: one attempt more than MaxRetryAttempts.
DueOneMore(c) ==
    /\ c.failures >= FailureThreshold
    /\ c.attempts > 0 => c.cooled
    /\ ~(c.attempts > MaxRetryAttempts)

\* Mutant: a trigger that was attempted stays in its cooldown.
DueOnce(c) ==
    /\ c.failures >= FailureThreshold
    /\ c.attempts = 0
    /\ ~(c.attempts >= MaxRetryAttempts)

\* The conditions of handleFailure; the cooldown counts from TriggerTime, the first failure.
Due(c) ==
    /\ c.failures >= FailureThreshold
    /\ c.attempts > 0 => c.cooled
    /\ ~(c.attempts >= MaxRetryAttempts)

handleFailure(x) ==
    /\ monitor /\ health = "unhealthy" /\ TriggerAt(x)
    /\ trigger' = x
    /\ count' = [count EXCEPT ![x] = Counted(x)]
    /\ late' = IF trigger = NoTrigger THEN late \ {x}
               ELSE IF \E r \in Runs : run[r].trigger = x /\ run[r].pc \in {"spawned", "counting"}
                    THEN late \cup {x} ELSE late
    /\ IF Due(Counted(x))
       THEN \E r \in Runs : run[r] = Free /\ run' = [run EXCEPT ![r] = Spawned(x)]
       ELSE UNCHANGED run
    /\ UNCHANGED <<health, monitor>>

\* An object is forgotten once neither the map nor a goroutine refers to it.
Forget ==
    LET live == {x \in Triggers : trigger' = x \/ \E r \in Runs : run'[r].trigger = x} IN
    /\ count' = [x \in Triggers |-> IF x \in live THEN count[x] ELSE Fresh]
    /\ late' = late \cap live

handleRecovery ==
    /\ monitor /\ health = "healthy" /\ trigger # NoTrigger
    /\ trigger' = NoTrigger
    /\ UNCHANGED <<health, run, monitor>> /\ Forget

----------------------------------------------------------------------------
(* performRecovery *)

\* AttemptCount++ is a read and a write without the lock: another goroutine may come between.
Begin(r) ==
    /\ run[r].pc = "spawned"
    /\ run' = [run EXCEPT ![r].pc = "counting", ![r].seen = count[run[r].trigger].attempts]
    /\ UNCHANGED <<health, trigger, count, monitor, late>>

Attempt(r) ==
    /\ run[r].pc = "counting"
    /\ count' = [count EXCEPT ![run[r].trigger].attempts = Capped(run[r].seen + 1, MaxRetryAttempts + 1)]
    /\ run' = [run EXCEPT ![r].pc = "acting", ![r].seen = 0]
    /\ UNCHANGED <<health, trigger, monitor, late>>

\* The action fails or times out, or there is none for the strategy.
Fail(r) ==
    /\ run[r].pc = "acting"
    /\ run' = [run EXCEPT ![r] = Free]
    /\ UNCHANGED <<health, trigger, monitor>> /\ Forget

\* The component's trigger is dropped, also when it is not the one that was acted on.
Succeed(r) ==
    /\ run[r].pc = "acting"
    /\ run' = [run EXCEPT ![r] = Free]
    /\ trigger' = NoTrigger
    /\ UNCHANGED <<health, monitor>> /\ Forget

----------------------------------------------------------------------------
(* Surroundings *)

HealthChanges ==
    /\ health' \in {"healthy", "degraded", "unhealthy"} \ {health}
    /\ UNCHANGED <<trigger, count, run, monitor, late>>

Cooled(x) ==
    /\ trigger = x /\ count[x].attempts > 0 /\ ~count[x].cooled
    /\ count' = [count EXCEPT ![x].cooled = TRUE]
    /\ UNCHANGED <<health, trigger, run, monitor, late>>

\* Stop cancels the context and waits for the monitor, not for the recoveries.
StopMonitor ==
    /\ monitor /\ monitor' = FALSE
    /\ UNCHANGED <<health, trigger, count, run, late>>

RecoveryStep(r) == Begin(r) \/ Attempt(r) \/ Fail(r) \/ Succeed(r)

RecoveryNext ==
    \/ \E x \in Triggers : handleFailure(x) \/ Cooled(x)
    \/ handleRecovery \/ HealthChanges \/ StopMonitor
    \/ \E r \in Runs : RecoveryStep(r)

\* The ticker keeps ticking, time passes, and a recovery ends at the latest at its timeout.
RecoveryFairness ==
    /\ WF_recoveryVars(\E x \in Triggers : handleFailure(x))
    /\ WF_recoveryVars(handleRecovery)
    /\ \A x \in Triggers : WF_recoveryVars(Cooled(x))
    /\ \A r \in Runs : WF_recoveryVars(RecoveryStep(r))

RecoverySpec == RecoveryInit /\ [][RecoveryNext]_recoveryVars /\ RecoveryFairness

----------------------------------------------------------------------------
(* Properties *)

\* No trigger is acted on more than MaxRetryAttempts times, although the attempts are counted
\* by the goroutines without the lock that the check holds - as long as a goroutine gets to
\* count before the next check, ten seconds later.
AttemptsBounded ==
    \A x \in Triggers : count[x].attempts > MaxRetryAttempts => x \in late

\* An outage that lasts is either cleared again and again by recoveries that report success,
\* or attempted MaxRetryAttempts times: the monitor never gives up earlier.
OutageEscalates ==
    <>[](monitor /\ health = "unhealthy") =>
       \/ []<>(trigger = NoTrigger)
       \/ <>(trigger # NoTrigger /\ count[trigger].attempts >= MaxRetryAttempts)

=============================================================================
