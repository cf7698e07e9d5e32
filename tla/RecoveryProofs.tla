--------------------------- MODULE RecoveryProofs ---------------------------
(***************************************************************************)
(* Proofs about AutoRecovery, ConfigReload and AlpineSelector, for any     *)
(* number of triggers, goroutines, observers, versions of the file,        *)
(* mirrors and handlers.                                                   *)
(***************************************************************************)
EXTENDS AutoRecovery, ConfigReload, AlpineSelector, TLAPS

----------------------------------------------------------------------------
(* AutoRecovery *)

RecoveryTypes ==
    /\ trigger \in Triggers \cup {NoTrigger}
    /\ count \in [Triggers -> [failures : Nat, attempts : Nat, cooled : BOOLEAN]]
    /\ run \in [Runs -> [pc : {"free", "spawned", "counting", "acting"},
                         trigger : Triggers \cup {NoTrigger}, seen : Nat]]
    /\ \A r \in Runs : run[r].pc # "free" => run[r].trigger \in Triggers

\* Goroutine r has been spawned for x and has not counted its attempt yet.
Pending(r, x) == run[r].trigger = x /\ run[r].pc \in {"spawned", "counting"}

\* Unless x was checked too early, at most one goroutine is to count an attempt of x, and both
\* the counter and the value it has read of it leave room for that attempt.
PendingInv ==
    \A x \in Triggers \ late, r \in Runs :
       Pending(r, x) =>
          /\ count[x].attempts < MaxRetryAttempts
          /\ run[r].pc = "counting" => run[r].seen < MaxRetryAttempts
          /\ \A s \in Runs : Pending(s, x) => s = r

RecoveryInv == RecoveryTypes /\ PendingInv /\ AttemptsBounded

LEMMA RecoveryStart == RecoveryInit => RecoveryInv
  BY RecoveryAssumption
  DEF RecoveryInit, RecoveryInv, RecoveryTypes, PendingInv, Pending, AttemptsBounded, Fresh, Free

\* What handleFailure makes of the counters of its trigger.
LEMMA CountedType ==
    ASSUME RecoveryTypes, NEW x \in Triggers
    PROVE  /\ Counted(x) \in [failures : Nat, attempts : Nat, cooled : BOOLEAN]
           /\ Counted(x).attempts = (IF trigger = NoTrigger THEN 0 ELSE count[x].attempts)
  <1> DEFINE c == IF trigger = NoTrigger THEN Fresh ELSE count[x]
  <1>1. c \in [failures : Nat, attempts : Nat, cooled : BOOLEAN]
    BY DEF RecoveryTypes, Fresh
  <1>2. c.attempts = (IF trigger = NoTrigger THEN 0 ELSE count[x].attempts)
    BY DEF Fresh
  <1>3. Counted(x) = [c EXCEPT !.failures = Capped(@ + 1, FailureThreshold)]
    BY DEF Counted
  <1> HIDE DEF c
  <1>4. Capped(c.failures + 1, FailureThreshold) \in Nat
    BY <1>1, RecoveryAssumption DEF Capped
  <1> QED
    BY <1>1, <1>2, <1>3, <1>4

\* A check: it spawns a goroutine for a trigger that has none pending, or the trigger is late.
LEMMA FailureKeeps == ASSUME RecoveryInv, NEW x \in Triggers, handleFailure(x) PROVE RecoveryInv'
  <1> USE DEF RecoveryInv
  <1>c. /\ Counted(x) \in [failures : Nat, attempts : Nat, cooled : BOOLEAN]
        /\ Counted(x).attempts = (IF trigger = NoTrigger THEN 0 ELSE count[x].attempts)
    BY CountedType
  <1>t. trigger' = x /\ count' = [count EXCEPT ![x] = Counted(x)] /\ TriggerAt(x)
    BY DEF handleFailure
  <1>r. \/ UNCHANGED run
        \/ /\ Due(Counted(x))
           /\ \E r \in Runs : run[r] = Free /\ run' = [run EXCEPT ![r] = Spawned(x)]
    BY DEF handleFailure
  <1>l. late' = IF trigger = NoTrigger THEN late \ {x}
               ELSE IF \E r \in Runs : Pending(r, x) THEN late \cup {x} ELSE late
    BY DEF handleFailure, Pending
  <1>n. count' \in [Triggers -> [failures : Nat, attempts : Nat, cooled : BOOLEAN]]
        /\ count'[x] = Counted(x) /\ \A y \in Triggers \ {x} : count'[y] = count[y]
    BY <1>c, <1>t DEF RecoveryTypes
  <1>1. RecoveryTypes'
    <2>1. CASE UNCHANGED run
      BY <1>t, <1>n, <2>1 DEF RecoveryTypes
    <2>2. ASSUME NEW r \in Runs, run' = [run EXCEPT ![r] = Spawned(x)] PROVE RecoveryTypes'
      BY <1>t, <1>n, <2>2 DEF RecoveryTypes, Spawned
    <2> QED
      BY <1>r, <2>1, <2>2
  <1>2. AttemptsBounded'
    <2> SUFFICES ASSUME NEW y \in Triggers, count'[y].attempts > MaxRetryAttempts PROVE y \in late'
      BY DEF AttemptsBounded
    <2>1. CASE y # x
      BY <1>l, <1>n, <2>1 DEF AttemptsBounded
    <2>2. CASE y = x
      BY <1>l, <1>n, <1>c, <2>2, RecoveryAssumption DEF AttemptsBounded
    <2> QED
      BY <2>1, <2>2
  <1>3. \A y \in Triggers \ {x} : y \in late <=> y \in late'
    BY <1>l
  <1>4. x \notin late' => (\A r \in Runs : ~Pending(r, x))
    BY <1>l, <1>t DEF TriggerAt, Pending
  <1>5. PendingInv'
    <2> SUFFICES ASSUME NEW y \in Triggers, y \notin late', NEW r \in Runs, Pending(r, y)'
                 PROVE  /\ count'[y].attempts < MaxRetryAttempts
                        /\ run'[r].pc = "counting" => run'[r].seen < MaxRetryAttempts
                        /\ \A s \in Runs : Pending(s, y)' => s = r
      BY DEF PendingInv
    <2>1. CASE UNCHANGED run
      <3>1. y # x
        BY <1>4, <2>1 DEF Pending
      <3> QED
        BY <1>3, <1>n, <2>1, <3>1 DEF Pending, PendingInv
    <2>2. ASSUME NEW q \in Runs, Due(Counted(x)), run[q] = Free, run' = [run EXCEPT ![q] = Spawned(x)]
          PROVE  /\ count'[y].attempts < MaxRetryAttempts
                 /\ run'[r].pc = "counting" => run'[r].seen < MaxRetryAttempts
                 /\ \A s \in Runs : Pending(s, y)' => s = r
      <3>1. /\ run'[q] = Spawned(x) /\ \A s \in Runs \ {q} : run'[s] = run[s]
        BY <2>2 DEF RecoveryTypes
      <3>2. CASE y = x
        <4>1. Counted(x).attempts < MaxRetryAttempts
          BY <2>2, <1>c, RecoveryAssumption DEF Due
        <4>2. \A s \in Runs : Pending(s, x)' => s = q
          BY <3>1, <3>2, <1>4 DEF Pending
        <4> QED
          BY <3>1, <3>2, <4>1, <4>2, <1>n DEF Spawned
      <3>3. CASE y # x
        <4>1. \A s \in Runs : Pending(s, y)' => Pending(s, y) /\ run'[s] = run[s]
          BY <3>1, <3>3 DEF Pending, Spawned
        <4> QED
          BY <4>1, <1>3, <1>n, <3>3 DEF PendingInv
      <3> QED
        BY <3>2, <3>3
    <2> QED
      BY <1>r, <2>1, <2>2
  <1> QED
    BY <1>1, <1>2, <1>5

\* Forgetting an object concerns no goroutine that is still to count.
LEMMA ForgetKeeps ==
    ASSUME RecoveryInv, Forget, trigger' \in Triggers \cup {NoTrigger},
           UNCHANGED run \/ \E r \in Runs : run' = [run EXCEPT ![r] = Free]
    PROVE  RecoveryInv'
  <1> USE DEF RecoveryInv
  <1> DEFINE live == {x \in Triggers : trigger' = x \/ \E r \in Runs : run'[r].trigger = x}
  <1>f. /\ count' = [x \in Triggers |-> IF x \in live THEN count[x] ELSE Fresh]
        /\ late' = late \cap live
    BY DEF Forget
  <1>1. count' \in [Triggers -> [failures : Nat, attempts : Nat, cooled : BOOLEAN]]
    BY <1>f DEF RecoveryTypes, Fresh
  <1>2. \A s \in Runs : run'[s] = run[s] \/ run'[s] = Free
    BY DEF RecoveryTypes
  <1>3. run' \in [Runs -> [pc : {"free", "spawned", "counting", "acting"},
                           trigger : Triggers \cup {NoTrigger}, seen : Nat]]
    BY DEF RecoveryTypes, Free
  <1>4. RecoveryTypes'
    BY <1>1, <1>2, <1>3 DEF RecoveryTypes, Free
  <1>5. \A x \in live : count'[x] = count[x] /\ (x \in late' <=> x \in late)
    BY <1>f
  <1>6. \A x \in Triggers \ live : count'[x].attempts = 0 /\ \A s \in Runs : run'[s].trigger # x
    BY <1>f DEF Fresh
  <1> HIDE DEF live
  <1>l. live \subseteq Triggers
    BY DEF live
  <1>7. AttemptsBounded'
    <2> SUFFICES ASSUME NEW y \in Triggers, count'[y].attempts > MaxRetryAttempts PROVE y \in late'
      BY DEF AttemptsBounded
    <2>1. CASE y \in live
      BY <1>5, <2>1 DEF AttemptsBounded
    <2>2. CASE y \notin live
      BY <1>6, <2>2, RecoveryAssumption
    <2> QED
      BY <2>1, <2>2
  <1>8. PendingInv'
    <2> SUFFICES ASSUME NEW y \in Triggers, y \notin late', NEW r \in Runs, Pending(r, y)'
                 PROVE  /\ count'[y].attempts < MaxRetryAttempts
                        /\ run'[r].pc = "counting" => run'[r].seen < MaxRetryAttempts
                        /\ \A s \in Runs : Pending(s, y)' => s = r
      BY DEF PendingInv
    <2>1. y \in live
      BY <1>6 DEF Pending
    <2>2. \A s \in Runs : Pending(s, y)' => Pending(s, y) /\ run'[s] = run[s]
      BY <1>2 DEF Pending, Free
    <2> QED
      BY <2>1, <2>2, <1>5 DEF PendingInv
  <1> QED
    BY <1>4, <1>7, <1>8

\* The two halves of AttemptCount++.
LEMMA CountingKeeps == ASSUME RecoveryInv, NEW r \in Runs, Begin(r) \/ Attempt(r) PROVE RecoveryInv'
  <1> USE DEF RecoveryInv
  <1> DEFINE x == run[r].trigger
  <1>0. x \in Triggers
    BY DEF Begin, Attempt, RecoveryTypes
  <1>1. CASE Begin(r)
    <2>1. run' = [run EXCEPT ![r].pc = "counting", ![r].seen = count[x].attempts]
          /\ UNCHANGED <<trigger, count, late>> /\ run[r].pc = "spawned"
      BY <1>1 DEF Begin
    <2>2. count[x].attempts \in Nat
      BY <1>0 DEF RecoveryTypes
    <2>3. run'[r] = [pc |-> "counting", trigger |-> x, seen |-> count[x].attempts]
          /\ \A s \in Runs \ {r} : run'[s] = run[s]
      BY <2>1 DEF RecoveryTypes
    <2>4. RecoveryTypes'
      <3>1. run' \in [Runs -> [pc : {"free", "spawned", "counting", "acting"},
                           trigger : Triggers \cup {NoTrigger}, seen : Nat]]
        BY <2>1, <2>2 DEF RecoveryTypes
      <3> QED
        BY <2>1, <2>3, <3>1, <1>0 DEF RecoveryTypes
    <2>5. \A s \in Runs, y \in Triggers : Pending(s, y)' => Pending(s, y)
      <3> SUFFICES ASSUME NEW s \in Runs, NEW y \in Triggers, Pending(s, y)' PROVE Pending(s, y)
        OBVIOUS
      <3>1. CASE s = r
        BY <2>1, <2>3, <3>1 DEF Pending
      <3>2. CASE s # r
        BY <2>3, <3>2 DEF Pending
      <3> QED
        BY <3>1, <3>2
    <2>6. PendingInv'
      <3> SUFFICES ASSUME NEW y \in Triggers, y \notin late', NEW s \in Runs, Pending(s, y)'
                   PROVE  /\ count'[y].attempts < MaxRetryAttempts
                          /\ run'[s].pc = "counting" => run'[s].seen < MaxRetryAttempts
                          /\ \A q \in Runs : Pending(q, y)' => q = s
        BY DEF PendingInv
      <3>1. /\ count[y].attempts < MaxRetryAttempts
            /\ run[s].pc = "counting" => run[s].seen < MaxRetryAttempts
            /\ \A q \in Runs : Pending(q, y) => q = s
        BY <2>1, <2>5 DEF PendingInv
      <3>2. s = r => y = x
        BY <2>3 DEF Pending
      <3>3. run'[s].pc = "counting" => run'[s].seen < MaxRetryAttempts
        BY <2>3, <3>1, <3>2
      <3> QED
        BY <2>1, <2>5, <3>1, <3>3
    <2>7. AttemptsBounded'
      BY <2>1 DEF AttemptsBounded
    <2> QED
      BY <2>4, <2>6, <2>7
  <1>2. CASE Attempt(r)
    <2>1. /\ run' = [run EXCEPT ![r].pc = "acting", ![r].seen = 0]
          /\ count' = [count EXCEPT ![x].attempts = Capped(run[r].seen + 1, MaxRetryAttempts + 1)]
          /\ UNCHANGED <<trigger, late>> /\ run[r].pc = "counting"
      BY <1>2 DEF Attempt
    <2>2. Capped(run[r].seen + 1, MaxRetryAttempts + 1) \in Nat
          /\ (run[r].seen < MaxRetryAttempts => Capped(run[r].seen + 1, MaxRetryAttempts + 1) <= MaxRetryAttempts)
      BY RecoveryAssumption DEF Capped, RecoveryTypes
    <2>3. run'[r] = [pc |-> "acting", trigger |-> x, seen |-> 0]
          /\ \A s \in Runs \ {r} : run'[s] = run[s]
      BY <2>1 DEF RecoveryTypes
    <2>4. /\ count' \in [Triggers -> [failures : Nat, attempts : Nat, cooled : BOOLEAN]]
          /\ count'[x].attempts = Capped(run[r].seen + 1, MaxRetryAttempts + 1)
          /\ \A y \in Triggers \ {x} : count'[y] = count[y]
      BY <2>1, <2>2, <1>0 DEF RecoveryTypes
    <2>5. RecoveryTypes'
      <3>1. run' \in [Runs -> [pc : {"free", "spawned", "counting", "acting"},
                           trigger : Triggers \cup {NoTrigger}, seen : Nat]]
        BY <2>1 DEF RecoveryTypes
      <3> QED
        BY <2>1, <2>3, <2>4, <3>1, <1>0 DEF RecoveryTypes
    <2>6. \A s \in Runs, y \in Triggers : Pending(s, y)' => s # r /\ Pending(s, y) /\ run'[s] = run[s]
      <3> SUFFICES ASSUME NEW s \in Runs, NEW y \in Triggers, Pending(s, y)'
                   PROVE  s # r /\ Pending(s, y) /\ run'[s] = run[s]
        OBVIOUS
      <3>1. s # r
        BY <2>3 DEF Pending
      <3> QED
        BY <2>3, <3>1 DEF Pending
    <2>7. x \notin late => run[r].seen < MaxRetryAttempts /\ \A s \in Runs : Pending(s, x) => s = r
      BY <1>0, <2>1 DEF PendingInv, Pending
    <2>8. PendingInv'
      <3> SUFFICES ASSUME NEW y \in Triggers, y \notin late', NEW s \in Runs, Pending(s, y)'
                   PROVE  /\ count'[y].attempts < MaxRetryAttempts
                          /\ run'[s].pc = "counting" => run'[s].seen < MaxRetryAttempts
                          /\ \A q \in Runs : Pending(q, y)' => q = s
        BY DEF PendingInv
      <3>1. y # x
        BY <2>1, <2>6, <2>7
      <3>2. count'[y] = count[y]
        BY <3>1, <2>4
      <3> QED
        BY <3>2, <2>1, <2>6 DEF PendingInv
    <2>9. AttemptsBounded'
      <3> SUFFICES ASSUME NEW y \in Triggers, count'[y].attempts > MaxRetryAttempts PROVE y \in late'
        BY DEF AttemptsBounded
      <3>1. CASE y = x
        BY <3>1, <2>1, <2>2, <2>4, <2>7, RecoveryAssumption
      <3>2. CASE y # x
        BY <3>2, <2>1, <2>4 DEF AttemptsBounded
      <3> QED
        BY <3>1, <3>2
    <2> QED
      BY <2>5, <2>8, <2>9
  <1> QED
    BY <1>1, <1>2

\* RecoveryInv is an invariant of the automatic recovery.
THEOREM RecoveryInvariance == RecoverySpec => []RecoveryInv
  <1>1. RecoveryInv /\ [RecoveryNext]_recoveryVars => RecoveryInv'
    <2> SUFFICES ASSUME RecoveryInv, [RecoveryNext]_recoveryVars PROVE RecoveryInv'
      OBVIOUS
    <2>1. ASSUME NEW x \in Triggers, handleFailure(x) PROVE RecoveryInv'
      BY <2>1, FailureKeeps
    <2>2. ASSUME NEW x \in Triggers, Cooled(x) PROVE RecoveryInv'
      <3>1. /\ count' \in [Triggers -> [failures : Nat, attempts : Nat, cooled : BOOLEAN]]
            /\ \A y \in Triggers : count'[y].attempts = count[y].attempts
            /\ UNCHANGED <<trigger, run, late>>
        BY <2>2 DEF Cooled, RecoveryInv, RecoveryTypes
      <3> QED
        BY <3>1 DEF RecoveryInv, RecoveryTypes, PendingInv, Pending, AttemptsBounded
    <2>3. CASE handleRecovery
      BY <2>3, ForgetKeeps DEF handleRecovery
    <2>4. CASE HealthChanges \/ StopMonitor \/ UNCHANGED recoveryVars
      BY <2>4 DEF HealthChanges, StopMonitor, recoveryVars,
                  RecoveryInv, RecoveryTypes, PendingInv, Pending, AttemptsBounded
    <2>5. ASSUME NEW r \in Runs, RecoveryStep(r) PROVE RecoveryInv'
      <3>1. CASE Begin(r) \/ Attempt(r)
        BY <3>1, CountingKeeps
      <3>2. CASE Fail(r) \/ Succeed(r)
        <4>1. trigger' \in Triggers \cup {NoTrigger} /\ Forget /\ run' = [run EXCEPT ![r] = Free]
          BY <3>2 DEF Fail, Succeed, RecoveryInv, RecoveryTypes
        <4> QED
          BY <4>1, ForgetKeeps
      <3> QED
        BY <2>5, <3>1, <3>2 DEF RecoveryStep
    <2> QED
      BY <2>1, <2>2, <2>3, <2>4, <2>5 DEF RecoveryNext
  <1> QED
    BY <1>1, RecoveryStart, PTL DEF RecoverySpec

\* No outage is acted on more than MaxRetryAttempts times unless its trigger was checked again
\* before a goroutine spawned for it had counted.
THEOREM RecoveryAttempts == RecoverySpec => []AttemptsBounded
  <1>1. RecoveryInv => AttemptsBounded
    BY DEF RecoveryInv
  <1> QED
    BY <1>1, RecoveryInvariance, PTL

----------------------------------------------------------------------------
(* ConfigReload *)

ReloadTypes ==
    /\ disk \in 0..MaxEdits /\ current \in 0..Half /\ subscribed \subseteq Observers
    /\ watcher \in {"new", "running", "stopped"}
    /\ file \in {"whole", "half", "gone"} /\ watched \in BOOLEAN /\ event \in BOOLEAN
    /\ timer \in BOOLEAN /\ missed \in BOOLEAN /\ lost \in BOOLEAN
    /\ reload \in [Reloads -> [pc : {"idle", "started", "loading"}, read : 0..Unread]]
    /\ told \in [Observers -> 0..Unread]
    /\ \A r \in Reloads : reload[r].pc = "loading" => reload[r].read \in 0..Half

\* The loader's lock: one goroutine loads at a time, and tells every observer before it ends.
LoaderInv ==
    /\ \A r, s \in Reloads : reload[r].pc = "loading" /\ reload[s].pc = "loading" => r = s
    /\ \A o \in subscribed : told[o] = current

\* Before Start nothing is under way, and only an edit that no watch saw changes the file.
BeforeStart ==
    watcher = "new" =>
       /\ ~watched /\ ~event /\ ~timer /\ current = 0
       /\ \A r \in Reloads : reload[r].pc = "idle"
       /\ missed \/ (disk = 0 /\ file = "whole")

\* The newest version is loaded, or being loaded, or something is left that will load it, unless
\* reading it has failed.
OnItsWay ==
    \/ event \/ timer \/ lost
    \/ \E r \in Reloads : reload[r].pc = "started"
    \/ \E r \in Reloads : reload[r].pc = "loading" /\ reload[r].read = disk
    \/ current = disk /\ \A r \in Reloads : reload[r].pc # "loading"

SeenOnItsWay == (file = "whole" /\ ~missed /\ watcher = "running" /\ disk \notin Invalid) => OnItsWay

ReloadInv == ReloadTypes /\ LoaderInv /\ BeforeStart /\ SeenOnItsWay

LEMMA ReloadStart == ReloadInit => ReloadInv
  <1> SUFFICES ASSUME ReloadInit PROVE ReloadInv
    OBVIOUS
  <1>1. 0 \in 0..MaxEdits /\ 0 \in 0..Half /\ Unread \in 0..Unread
    BY ReloadAssumption DEF Half, Unread
  <1>2. ReloadTypes
    BY <1>1 DEF ReloadInit, ReloadTypes, Rested
  <1>3. LoaderInv /\ BeforeStart /\ SeenOnItsWay
    BY DEF ReloadInit, LoaderInv, BeforeStart, SeenOnItsWay, Rested
  <1> QED
    BY <1>2, <1>3 DEF ReloadInv

\* A change of the file leaves an event behind, or is missed.
LEMMA EditKeeps == ASSUME ReloadInv, BeginEdit \/ EndEdit \/ ReplaceFile PROVE ReloadInv'
  <1> USE DEF ReloadInv
  <1>u. UNCHANGED loaderVars /\ UNCHANGED <<reload, current, subscribed, told, watcher, timer>>
    BY DEF BeginEdit, EndEdit, ReplaceFile, loaderVars
  <1>1. LoaderInv'
    BY <1>u DEF LoaderInv
  <1>2. ReloadTypes'
    <2>1. disk' \in 0..MaxEdits
      BY ReloadAssumption DEF BeginEdit, EndEdit, ReplaceFile, ReloadTypes
    <2>2. /\ file' \in {"whole", "half", "gone"}
          /\ missed' \in BOOLEAN /\ watched' \in BOOLEAN /\ lost' \in BOOLEAN
      BY Zenon DEF BeginEdit, EndEdit, ReplaceFile, ReloadTypes
    <2>3. event' \in BOOLEAN
      BY Zenon DEF BeginEdit, EndEdit, ReplaceFile, ReloadTypes, Notify
    <2> QED
      BY <1>u, <2>1, <2>2, <2>3 DEF ReloadTypes
  <1>3. BeforeStart'
    <2> SUFFICES ASSUME watcher = "new" PROVE ~watched' /\ ~event' /\ missed'
      BY <1>u DEF BeforeStart
    <2>1. ~watched /\ ~event
      BY DEF BeforeStart
    <2>2. CASE BeginEdit
      BY <2>1, <2>2, Zenon DEF BeginEdit, Notify
    <2>3. CASE EndEdit
      BY <2>1, <2>3, Zenon DEF EndEdit, Notify
    <2>4. CASE ReplaceFile
      BY <2>1, <2>4, Zenon DEF ReplaceFile
    <2> QED
      BY <2>2, <2>3, <2>4
  <1>4. SeenOnItsWay'
    <2>1. CASE BeginEdit
      BY <2>1 DEF BeginEdit, SeenOnItsWay
    <2>2. CASE EndEdit
      <3>1. missed' \/ event'
        BY <2>2 DEF EndEdit, Notify
      <3> QED
        BY <3>1 DEF SeenOnItsWay, OnItsWay
    <2>3. CASE ReplaceFile
      BY <2>3 DEF ReplaceFile, SeenOnItsWay
    <2> QED
      BY <2>1, <2>2, <2>3
  <1> QED
    BY <1>1, <1>2, <1>3, <1>4

LEMMA WatcherKeeps == ASSUME ReloadInv, StartWatcher \/ StopWatcher \/ Debounce PROVE ReloadInv'
  <1> USE DEF ReloadInv
  <1>u. UNCHANGED <<disk, file, missed, lost, reload, current, subscribed, told>>
    BY DEF StartWatcher, StopWatcher, Debounce, loaderVars, fileVars
  <1>1. LoaderInv'
    BY <1>u DEF LoaderInv
  <1>2. ReloadTypes'
    <2>1. /\ watcher' \in {"new", "running", "stopped"}
          /\ watched' \in BOOLEAN /\ event' \in BOOLEAN /\ timer' \in BOOLEAN
      BY DEF StartWatcher, StopWatcher, Debounce, ReloadTypes
    <2> QED
      BY <1>u, <2>1 DEF ReloadTypes
  <1>3. BeforeStart'
    BY DEF StartWatcher, StopWatcher, Debounce, BeforeStart
  <1>4. SeenOnItsWay'
    <2>1. CASE StartWatcher
      <3>1. missed \/ (disk = current /\ \A r \in Reloads : reload[r].pc # "loading")
        BY <2>1 DEF StartWatcher, BeforeStart
      <3> QED
        BY <3>1, <1>u DEF SeenOnItsWay, OnItsWay
    <2>2. CASE StopWatcher
      BY <2>2 DEF StopWatcher, SeenOnItsWay
    <2>3. CASE Debounce
      BY <2>3 DEF Debounce, SeenOnItsWay, OnItsWay
    <2> QED
      BY <2>1, <2>2, <2>3
  <1> QED
    BY <1>1, <1>2, <1>3, <1>4

\* The steps of a reload: what is read under the lock is assigned before anybody else reads.
LEMMA LoadKeeps == ASSUME ReloadInv, NEW r \in Reloads, ReloadStep(r) PROVE ReloadInv'
  <1> USE DEF ReloadInv
  <1>u. UNCHANGED <<disk, file, missed, watcher, watched, event, subscribed>>
    BY DEF ReloadStep, Fire, ReadFile, ReadFails, Reject, Accept, fileVars
  <1>l. lost' \in BOOLEAN
    BY DEF ReloadStep, Fire, ReadFile, ReadFails, Reject, Accept, ReloadTypes
  <1>b. watcher # "new"
    BY DEF ReloadStep, Fire, ReadFile, ReadFails, Reject, Accept, BeforeStart
  <1>3. BeforeStart'
    BY <1>u, <1>b DEF BeforeStart
  <1>o. \A s \in Reloads \ {r} : reload'[s] = reload[s]
    BY DEF ReloadStep, Fire, ReadFile, ReadFails, Reject, Accept, ReloadTypes
  <1>4. CASE Fire(r)
    <2>1. reload'[r] = [pc |-> "started", read |-> Unread] /\ timer' = FALSE /\ UNCHANGED <<current, told>>
      BY <1>4 DEF Fire, ReloadTypes, Rested
    <2>2. reload' \in [Reloads -> [pc : {"idle", "started", "loading"}, read : 0..Unread]]
      BY <1>4 DEF Fire, ReloadTypes
    <2>3. ReloadTypes'
      <3>1. timer' \in BOOLEAN
        BY <2>1
      <3>2. \A s \in Reloads : reload'[s].pc = "loading" => reload'[s] = reload[s]
        BY <2>1, <1>o
      <3> QED
        BY <2>1, <2>2, <3>1, <3>2, <1>u, <1>l DEF ReloadTypes
    <2>4. LoaderInv'
      <3>1. reload'[r].pc # "loading"
        BY <2>1
      <3> QED
        BY <2>1, <3>1, <1>u, <1>o DEF LoaderInv
    <2>5. SeenOnItsWay'
      BY <2>1 DEF SeenOnItsWay, OnItsWay
    <2> QED
      BY <1>3, <2>3, <2>4, <2>5
  <1>5. CASE ReadFile(r)
    <2>1. /\ reload'[r] = [pc |-> "loading", read |-> Content]
          /\ UNCHANGED <<timer, current, told>>
      BY <1>5 DEF ReadFile, ReloadTypes
    <2>0. Content \in 0..Half /\ 0..Half \subseteq 0..Unread
      BY ReloadAssumption DEF ReloadTypes, Content, Half, Unread
    <2>2. reload' \in [Reloads -> [pc : {"idle", "started", "loading"}, read : 0..Unread]]
      BY <1>5, <2>0 DEF ReadFile, ReloadTypes
    <2>3. ReloadTypes'
      BY <2>0, <2>1, <2>2, <1>u, <1>o, <1>l DEF ReloadTypes
    <2>4. LoaderInv'
      BY <2>1, <1>u, <1>o, <1>5 DEF LoaderInv, ReadFile, Locked
    <2>5. SeenOnItsWay'
      BY <2>1, <1>u DEF SeenOnItsWay, OnItsWay, Content
    <2> QED
      BY <1>3, <2>3, <2>4, <2>5
  <1>6. CASE Reject(r)
    <2>1. /\ reload'[r] = Rested /\ reload[r].read \in Invalid \cup {Half}
          /\ UNCHANGED <<timer, current, told, lost>> /\ reload[r].pc = "loading"
      BY <1>6 DEF Reject, ReloadTypes
    <2>2. reload' \in [Reloads -> [pc : {"idle", "started", "loading"}, read : 0..Unread]]
      BY <1>6, ReloadAssumption DEF Reject, ReloadTypes, Rested, Unread
    <2>3. ReloadTypes'
      BY <2>1, <2>2, <1>u, <1>o, <1>l DEF ReloadTypes, Rested
    <2>4. LoaderInv'
      BY <2>1, <1>u, <1>o DEF LoaderInv, Rested
    <2>5. disk \notin Invalid => reload[r].read # disk
      BY <2>1, ReloadAssumption DEF ReloadTypes, Half
    <2>6. SeenOnItsWay'
      BY <2>1, <2>5, <1>u, <1>o DEF SeenOnItsWay, OnItsWay
    <2> QED
      BY <1>3, <2>3, <2>4, <2>6
  <1>7. CASE Accept(r)
    <2>1. /\ reload'[r] = Rested /\ current' = reload[r].read
          /\ told' = [o \in Observers |-> IF o \in subscribed THEN current' ELSE told[o]]
          /\ UNCHANGED <<timer, lost>> /\ reload[r].pc = "loading"
      BY <1>7 DEF Accept, ReloadTypes
    <2>2. reload' \in [Reloads -> [pc : {"idle", "started", "loading"}, read : 0..Unread]]
      BY <1>7, ReloadAssumption DEF Accept, ReloadTypes, Rested, Unread
    <2>c. current' \in 0..Half /\ current' \in 0..Unread
      BY <2>1, ReloadAssumption DEF ReloadTypes, Half, Unread
    <2>t. told' \in [Observers -> 0..Unread]
      BY <2>1, <2>c DEF ReloadTypes
    <2>3. ReloadTypes'
      BY <2>1, <2>2, <2>c, <2>t, <1>u, <1>o, <1>l DEF ReloadTypes, Rested
    <2>4. LoaderInv'
      BY <2>1, <1>u, <1>o DEF LoaderInv, Rested, ReloadTypes
    <2>5. \A s \in Reloads : reload'[s].pc # "loading"
      BY <2>1, <1>o DEF LoaderInv, Rested
    <2>6. SeenOnItsWay'
      BY <2>1, <2>5, <1>u, <1>o DEF SeenOnItsWay, OnItsWay, LoaderInv
    <2> QED
      BY <1>3, <2>3, <2>4, <2>6
  <1>8. CASE ReadFails(r)
    <2>1. /\ reload'[r] = Rested /\ lost' = (current # disk)
          /\ UNCHANGED <<timer, current, told>> /\ \A s \in Reloads : reload[s].pc # "loading"
      BY <1>8 DEF ReadFails, ReloadTypes, Locked
    <2>2. reload' \in [Reloads -> [pc : {"idle", "started", "loading"}, read : 0..Unread]]
      BY <1>8, ReloadAssumption DEF ReadFails, ReloadTypes, Rested, Unread
    <2>3. \A s \in Reloads : reload'[s].pc # "loading"
      BY <2>1, <1>o DEF Rested
    <2>4. ReloadTypes'
      BY <2>1, <2>2, <2>3, <1>u, <1>l DEF ReloadTypes
    <2>5. LoaderInv'
      BY <2>1, <2>3, <1>u DEF LoaderInv
    <2>6. SeenOnItsWay'
      BY <2>1, <2>3, <1>u DEF SeenOnItsWay, OnItsWay
    <2> QED
      BY <1>3, <2>4, <2>5, <2>6
  <1> QED
    BY <1>4, <1>5, <1>6, <1>7, <1>8 DEF ReloadStep

LEMMA ObserverKeeps == ASSUME ReloadInv, NEW o \in Observers, Subscribe(o) \/ Unsubscribe(o) PROVE ReloadInv'
  <1> USE DEF ReloadInv
  <1>u. UNCHANGED <<disk, file, missed, lost, watcher, watched, event, timer, reload, current>>
    BY DEF Subscribe, Unsubscribe, fileVars
  <1>1. BeforeStart' /\ SeenOnItsWay'
    BY <1>u DEF BeforeStart, SeenOnItsWay, OnItsWay
  <1>2. LoaderInv'
    BY <1>u DEF Subscribe, Unsubscribe, LoaderInv, ReloadTypes
  <1>3. told' \in [Observers -> 0..Unread] /\ subscribed' \subseteq Observers
    BY ReloadAssumption DEF Subscribe, Unsubscribe, ReloadTypes, Half, Unread
  <1>4. ReloadTypes'
    BY <1>u, <1>3 DEF ReloadTypes
  <1> QED
    BY <1>1, <1>2, <1>4

\* ReloadInv is an invariant of the watcher, the loader and its observers.
THEOREM ReloadInvariance == ReloadSpec => []ReloadInv
  <1>1. ReloadInv /\ [ReloadNext]_reloadVars => ReloadInv'
    <2> SUFFICES ASSUME ReloadInv, [ReloadNext]_reloadVars PROVE ReloadInv'
      OBVIOUS
    <2>1. CASE ReloadNext
      BY <2>1, EditKeeps, WatcherKeeps, LoadKeeps, ObserverKeeps DEF ReloadNext
    <2>2. CASE UNCHANGED reloadVars
      BY <2>2 DEF reloadVars, ReloadInv, ReloadTypes, LoaderInv, BeforeStart, SeenOnItsWay, OnItsWay
    <2> QED
      BY <2>1, <2>2
  <1> QED
    BY <1>1, ReloadStart, PTL DEF ReloadSpec

\* When nothing is left to do, a watched and valid file is what is loaded and what every observer
\* was told, unless the reload could not read it: no reload overwrites the newest configuration by
\* an older one.
THEOREM ReloadQuiet == ReloadSpec => []QuietMeansCurrent
  <1>1. ReloadInv => QuietMeansCurrent
    BY DEF ReloadInv, SeenOnItsWay, OnItsWay, LoaderInv, QuietMeansCurrent, Rested
  <1> QED
    BY <1>1, ReloadInvariance, PTL

----------------------------------------------------------------------------
(* AlpineSelector *)

AlpineTypes ==
    /\ up \in [Mirrors -> BOOLEAN]
    /\ mirrorHealth \in [Mirrors -> [healthy : BOOLEAN, errors : 0..Cap]]
    /\ loop \in [Starters -> {"new", "starting", "first", "begin", "round", "select", "ended"}]
    /\ records \in Starters \cup {NoTicker}
    /\ held \in [Starters -> Starters \cup {NoTicker}]
    /\ asked \in [Starters -> SUBSET Mirrors]
    /\ updateTicker \in Starters \cup {NoTicker} /\ ticking \in SUBSET Starters

\* The lesser of the two limits, as Cap is the greater.
LowerLimit == IF MaxErrorCount < 3 THEN MaxErrorCount ELSE 3

\* A mirror is left out after as many errors in a row as the lesser of the two limits and not
\* before, and always when the greater one is reached: with max_error_count 5 three errors of
\* client.Do do, and with 2 a third one is needed if the errors are of that kind.
RuledOutByErrors ==
    \A m \in Mirrors :
       /\ ~mirrorHealth[m].healthy => mirrorHealth[m].errors >= LowerLimit
       /\ mirrorHealth[m].healthy => mirrorHealth[m].errors < Cap

\* Only a loop waits for answers, and what it waits for is of the current round.
RoundInv == \A s \in Starters : asked[s] # {} => loop[s] \in {"first", "round"}

\* Stop holds: the ticker the loops turn to is stopped, and every ticker that runs is
\* that of a Start that is through its first round.
TickerInv ==
    /\ quit => updateTicker \notin ticking
    /\ ticking \subseteq {s \in Starters : loop[s] \in {"begin", "round", "select", "ended"}}

AlpineInv == AlpineTypes /\ RuledOutByErrors /\ RoundInv /\ TickerInv

\* What one check makes of a record.
LEMMA OutcomeKeeps ==
    ASSUME NEW h \in [healthy : BOOLEAN, errors : 0..Cap], NEW result \in {"ok", "status", "error"},
           ~h.healthy => h.errors >= LowerLimit, h.healthy => h.errors < Cap
    PROVE  /\ Outcome(h, result) \in [healthy : BOOLEAN, errors : 0..Cap]
           /\ ~Outcome(h, result).healthy => Outcome(h, result).errors >= LowerLimit
           /\ Outcome(h, result).healthy => Outcome(h, result).errors < Cap
  <1>0. /\ h.errors \in 0..Cap /\ h.healthy \in BOOLEAN
        /\ Cap \in Nat /\ LowerLimit \in 1..3 /\ Cap >= 3
        /\ MaxErrorCount \in LowerLimit..Cap /\ 3 \in LowerLimit..Cap
    BY AlpineAssumption DEF Cap, LowerLimit
  <1>1. CASE result = "ok"
    BY <1>0, <1>1 DEF Outcome, Well
  <1>2. ASSUME NEW limit \in {MaxErrorCount, 3}, Outcome(h, result) = Failed(h, limit)
        PROVE  /\ Outcome(h, result) \in [healthy : BOOLEAN, errors : 0..Cap]
               /\ ~Outcome(h, result).healthy => Outcome(h, result).errors >= LowerLimit
               /\ Outcome(h, result).healthy => Outcome(h, result).errors < Cap
    <2> DEFINE n == IF h.errors < Cap THEN h.errors + 1 ELSE Cap
    <2>1. n \in 0..Cap /\ limit \in LowerLimit..Cap /\ n >= h.errors
      BY <1>0
    <2>2. Outcome(h, result) = [healthy |-> h.healthy /\ n < limit, errors |-> n]
      BY <1>2 DEF Failed
    <2> HIDE DEF n
    <2>3. Outcome(h, result) \in [healthy : BOOLEAN, errors : 0..Cap]
      BY <1>0, <2>1, <2>2
    <2>4. Outcome(h, result).errors = n
      BY <2>2
    <2>5. Outcome(h, result).healthy <=> h.healthy /\ n < limit
      <3> DEFINE b == h.healthy /\ n < limit
      <3>1. Outcome(h, result) = [healthy |-> b, errors |-> n]
        BY <2>2
      <3> HIDE DEF b
      <3>2. Outcome(h, result).healthy = b
        BY <3>1
      <3> QED
        BY <3>2 DEF b
    <2> QED
      BY <1>0, <2>1, <2>3, <2>4, <2>5
  <1>3. CASE result = "status"
    BY <1>2, <1>3 DEF Outcome
  <1>4. CASE result = "error"
    BY <1>2, <1>4 DEF Outcome
  <1> QED
    BY <1>1, <1>3, <1>4

\* The invariant holds before the first Start.
LEMMA AlpineStart == AlpineInit => AlpineInv
  BY AlpineAssumption DEF AlpineInit, AlpineInv, AlpineTypes, RuledOutByErrors, RoundInv, TickerInv, Well, Cap

\* Every step of the selector keeps the invariant.
LEMMA AlpineStep == ASSUME AlpineInv, AlpineNext PROVE AlpineInv'
  <1> USE DEF AlpineInv
  <1>1. ASSUME NEW m \in Mirrors, UpDown(m) PROVE AlpineInv'
    BY <1>1 DEF UpDown, AlpineTypes, RuledOutByErrors, RoundInv, TickerInv
  <1>2. ASSUME NEW s \in Starters, StartSelector(s) PROVE AlpineInv'
    <2>1. AlpineTypes'
      BY <1>2, AlpineAssumption DEF StartSelector, AlpineTypes, Well, Cap
    <2>2. RuledOutByErrors'
      BY <1>2, AlpineAssumption DEF StartSelector, RuledOutByErrors, Well, Cap
    <2>3. RoundInv' /\ TickerInv'
      BY <1>2 DEF StartSelector, AlpineTypes, RoundInv, TickerInv
    <2> QED
      BY <2>1, <2>2, <2>3
  <1>3. ASSUME NEW s \in Starters, BeginRound(s) PROVE AlpineInv'
    <2>1. AlpineTypes'
      BY <1>3 DEF BeginRound, AlpineTypes
    <2>2. RuledOutByErrors'
      BY <1>3 DEF BeginRound, RuledOutByErrors
    <2>3. RoundInv' /\ TickerInv'
      BY <1>3 DEF BeginRound, AlpineTypes, RoundInv, TickerInv
    <2> QED
      BY <2>1, <2>2, <2>3
  <1>4. ASSUME NEW s \in Starters, FirstRoundEnds(s) PROVE AlpineInv'
    <2>1. AlpineTypes'
      BY <1>4 DEF FirstRoundEnds, AlpineTypes
    <2>2. RuledOutByErrors'
      BY <1>4 DEF FirstRoundEnds, RuledOutByErrors
    <2>3. RoundInv' /\ TickerInv'
      BY <1>4 DEF FirstRoundEnds, AlpineTypes, RoundInv, TickerInv
    <2> QED
      BY <2>1, <2>2, <2>3
  <1>5. ASSUME NEW s \in Starters, RoundEnds(s) PROVE AlpineInv'
    <2>1. AlpineTypes'
      BY <1>5 DEF RoundEnds, AlpineTypes
    <2>2. RuledOutByErrors'
      BY <1>5 DEF RoundEnds, RuledOutByErrors
    <2>3. RoundInv' /\ TickerInv'
      BY <1>5 DEF RoundEnds, AlpineTypes, RoundInv, TickerInv
    <2> QED
      BY <2>1, <2>2, <2>3
  <1>6. ASSUME NEW s \in Starters, Tick(s) PROVE AlpineInv'
    <2>1. AlpineTypes'
      BY <1>6 DEF Tick, AlpineTypes
    <2>2. RuledOutByErrors'
      BY <1>6 DEF Tick, RuledOutByErrors
    <2>3. RoundInv' /\ TickerInv'
      BY <1>6 DEF Tick, AlpineTypes, RoundInv, TickerInv
    <2> QED
      BY <2>1, <2>2, <2>3
  <1>7. ASSUME NEW s \in Starters, SendStop(s) PROVE AlpineInv'
    <2>1. AlpineTypes'
      BY <1>7 DEF SendStop, AlpineTypes
    <2>2. RuledOutByErrors'
      BY <1>7 DEF SendStop, RuledOutByErrors
    <2>3. RoundInv' /\ TickerInv'
      BY <1>7 DEF SendStop, AlpineTypes, RoundInv, TickerInv
    <2> QED
      BY <2>1, <2>2, <2>3
  <1>8. CASE StopTicker \/ StopUnheard
    BY <1>8 DEF StopTicker, StopUnheard, AlpineTypes, RuledOutByErrors, RoundInv, TickerInv
  <1>9. ASSUME NEW s \in Starters, NEW m \in Mirrors, NEW result \in {"ok", "status", "error"},
               checkMirrorHealth(s, m, result)
        PROVE  AlpineInv'
    <2>1. /\ mirrorHealth[m] \in [healthy : BOOLEAN, errors : 0..Cap]
          /\ ~mirrorHealth[m].healthy => mirrorHealth[m].errors >= LowerLimit
          /\ mirrorHealth[m].healthy => mirrorHealth[m].errors < Cap
      BY DEF AlpineTypes, RuledOutByErrors
    <2> DEFINE h == Outcome(mirrorHealth[m], result)
    <2>2. /\ h \in [healthy : BOOLEAN, errors : 0..Cap]
          /\ ~h.healthy => h.errors >= LowerLimit
          /\ h.healthy => h.errors < Cap
      BY <2>1, OutcomeKeeps
    <2>3. mirrorHealth' = mirrorHealth \/ mirrorHealth' = [mirrorHealth EXCEPT ![m] = h]
      BY <1>9 DEF checkMirrorHealth
    <2> HIDE DEF h
    <2>4. mirrorHealth' \in [Mirrors -> [healthy : BOOLEAN, errors : 0..Cap]]
      BY <2>2, <2>3 DEF AlpineTypes
    <2>5. RuledOutByErrors'
      BY <2>2, <2>3 DEF AlpineTypes, RuledOutByErrors
    <2>6. AlpineTypes' /\ RoundInv' /\ TickerInv'
      BY <1>9, <2>4 DEF checkMirrorHealth, AlpineTypes, RoundInv, TickerInv
    <2> QED
      BY <2>5, <2>6
  <1> QED
    BY <1>1, <1>2, <1>3, <1>4, <1>5, <1>6, <1>7, <1>8, <1>9 DEF AlpineNext, LoopStep

\* AlpineInv is inductive: every Start, round, tick, check and Stop of the selector, in any
\* order and from any number of handlers, preserves it.
THEOREM AlpineInvariance == AlpineSpec => []AlpineInv
  <1>1. AlpineInv /\ [AlpineNext]_alpineVars => AlpineInv'
    <2> SUFFICES ASSUME AlpineInv, [AlpineNext]_alpineVars PROVE AlpineInv'
      OBVIOUS
    <2>1. CASE UNCHANGED alpineVars
      BY <2>1 DEF AlpineInv, AlpineTypes, RuledOutByErrors, RoundInv, TickerInv, alpineVars
    <2> QED
      BY <2>1, AlpineStep
  <1> QED
    BY <1>1, AlpineStart, PTL DEF AlpineSpec

\* A mirror is left out of the selection only after three or MaxErrorCount errors in a row,
\* whichever is less, and never kept beyond the greater of the two, for every value of
\* MaxErrorCount, also when two handlers' loops check it at once and a Start replaces its record
\* in between.
THEOREM AlpineRulesOut == AlpineSpec => []RuledOutByErrors
  <1>1. AlpineInv => RuledOutByErrors
    BY DEF AlpineInv
  <1> QED
    BY <1>1, AlpineInvariance, PTL

\* After Stop no loop goes into a round on the ticker that Stop found: a loop that does
\* still waits on the ticker of an earlier Start, and turns to the stopped one after it.
NoRoundAfterStop ==
    \A s \in Starters : quit /\ loop[s] = "select" /\ loop'[s] = "begin" => held[s] # updateTicker

\* The safety half of ChecksCease, for any number of handlers that call Start.
THEOREM AlpineStops == AlpineSpec => [][NoRoundAfterStop]_alpineVars
  <1>1. AlpineInv /\ [AlpineNext]_alpineVars => [NoRoundAfterStop]_alpineVars
    <2> SUFFICES ASSUME AlpineInv, AlpineNext, NEW s \in Starters,
                        quit, loop[s] = "select", loop'[s] = "begin"
                 PROVE  held[s] # updateTicker
      BY DEF NoRoundAfterStop
    <2>0. loop \in [Starters -> {"new", "starting", "first", "begin", "round", "select", "ended"}]
      BY DEF AlpineInv, AlpineTypes
    <2>1. Tick(s)
      BY <2>0 DEF AlpineNext, LoopStep, UpDown, StartSelector, BeginRound, FirstRoundEnds, RoundEnds,
             Tick, SendStop, checkMirrorHealth, StopTicker, StopUnheard
    <2> QED
      BY <2>1 DEF Tick, AlpineInv, TickerInv
  <1> QED
    BY <1>1, AlpineInvariance, PTL DEF AlpineSpec

====
