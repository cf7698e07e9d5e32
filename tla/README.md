# A TLA+ verification of proxynd

proxynd is a caching proxy for package repositories (Maven, npm, apt, apk, pip,
yum, Docker). This directory models its concurrent core in TLA+, model-checks it
with TLC on small instances and proves the main results with TLAPS for all
instances.

## The system

| Part | Source | State | Operations | Talks to |
|---|---|---|---|---|
| Cache manager | `cache/manager.go` | `m.mu`, statistics | Get, Put, Exists, Delete, Clear, ForceEviction | backend, evictor |
| File-system backend | `cache/filesystem.go` | a directory of `key`, `key.meta`, `key.tmp`; `fs.mu` | Get, Put, Exists, Delete, GetMetadata, Clear, Size, updateAccessTime | the file system |
| Evictor | `cache/eviction.go` | `e.mu`, a ticker | performEviction, evictByPolicy, the expiry sweep, the LRU policy | backend |
| S3 backend | `cache/s3.go` | objects and metadata objects | as the file-system backend | S3 |
| Circuit breaker | `internal/health/circuit_breaker.go` | state, expiry, counters; `cb.mutex` | Execute, Call, Reset | the guarded call |
| Upstream checks | `internal/health/proxy_health_checker.go`, `enhanced_checkers.go` | a breaker per upstream | checkHTTPUpstream, ExternalServiceChecker.Check | breaker, upstream |
| Automatic recovery | `internal/health/auto_recovery.go` | triggers, cool-downs | recovery actions | breaker manager |
| Request handling | `internal/handlers/base_proxy_impl.go`, `internal/services/proxy`, `internal/usecase` | none of its own | one goroutine per request, an asynchronous Put after the response | cache, upstream |
| Webhook delivery | `internal/webhook` | event queue, retry queue, persistent failures, dead letters | Push, Pop, processEvent, processRetries, Add | HTTP endpoints, disk |
| Worker pool | `internal/goroutine/worker_pool.go` | task channel, error channel, `p.mu` | Start, Submit, SubmitWithTimeout, Shutdown | tasks |
| Connection pools | `internal/performance/connection_pool.go`, `internal/pool` | clients and breakers per host | GetClient, RecordSuccess, RecordFailure | upstream hosts |
| Plugin manager | `plugins`, `internal/plugins` | plugin states | Discover, Initialize, Ready, NotifyEvent, Shutdown | plugins |
| File repository | `internal/repositories/cache` | a file per key, metadata in memory and in one `metadata.json` | Get, Put, Delete, Clear, cleanup | the file system |
| Content-addressed store | `internal/adapters/storage/cas` | blobs under their digest | PutBlob, DeleteBlob | the file system |
| Authentication | `internal/auth` | users, API keys, rate limits, the audit log | login, API keys, MFA, LogEvent, Close | request handlers, the file system |
| Configuration | `internal/config`, `internal/adapters/config` | the current configuration, observers, a watch | load, watch, reload, subscribe | everything |
| Container | `internal/app/container.go` | shared instances; `c.mu` | a getter per instance, Close | constructors of all parts |
| Alerts | `internal/alerts` | alerters, two rate windows | Send, SendToChannel, register, unregister | alerters |
| Backup, sync | `internal/backup` | copies of a repository, a checksum file | PerformBackup, Restore, Sync | the file system |
| Mirror selection | `internal/mirror` | health records, a ticker | Start, Stop, health rounds | mirrors |

What is hard in them: the cache keeps each entry in two files and is used by many
goroutines at once, with evictions that take other locks and metadata rewritten
in the background; any file-system call may fail and the process may stop between
two of them. The breaker decides before and records after a call that runs
without its lock. The remaining hard spots are listed under `hazards` in
`PROJECT.json`, each at its line.

What makes each part correct: a cache never serves anything but what was last
stored under the key, never brings back what was replaced or removed, reports
success only for what has happened, stays within its size and returns from every
call; a breaker opens after its threshold of failures in a row, tests after its
timeout and closes again once the upstream is back; a pool runs every accepted task and can be shut down; a store
keeps what it reported as stored, and what it reported as removed or revoked stays
so, through failures and restarts; a reload ends with the newest file loaded; a
limit holds over every window; a background loop ends when it is stopped and goes
on until then.

## Modules

| Module | Models |
|---|---|
| `AbstractCache` | what callers of the cache may rely on (abstract specification) |
| `FileCache` | manager, file-system backend and evictor, at the grain of locks and file-system calls |
| `MCFileCache` | instances of `FileCache` for TLC, with the symmetry of keys and goroutines |
| `FileCacheProofs` | the inductive invariant and the safety theorems of `FileCache` |
| `FileCacheRefinement` | the proof that `FileCache` implements `AbstractCache` |
| `CircuitBreaker` | one health circuit breaker under concurrent checks |
| `MCCircuitBreaker` | instances of `CircuitBreaker` for TLC |
| `CircuitBreakerProofs` | its inductive invariant and theorems |
| `S3Cache` | one key of the S3 backend, with its purge and access-time goroutines |
| `ProxyFlow` | concurrent proxy requests for one artifact over a cache manager that keeps a cache's contract |
| `FileRepository` | the file repository and its single metadata file |
| `BlobStore` | uploads and deletions of one digest |
| `ApiKeyStore` | the API keys of one user and the file they are saved to |
| `AuditLog` | the audit service: buffer, log, rotation, retention, Close |
| `AlertManager` | sending alerts through the limiter and the registry |
| `MavenBackup`, `MavenSync` | the incremental backup with Restore, and the repository sync |
| `MCStores` | instances of the nine modules above (`S3Cache` to `MavenSync`) for TLC |
| `WorkerPool` | the worker pool |
| `AutoRecovery` | the recovery of one component |
| `ConfigReload` | file watcher, loader and observers |
| `Container` | the lazily created instances of the container |
| `WebhookBatch` | the webhook batch manager |
| `AlpineSelector` | the health loop of the Alpine mirrors |
| `MCServices` | instances of the six services for TLC |
| `ContentProofs` | theorems about `S3Cache`, `ProxyFlow`, `FileRepository`, `BlobStore` |
| `AuthProofs` | theorems about `ApiKeyStore`, `AuditLog` |
| `OperationsProofs` | theorems about `MavenBackup`, `MavenSync`, `AlertManager` |
| `ServiceProofs` | theorems about `WorkerPool`, `Container`, `WebhookBatch` |
| `RecoveryProofs` | theorems about `AutoRecovery`, `ConfigReload`, `AlpineSelector` |

### FileCache

State: `data`, `tmp` and `meta` are the three files of each key; `mgrMu`, `evMu`
and `fsMu` are the holders of the three mutexes; `op`, `pc`, `loc`, `need` are the
call stacks of the goroutines; `touch` holds the `updateAccessTime` goroutines that
hits leave behind; `res` is the last answer each caller got.

Operations: an operation starts by taking its lock (`GetBegin`, `PutBegin`,
`DeleteBegin`, `ClearBegin`, `EvictBegin`) and ends in `Finish`, the deferred
unlock. In between there is one action per critical section of `fs.mu`, or per
file-system call where a critical section writes:

- Get: `GetMiss`, `GetHit`, or `GetExpired` followed by the removal of both files
  under another lock;
- Put: `PutSize`, an eviction when room is needed, then `Write`, `Rename`, `Save`;
- Delete and every victim of an eviction: `RemoveData`, `RemoveMeta`;
- an eviction pass: `EvictSize`, then either the sweep (`Scan`, `SweepCheck` per
  key) or the LRU eviction (`Scan`, `Collect` per key, `Select`, `NextVictim`);
- `updateAccessTime`: `TouchLoad`, `TouchSave`.

Each call that may fail has an action for its failure (`...Fails`), which does what
the code does then: the purge inside Get goes on, Delete and Put return, an
eviction passes over the key, a failed `os.WriteFile` leaves the old metadata or
none. `Crash` clears all goroutines and locks at any moment and may cut short the
metadata being written. A crash in the middle of a copy or of Clear is the failing
call followed by the crash.

Abstractions: contents are the number of the Put that wrote them, time is that
same counter, and a TTL elapses by an environment step (`Elapse`). The code
compares times only with `TTL` and with each other, so nothing else of them
matters; accesses between two Puts tie and the eviction order between them is left
open, which includes what the code does. Metadata that does not parse and metadata
that is absent are one value because the code treats them alike. Keys are distinct
paths: that the file of one key could be another's `.meta` is left out, as are the
directories (after a Clear that could not recreate the base directory `Size` fails
until the next Put; the model counts an empty cache). The walk of a scan is one
step; everything it finds is looked up again under a lock later.

### CircuitBreaker

`allow`, `recordSuccess`, `recordFailure` and `Reset` run under `cb.mutex` and are
one action each (`AllowClosed`, `AllowTest`, `AllowHalfOpen`, `Reject`,
`RecordSuccess`, `RecordFailure`, `Reset`); the guarded request runs between them.
The counters stop at the threshold they are compared with, which no comparison can
notice. `Report` is the status the checks derive from the error of Execute.

### The stores

- `S3Cache`: `PutObject`, `PutMetadata`, `DeleteObject`, `ClearObject`, `DeleteMetadata` are the requests made
  under `s.mu`; a Get of an expired entry leaves a purge behind (`purges`), a hit an
  access update (`touch`) that reads and writes the metadata without the lock. Any
  request may fail and the process may die. `kept` and `overtaken` are history: whether the last Put was
  reported and not removed since, and whether something older was on its way then.
- `ProxyFlow`: `HandleProxyRequest` from look-up to the goroutine that stores the
  response. Upstream answers with a version (`GetPackage`) before its body has been read (`FetchUpstream`), and
  a publication or an invalidation may fall in between. The only `ports.CacheManager` the program wires up is a
  stub that stores nothing (`internal/app/proxy_service_initializer.go:23`), so the module is about the use case over a cache
  manager that keeps what a cache promises: a hit is what was stored last, and an entry may also vanish (`Drop`). `purgedAt`
  and `inFlight` record the last `Invalidate` and the versions that requests were reading or about to store then.
- `FileRepository`: r.mu makes each operation atomic for its callers, and its steps are
  apart because a crash (`Reopen`) can fall between them; `saveMetadata` truncates and then
  writes. A key whose path ends in `metadata.json` is passed over by Clear (`Kept`).
- `BlobStore`: all uploads of a digest share one temporary name; a file is the set of
  chunks written, and a descriptor follows its file through rename and removal.
- `ApiKeyStore`: the lock holder and the usage goroutines, which hold no lock, run
  `saveKeys` through one temporary file; encoding reads the keys one by one.
- `AuditLog`: events, the worker, rotations named by the second, two clean-ups that
  delete from lists taken earlier, and Close.
- `AlertManager`: a small clock with the three windows of the limiter, broadcasts
  under the read lock and redirects outside it.
- `MavenBackup`, `MavenSync`: versions stand for content, checksum and time; copies
  are cut short, checksums cannot be read, workers fail, the process dies. `result.Errors`
  is appended to without a lock, as read, extend and write. The walk of a backup passes over a file it
  cannot visit and says nothing (`ScanSkips`; the comment in the code calls this intended), so a successful backup may lack
  a change: `passed` keeps these files apart. The next run looks at them again; by checksums it copies them, by
  modification times only if they were edited after the last run.

Nothing else in the repository calls `NewIncrementalBackup`, `NewMavenSync`, `NewAuditService`, the batch manager,
or the API-key operations other than validation: their modules describe the library as its callers
may use it.

### The services

- `WorkerPool`: p.mu is held across steps only by Shutdown; a task may call Submit itself, and a
  task with a timeout may hang until its context ends.
- `AutoRecovery`: a recovery goroutine keeps the trigger it was started for and reads and writes its
  attempt counter without the lock (`Begin`, `Attempt`).
- `ConfigReload`: an editor writes in place in two steps, renames, or removes the file and creates it again; the watch is on the
  file, so a rename or a removal ends it (`missed`). A reload that finds no file loads the defaults. One that cannot read
  the file (`ReadFails`) logs that and is not tried again (`lost`) until the next event.
  Overlapping reloads queue at the loader's lock.
- `Container`: a stack of getters per caller; a lock held across a nested getter.
- `WebhookBatch`: groups, the bounded flush channel, worker, ticker, Stop, cancellation.
- `AlpineSelector`: one selector, several Starts, a loop and a ticker for each, Stop. A check that gets
  another status rules a mirror out at `max_error_count`, one that gets no answer at a literal 3 (`recordMirrorError`).
  With the 5 of `docs/30-proxy-types/apk/mirror-selection.md:382` three checks without an answer are therefore enough, against
  its line 180, and with less than 3 as many of them as configured are not. The model has both limits, for every `MaxErrorCount`;
  the run uses 4, where they differ.

## Runs

| Run | Result | What it shows |
|---|---|---|
| `file_cache` | passes, 700 000 states | `CacheContract`, `PurgeOnlyExpired`, `MetadataNotNewer`, `TypeOK` with up to two faults |
| `file_cache_space` | passes, 500 000 states | `MetadataDescribesData`, `SizeBounded` without faults, with oversized entries |
| `file_cache_live` | passes, 43 000 states | `OperationsReturn` |
| `file_cache_sweep` | violates `SweepOnlyExpired` | the sweep deletes an entry stored after it looked |
| `file_cache_read` | violates `HitIsComplete` | a failing read becomes a truncated hit |
| `circuit_breaker` | passes, 29 000 states | `ClosedBelowThreshold`, `BudgetSpent`, `OpenEnds`, `TypeOK` |
| `circuit_breaker_recovery` | violates `BreakerRecovers` | a breaker may stay half-open for ever |
| `circuit_breaker_status` | violates `RejectionDegrades` | a rejected check is reported unhealthy |
| `stores` | passes, 2 060 000 states | the fifteen safety properties of the nine stores |
| `services` | passes, 60 000 states | six safety and eight liveness properties of the services |
| `container_providers` | violates `WatchingStarts` | the getter of the watcher waits for its own lock |
| `maven_backup` | violates `BackupComplete` | a successful backup may lack a file |

What the two large runs show, with the exceptions the code has built into each statement:

| Component | Property | Statement |
|---|---|---|
| S3 | `S3MetaNotNewer`, `S3EntryKept` | metadata never outlives its content's version; a reported Put stays, unless an older purge or update was on its way |
| Proxy flow | `StaleOnlyFromFlight` | after Invalidate only a request that had already been sent an old version brings it back |
| File repository | `FileNotOlder`, `RemovalSticks` | files are never behind their metadata; removed keys stay removed across restarts |
| Blobs | `BlobWholeAtRest`, `StoredIsPresent` | racing uploads leave the whole content; a reported blob is there |
| API keys | `KeyQuotaHeld`, `RevocationSticks` | the quota and a revocation hold across restarts, unless a usage record was being saved |
| Alerts | `AlertLimitHeld`, `UnregisteredIsSilent` | the limits hold over every window; an unregistered channel is not called by a broadcast |
| Backup, sync | `BackupCurrent`, `SyncedIsCurrent` | what a successful run went through is in the copy, except files its walk passed over |
| Audit | `AuditEventKept`, `CloseDrains` | a written event is kept until retention takes it; Close leaves nothing behind |
| Worker pool | `PanicOnlyAfterLateStart`, `ShutdownReturns`, `AcceptedTaskRuns` | the one panic, the one deadlock, and that accepted tasks run |
| Recovery | `AttemptsBounded`, `OutageEscalates` | attempts stay within their limit, and an outage uses them up or is cleared |
| Reload | `QuietMeansCurrent`, `ConfigConverges` | the newest watched file is what is loaded and told, unless reading it failed |
| Container | `InstanceShared`, `GetterReturns` | one instance each; getters that call no others return |
| Batches | `BatchedOnce`, `BatchedEventLeaves`, `StopFlushes` | every event leaves once, also when a flush request is dropped |
| Mirrors | `MirrorRecovers`, `ChecksCease` | a well mirror is used again; after Stop the checks end |

The components of a run share no variable, so a behaviour of the whole is an
interleaving of behaviours of each; exploring one component at a time (`part`) reaches
every state of every component and leaves out only their products, which no property reads.

Bounds. Two goroutines are enough for every race between two operations, and each
may be followed by others; a third actor is the pending access-time update
(`Touchers`, one slot: a hit waits for it, which delays but never excludes an
order of the other steps). Two keys are needed for evictions to choose; `MaxSize`
is one or two entries, so that almost every Put evicts. Two Puts (`MaxPuts`) give an
old and a new version of one key, three let an eviction happen between them. Two
faults (`MaxFaults`) let a failed call be followed by a crash. `file_cache_space`
adds entries larger than `MaxSize`. The breaker runs use the thresholds that
`getCircuitBreaker` configures (3, 3, 3), and `MaxRequests` = 5 in the passing run so that
`AllowHalfOpen` is reachable, with three callers for two late results beside a test
call.

In `stores` each component has the least with which its race happens: two keys and one usage goroutine,
three uploads of two chunks (a third finds what two left behind), two repository keys of which
one is passed over by Clear, three Puts with two access updates and two purges, three
requests and versions, two senders on a clock that outlasts the longest window, two artifacts and two workers,
three audit events with files of one. `services` has two workers, three tasks (one that
submits, one that hangs) and a buffer of one; two triggers and two recoveries; three edits, one
of them invalid, and two overlapping reloads; two callers of three getters; three events in two
groups with a flush channel of one; one mirror and two Starts. `Asked` is limited there to getters
that call no other under the lock, since the others never return (`container_providers`). `CHECK_DEADLOCK` is off in both:
a program with its tasks done, its faults spent or its services stopped may rest.

Fairness. `file_cache_live` assumes that a goroutine whose next step is enabled
again and again takes it (`SF`): Go schedules every goroutine, and a `sync.RWMutex`
admits no new readers once a writer waits and hands a starved waiter the lock.
Nothing is assumed about callers, faults, TTLs or crashes. The breaker assumes that a
guarded request ends (its client has a timeout), that the periodic checks keep
coming and that time passes; nothing about resets or the upstream. `services` assumes of
each service that its goroutines are scheduled, tickers tick, timeouts pass and sends with a
timeout end; strong fairness only where a goroutine waits for a mutex (`ReadFile` or `ReadFails`, the getters); nothing about
callers, editors, mirrors, components or hanging tasks.

The six violations are described under `findings` in `PROJECT.json` with the line of
the code and the sentence of the documentation each contradicts. The sweep and the LRU
pass run from the eviction loop or `ForceEviction`; the server wires the manager up
without starting the loop, so the first finding concerns users of that API.

## Proofs

All theorems hold for any finite set of keys, any sets of goroutines and any bounds
on Puts, versions, chunks and faults; the assumptions are the named `ASSUME`s of the modules (disjoint
identifiers, sizes and TTLs that are natural numbers, thresholds above zero). Every safety
property of the passing runs is the conclusion of a theorem. Each
component has one theorem `...Invariance`, its inductive invariant with one lemma per action or
group of like actions, from which the properties follow.

`FileCacheProofs`: `Invariance` proves `IInv` inductive. None of its parts is so
alone: that a purge hits no live entry (`PurgeOnlyExpired`) needs that no Put is in
progress beside a Get, hence who holds `m.mu` (`LockInv`) and which steps belong to
which operation (`StepInv`); that metadata is not newer than data
(`MetadataNotNewer`) needs that a Put's version is the newest (`VersionInv`) and that
its data file is in place when it saves the metadata (`SectionInv`); both need that
`updateAccessTime` writes back what it read under the same lock (`SectionInv`). The
lemmas `StepKeeps`, `DiskStep` and `FilesUnderLock` state once what any step may change,
and each conjunct then has one lemma with one case per action. `InStep` adds
`PairInv`: without faults only the entry of the goroutine inside `fs.mu` has data and
metadata apart. `TypeCorrect`, `PurgeSafe` and `NeverNewer` follow from `Invariance`.

`SpaceHeld` proves `SizeBounded`. `Size` is a sum over the keys. Instead of an induction, `SumExists`
and `SumUnique` take a set with the fewest elements for which a sum is missing or not unique (`Fewest`, `OneLess`), from
which `TotalRule` follows: a sum changes by what one key changes. The invariant is `SpaceInv`. A Put computes `need` from
`Size` and then looks at the keys one by one while accesses and eviction passes go on, so what it knows
is, for every subset `C` of the items found, that what `C` weighs, the files outside `C` and the incoming
data together exceed `MaxSize` by at most `need`; taking victims of that weight leaves `Room` for the rest,
and every removal of somebody else only adds to it (`Shrinks`). When fewer bytes were found than
needed, all entries are victims and a single one remains (`FitInv`). TLC checked `SpaceInv` on
the instance of `file_cache_space` before the proof. `LocksOrdered` says that m.mu and e.mu are
never held together and that the holder of fs.mu waits for nobody, so no circle of waiting can form.
`HitsWhole` says that the truncated hit of `file_cache_read` takes a failing call: no interleaving alone produces it.

`FileCacheRefinement`: under `IInv` every step of `FileCache` is a step of
`AbstractCache` or a stutter; its header tells which. The interesting one is `Rename`: the
new content becomes visible under the old metadata if that has not expired, so the
abstract cache lets the value of a Put in progress appear before Put returns.

`CircuitBreakerProofs`: `IInv` adds to the two properties that consecutive failures are
never more than the requests counted (`CountInv`). `OneTestOnly` draws the consequence
for the configurations in the code.

`ContentProofs`.

- S3: `S3MetaNotNewer` needs that an access update in flight holds nothing newer than
  the content (`TouchInv`) and that a Put finds its own object when it writes the metadata (`PutInv`);
  `S3EntryKept` needs that a Put that nothing overtook stays free of purges and of older access
  updates until it lapses (`KeptInv`).
- Proxy flow: what is being read or waits to be stored was sent after the last Invalidate or is among the versions
  it noted (`WaitingInv`), because nobody holds a version that is not published (`PublishedInv`).
- File repository: the same age relation for `metadata.json` as for the metadata in memory
  (`IndexInv`) makes a restart harmless; `GoneInv` says that a removed key has no file.
- Blobs: every chunk a file lacks is still to be written by an upload that has this file open,
  wherever its name has moved (`PendingInv`). That is why uploads that truncate each other's
  temporary file still end with the whole blob.

`AuthProofs`.

- API keys: `Places` are all the sets that may become the active keys now or after some saves and a
  restart: the map, both files, and for each saver what it has read together with what it is about to
  read. The quota (`QuotaInv`) and a reported revocation (`AckedInv`) hold in every place. `Flow`
  states what all steps but two do: they bring no key to a place it was in nowhere. The exceptions
  are GenerateAPIKey, which checks the quota under the lock, and the end of a revocation, for which
  `PendingRevoke` says that only `storagePath` may still have the key as active.
- Audit log: a list of files to remove is used after it was taken; `SweepInv` says that it stays a
  list of files that may be removed, since more rotations and a later expiry never take that back
  (a lemma on cardinalities). `KeptInv` then follows every written event through the rotations.

`OperationsProofs`.

- Backup: an unchanged checksum makes PerformBackup pass a file over, so the metadata must
  describe the copies (`SumsInv`) also after a run that failed in the middle; `ThroughInv` says the
  same of what the running backup is through with, but for what its walk passed over (`PassedOver`), and `JobsInv`
  that no two workers have one file.
- Sync: a listed file is still to be looked at, being copied, up to date, or there is an error
  (`ListedInv`); an error is one in the list or one a worker has yet to append (`Erred`), so it
  does not matter whose append is lost. `ReadInv` ties what a worker writes to the source.
- Alerts: a window is the tail of all admissions, and what it has dropped is over (`Latest`); so an admission
  below a limit of n is more than the window's duration after the one n before it (`Spaced`), and an interval
  of that duration has room for n (`SpacedBounds`, with the interval's cardinality). `StaleStops` and `RecentStops`
  say where the two loops over the timestamps stop.

`ServiceProofs`.

- Worker pool: once `errorChan` is closed only workers of a late Start are left (`ClosedInv`). `TasksInv` says
  where a task can be: once in the channel while it is queued (`ChannelInv`), with one worker while it
  runs (`HolderInv`, which needs that there are no workers before Start). From it, `TasksSettle`: what ran or was refused stays so.
- Container: an instance is created only in the step that finds none (`ContainerInv`). `FrameInv` ties c.mu to the
  one call in all stacks that has taken it (`Holds`), so nobody but that call gives it back. Two theorems
  draw the line between the getters that return and those that cannot: `ContainerDeadlock` (who waits under his own lock
  waits for good, the fact behind `container_providers`) and `ContainerLoneReturns` (getters in `Lone` never get there).
- Batches: a group is taken out of the map in the step that makes it a batch, so an event is in
  its group and unsent or was sent once (`OnceInv`); `StopInv` follows Stop through the groups.

`RecoveryProofs`.

- Recovery: unless it was checked too early, a trigger has at most one goroutine that is still to count,
  and both the counter and the value that goroutine has read leave room (`PendingInv`).
- Reload: the newest version is loaded, is being loaded, or an event, a timer or a waiting goroutine
  is left that will load it (`OnItsWay`), or the last attempt to read it failed (`lost`); `LoaderInv` is the loader's lock.
- Mirrors: `RuledOutByErrors` ties the flag that leaves a mirror out to its count of errors: out of use means
  at least the lesser of the two limits, in use means fewer than the greater, also when the loops of two
  Starts check it at once; `RoundInv` and `TickerInv` follow the loops and their tickers. `AlpineStops`: after Stop only a loop
  that still waits on an earlier Start's ticker goes into another round.

Left to TLC: the liveness properties, which are beyond this prover. Where a liveness property rests on a safety
fact, that fact is proved: `LocksOrdered` for `OperationsReturn`, `TasksHeldOnce` and `TasksSettle` for `AcceptedTaskRuns`,
`ContainerLoneReturns` for `GetterReturns`, `AlpineStops` for `ChecksCease`.
The properties of the violation runs are false and have no theorem.

## Where a property stops short

Some properties hold of the code only with an exception, which their comments state. They do not show that the
excepted race is harmless; it is under `hazards`.

| Property | Leaves out |
|---|---|
| `S3EntryKept` | a purge or an access update that was on its way before the Put (`overtaken`) |
| `RevocationSticks` | a revocation while a usage record was being saved (`racy`) |
| `AuditEventKept` | two rotations in one second, where the second takes the name of the first (`clash`) |
| `UnregisteredIsSilent` | SendToChannel, which uses its channel after the lock is given back (`redirect`) |
| `AttemptsBounded` | a failure handled while a recovery started for the same trigger has yet to count its attempt (`late`) |
| `BackupCurrent` | files the walk passed over (`passed`) |
| `QuietMeansCurrent`, `ConfigConverges` | a reload that could not read the file (`lost`) |
| `ShutdownReturns` | a task that submits to its own pool during Shutdown (`submitting`) |
| `GetterReturns` | getters that call another under `c.mu`, which never return (`container_providers`) |

Details of the code that are not in the modules, none of which a property reads:

- `FileCache`: `scanCacheKeys` leaves out keys that end in `.tmp`, `.partial` or `.meta`; after the purge of an expired entry
  `Get` takes the read lock again for its deferred unlock, which is merged with the end of the call.
- `BlobStore`: the two `os.Stat` of the digest's path are one step.
- `FileRepository`: one file per key, though `getFilePath` maps some keys to one path.
- `WebhookBatch`: with batching disabled an event goes straight to the sender; a second Stop panics.
- `AuditLog`: an event logged after Close panics on the closed channel; the model takes no such step, and `CloseDrains` is
  only about what was accepted before.
- `Container`: the branch of `GetAptProxyConfig` for an instance of another type, which would give the read lock back twice; the map
  holds no such instance.

## Plan

1. Done: `AbstractCache`, `FileCache`, `CircuitBreaker`, their runs and proofs.
2. Done: the nine stores and six services above.
3. Done: a theorem for every safety property of the passing runs, and for the safety facts under their liveness properties.

## Not modelled

- Webhook queue, worker, retries and dead letters: the sender reaches them only through placeholders, so
  there is no behaviour of the program to describe.
- Connection pools and plugins: maps behind one lock and a life cycle run once at start.
- MFA, JWT and password handling: cryptography, or values copied within one call.
- Request handlers and package-manager protocols: parsing and rewriting of paths and package indexes, pure
  functions over large texts. The request path itself is `ProxyFlow`.
- Configuration structures, validation rules and defaults, metrics, generated API documentation, the
  command line, deployment files: data, counters and text, without a state that changes.

These are most of the repository by lines: the modelled files are the ones in which goroutines, failures
and restarts meet. `components` in `PROJECT.json` gives each part and its reason.
