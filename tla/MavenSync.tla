----------------------------- MODULE MavenSync -----------------------------
(***************************************************************************)
(* internal/backup/maven_sync.go: Sync of a source directory to a target   *)
(* with copying workers, and the deletion of what the source no longer has *)
(* in mirror mode.                                                         *)
(*                                                                         *)
(* Every edit makes a new version; its number stands for the content and   *)
(* the modification time, its parity for the size.  A cut copy of a long   *)
(* version may be as long as a short version.  Workers append to           *)
(* result.Errors without a lock.                                           *)
(***************************************************************************)
EXTENDS Naturals

CONSTANTS SyncFiles,
          SyncWorkers,
          SyncOptions,      \* the options Sync is called with
          MaxSyncEdits      \* bound on edits

Modes == {"mirror", "backup", "incremental"}
AllSyncOptions == [mode : Modes, verify : BOOLEAN, dry : BOOLEAN, confirm : BOOLEAN, workers : SUBSET SyncWorkers]

ASSUME SyncAssumption == MaxSyncEdits \in Nat /\ SyncOptions \subseteq AllSyncOptions

VARIABLES
    from,       \* from[f]: the version in the source
    to,         \* to[f]: version and modification time in the target
    changes,    \* edits so far
    sync,       \* the call of Sync: step, options, sourceFiles, jobs, changes at its start
    copier,     \* copier[w]: step of a worker, its file, the version it reads, errors it has seen
    errs,       \* length of result.Errors, at most 2
    synced      \* the latest Sync that has returned, with its number of errors

syncVars == <<from, to, changes, sync, copier, errs, synced>>

Gone == 0
Partial(v) == MaxSyncEdits + 1 + (v % 2)
SizeOf(v) == IF v > MaxSyncEdits THEN v - MaxSyncEdits - 1 ELSE 1 + (v % 2)

NoSync == [pc |-> "idle"]
AtRest == [pc |-> "idle"]

SyncInit ==
    /\ from = [f \in SyncFiles |-> Gone] /\ to = [f \in SyncFiles |-> [v |-> Gone, t |-> 0]]
    /\ changes = 0 /\ sync = NoSync /\ copier = [w \in SyncWorkers |-> AtRest]
    /\ errs = 0 /\ synced = NoSync

EditSource(f) ==
    /\ changes < MaxSyncEdits /\ changes' = changes + 1
    /\ from' = [from EXCEPT ![f] = changes + 1]
    /\ UNCHANGED <<to, sync, copier, errs, synced>>

RemoveSource(f) ==
    /\ from[f] # Gone /\ from' = [from EXCEPT ![f] = Gone]
    /\ UNCHANGED <<to, changes, sync, copier, errs, synced>>

----------------------------------------------------------------------------
(* Sync *)

\* The walk skips what it cannot read.
BeginSync(opt, unread) ==
    /\ sync = NoSync
    /\ LET files == {f \in SyncFiles \ unread : from[f] # Gone} IN
       sync' = [pc |-> "copy", opt |-> opt, listed |-> [f \in files |-> from[f]], jobs |-> files, start |-> changes]
    /\ errs' = 0 /\ synced' = NoSync
    /\ UNCHANGED <<from, to, changes, copier>>

\* Mutant: files of one size are taken to be equal without their checksums.
NeedsSyncUnverified(f) ==
    \/ to[f].v = Gone
    \/ SizeOf(sync.listed[f]) # SizeOf(to[f].v)
    \/ sync.opt.mode = "incremental" /\ sync.listed[f] > to[f].t

NeedsSync(f) ==
    \/ to[f].v = Gone
    \/ SizeOf(sync.listed[f]) # SizeOf(to[f].v)
    \/ sync.opt.mode = "incremental" /\ sync.listed[f] > to[f].t
    \/ sync.opt.verify /\ from[f] # to[f].v

Working(w) == sync.pc = "copy" /\ w \in sync.opt.workers /\ copier[w] = AtRest

Skip(w, f) ==
    /\ Working(w) /\ f \in sync.jobs
    /\ ~NeedsSync(f) \/ sync.opt.dry
    /\ sync' = [sync EXCEPT !.jobs = @ \ {f}]
    /\ UNCHANGED <<from, to, changes, copier, errs, synced>>

\* os.Open of the source and os.Create of the target.
OpenBoth(w, f) ==
    /\ Working(w) /\ f \in sync.jobs
    /\ NeedsSync(f) /\ ~sync.opt.dry /\ from[f] # Gone
    /\ sync' = [sync EXCEPT !.jobs = @ \ {f}]
    /\ to' = [to EXCEPT ![f] = [v |-> Partial(from[f]), t |-> changes]]
    /\ copier' = [copier EXCEPT ![w] = [pc |-> "copy", file |-> f, v |-> from[f]]]
    /\ UNCHANGED <<from, changes, errs, synced>>

\* needsSync returns an error, or a file cannot be opened.
JobFails(w, f) ==
    /\ Working(w) /\ f \in sync.jobs
    /\ sync' = [sync EXCEPT !.jobs = @ \ {f}]
    /\ copier' = [copier EXCEPT ![w] = [pc |-> "report"]]
    /\ UNCHANGED <<from, to, changes, errs, synced>>

SyncCopied(w) ==
    /\ copier[w].pc = "copy"
    /\ to' = [to EXCEPT ![copier[w].file].v = copier[w].v]
    /\ copier' = [copier EXCEPT ![w] = [pc |-> "stamp", file |-> copier[w].file]]
    /\ UNCHANGED <<from, changes, sync, errs, synced>>

\* os.Remove of the cut copy may fail as well.
SyncCopyFails(w) ==
    /\ copier[w].pc = "copy"
    /\ \/ to' = [to EXCEPT ![copier[w].file] = [v |-> Gone, t |-> 0]]
       \/ UNCHANGED to
    /\ copier' = [copier EXCEPT ![w] = [pc |-> "report"]]
    /\ UNCHANGED <<from, changes, sync, errs, synced>>

\* The modification time is that of the source by now; it may be newer than what was copied.
Stamp(w) ==
    LET f == copier[w].file IN
    /\ copier[w].pc = "stamp"
    /\ to' = [to EXCEPT ![f].t = IF from[f] = Gone THEN @ ELSE from[f]]
    /\ copier' = [copier EXCEPT ![w] = AtRest]
    /\ UNCHANGED <<from, changes, sync, errs, synced>>

\* append reads the slice and assigns it again: of two at a time one is lost.
ReadErrors(w) ==
    /\ copier[w].pc = "report"
    /\ copier' = [copier EXCEPT ![w] = [pc |-> "append", seen |-> errs]]
    /\ UNCHANGED <<from, to, changes, sync, errs, synced>>

Longer(n) == IF n < 2 THEN n + 1 ELSE n

AppendError(w) ==
    /\ copier[w].pc = "append"
    /\ errs' = Longer(copier[w].seen)
    /\ copier' = [copier EXCEPT ![w] = AtRest]
    /\ UNCHANGED <<from, to, changes, sync, synced>>

\* With no worker the jobs stay in their channel, and nobody waits for them.
CopiesDone ==
    /\ sync.pc = "copy" /\ \A w \in SyncWorkers : copier[w] = AtRest
    /\ sync.jobs = {} \/ sync.opt.workers = {}
    /\ sync' = [sync EXCEPT !.pc = "cleanup",
                            !.jobs = IF sync.opt.mode # "mirror" \/ sync.opt.dry \/ sync.opt.confirm THEN {}
                                     ELSE {f \in SyncFiles : to[f].v # Gone} \ DOMAIN sync.listed]
    /\ UNCHANGED <<from, to, changes, copier, errs, synced>>

\* A target that the walk cannot read is passed over.
CleanupTarget(f) ==
    /\ sync.pc = "cleanup" /\ f \in sync.jobs
    /\ sync' = [sync EXCEPT !.jobs = @ \ {f}]
    /\ \/ UNCHANGED <<to, errs>>
       \/ to' = [to EXCEPT ![f] = [v |-> Gone, t |-> 0]] /\ UNCHANGED errs
       \/ errs' = Longer(errs) /\ UNCHANGED to
    /\ UNCHANGED <<from, changes, copier, synced>>

EndSync ==
    /\ sync.pc = "cleanup" /\ sync.jobs = {}
    /\ synced' = [pc |-> "returned", opt |-> sync.opt, listed |-> DOMAIN sync.listed, start |-> sync.start]
    /\ sync' = NoSync
    /\ UNCHANGED <<from, to, changes, copier, errs>>

SyncStops ==
    /\ sync # NoSync
    /\ sync' = NoSync /\ copier' = [w \in SyncWorkers |-> AtRest] /\ errs' = 0
    /\ UNCHANGED <<from, to, changes, synced>>

SyncNext ==
    \/ \E f \in SyncFiles :
          \/ EditSource(f) \/ RemoveSource(f) \/ CleanupTarget(f)
          \/ \E w \in SyncWorkers : Skip(w, f) \/ OpenBoth(w, f) \/ JobFails(w, f)
    \/ \E w \in SyncWorkers :
          SyncCopied(w) \/ SyncCopyFails(w) \/ Stamp(w) \/ ReadErrors(w) \/ AppendError(w)
    \/ \E opt \in SyncOptions, unread \in SUBSET SyncFiles : BeginSync(opt, unread)
    \/ CopiesDone \/ EndSync \/ SyncStops

SyncSpec == SyncInit /\ [][SyncNext]_syncVars

----------------------------------------------------------------------------
(* Properties *)

\* A verifying Sync that reports no error, by a call with a worker, has left every listed file
\* that has not been edited since it began as it is in the source, although an earlier Sync was
\* cut off, its workers overwrite each other's errors and a mirror deletes files at its end.
SyncedIsCurrent ==
    (synced # NoSync /\ errs = 0 /\ synced.opt.verify /\ ~synced.opt.dry /\ synced.opt.workers # {})
    => \A f \in synced.listed : from[f] \in 1..synced.start => to[f].v = from[f]

=============================================================================
