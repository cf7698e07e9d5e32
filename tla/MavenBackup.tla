---------------------------- MODULE MavenBackup ----------------------------
(***************************************************************************)
(* internal/backup/maven_incremental_backup.go: PerformBackup with its     *)
(* copying workers and the metadata file written last, and Restore.        *)
(*                                                                         *)
(* Every edit makes a new version; its number stands for the content, the  *)
(* checksum and the modification time.  Restore takes no lock.             *)
(***************************************************************************)
EXTENDS Naturals

CONSTANTS Artifacts,
          Copiers,      \* the workers of backupFiles
          MaxVersions,  \* bound on edits
          Checking,     \* the values of UseChecksum that are used
          OntoItself    \* sourceDir and backupDir lie equally deep below their common parent

ASSUME BackupAssumption == MaxVersions \in Nat /\ OntoItself \in BOOLEAN /\ Checking \subseteq BOOLEAN

VARIABLES
    tree,     \* tree[d][a]: the version of a in directory d
    edits,    \* versions so far
    metadata, \* the metadata file: its state, the checksums and the time it holds
    job,      \* PerformBackup: step, options, files to look at and to copy, new metadata
    copying,  \* copying[w]: what w has created in the backup and not yet filled
    restore,  \* Restore: step, files to go, checksums it read
    good,     \* edits made when the last successful backup began
    reported, \* the latest backup has returned without an error
    spoiled,  \* artifacts whose copy was up to date when it was last created anew, and not filled
    passed    \* artifacts that a successful backup passed over, and no later one has made up for

backupVars == <<tree, edits, metadata, job, copying, restore, good, reported, spoiled, passed>>
ghosts == <<good, reported, spoiled, passed>>

Absent == 0
Cut == MaxVersions + 1   \* empty, or cut short
NoSums == [a \in Artifacts |-> Absent]
NoJob == [pc |-> "idle", checks |-> TRUE, scan |-> {}, todo |-> {}, failed |-> FALSE, sums |-> NoSums, time |-> 0,
          skipped |-> {}]   \* out of date, and passed over by this walk
NoRestore == [pc |-> "never", todo |-> {}, sums |-> NoSums]
RestoreOver == [NoRestore EXCEPT !.pc = "over"]

BackupInit ==
    /\ tree = [d \in {"source", "backup", "elsewhere"} |-> NoSums]
    /\ edits = 0 /\ good = 0 /\ reported = FALSE /\ spoiled = {} /\ passed = {}
    /\ metadata = [state |-> "none", sums |-> NoSums, time |-> 0]
    /\ job = NoJob /\ copying = [w \in Copiers |-> {}] /\ restore = NoRestore

Edit(a) ==
    /\ edits < MaxVersions /\ edits' = edits + 1
    /\ tree' = [tree EXCEPT !["source"][a] = edits + 1]
    /\ UNCHANGED <<metadata, job, copying, restore, ghosts>>

----------------------------------------------------------------------------
(* PerformBackup *)

\* A metadata file that does not parse ends every later backup here.
BeginBackup(checks) ==
    /\ job = NoJob /\ metadata.state # "cut"
    /\ job' = [NoJob EXCEPT !.pc = "run", !.checks = checks, !.scan = Artifacts, !.time = edits]
    /\ reported' = FALSE
    /\ UNCHANGED <<tree, edits, metadata, copying, restore, good, spoiled, passed>>

Changed(a) ==
    LET v == tree["source"][a] IN
    v # Absent /\ IF job.checks THEN metadata.sums[a] # v ELSE v > metadata.time

Scan(a) ==
    /\ a \in job.scan
    /\ job' = [job EXCEPT !.scan = @ \ {a},
                          !.sums[a] = IF job.checks THEN tree["source"][a] ELSE Absent,
                          !.todo = IF Changed(a) THEN @ \cup {a} ELSE @]
    /\ UNCHANGED <<tree, edits, metadata, copying, restore, ghosts>>

\* A file whose checksum cannot be computed is copied, and has none in the metadata.
ScanFails(a) ==
    /\ a \in job.scan /\ job.checks /\ tree["source"][a] # Absent
    /\ job' = [job EXCEPT !.scan = @ \ {a}, !.todo = @ \cup {a}]
    /\ UNCHANGED <<tree, edits, metadata, copying, restore, ghosts>>

\* The walk reports an error for the file or for its directory: the callback leaves it out, and
\* nothing but the missing checksum tells.
ScanSkips(a) ==
    /\ a \in job.scan /\ tree["source"][a] # Absent
    /\ job' = [job EXCEPT !.scan = @ \ {a},
                          !.skipped = IF tree["backup"][a] = tree["source"][a] THEN @ ELSE @ \cup {a}]
    /\ UNCHANGED <<tree, edits, metadata, copying, restore, ghosts>>

\* backupSingleFile: backupDir joined with the path relative to sourceDir.
Destination(d) == IF d = "source" \/ OntoItself THEN "backup" ELSE "elsewhere"

\* os.Create and io.Copy of one file of directory d.
Created(d, a) == [tree EXCEPT ![Destination(d)][a] = Cut]
Filled(d, a, t) == [t EXCEPT ![Destination(d)][a] = t[d][a]]

OpenFails(a) ==
    /\ job.scan = {} /\ a \in job.todo
    /\ job' = [job EXCEPT !.todo = @ \ {a}, !.failed = TRUE]
    /\ UNCHANGED <<tree, edits, metadata, copying, restore, ghosts>>

StartCopy(w, a) ==
    /\ job.scan = {} /\ a \in job.todo /\ copying[w] = {}
    /\ job' = [job EXCEPT !.todo = @ \ {a}]
    /\ copying' = [copying EXCEPT ![w] = {a}]
    /\ tree' = Created("source", a)
    /\ spoiled' = IF tree["backup"][a] = tree["source"][a] THEN spoiled \cup {a} ELSE spoiled
    /\ UNCHANGED <<edits, metadata, restore, good, reported, passed>>

FinishCopy(w, a) ==
    /\ a \in copying[w]
    /\ copying' = [copying EXCEPT ![w] = {}]
    /\ tree' = Filled("source", a, tree)
    /\ spoiled' = spoiled \ {a} /\ passed' = passed \ {a}
    /\ UNCHANGED <<edits, metadata, job, restore, good, reported>>

\* Mutant: the error of a copy does not reach the caller.
AbortCopySilently(w, a) ==
    /\ a \in copying[w]
    /\ copying' = [copying EXCEPT ![w] = {}]
    /\ tree' = [tree EXCEPT !["backup"][a] = Absent]
    /\ UNCHANGED <<edits, metadata, job, restore, ghosts>>

AbortCopy(w, a) ==
    /\ a \in copying[w]
    /\ copying' = [copying EXCEPT ![w] = {}]
    /\ tree' = [tree EXCEPT !["backup"][a] = Absent]
    /\ job' = [job EXCEPT !.failed = TRUE]
    /\ UNCHANGED <<edits, metadata, restore, ghosts>>

Copied == job.pc = "run" /\ job.scan = {} /\ job.todo = {} /\ \A w \in Copiers : copying[w] = {}

BackupFails ==
    /\ Copied /\ job.failed
    /\ job' = NoJob
    /\ UNCHANGED <<tree, edits, metadata, copying, restore, ghosts>>

\* saveMetadata truncates the file and then writes it.
SaveMetadata ==
    /\ Copied /\ ~job.failed
    /\ metadata' = [metadata EXCEPT !.state = "cut", !.sums = NoSums]
    /\ job' = [job EXCEPT !.pc = "save"]
    /\ UNCHANGED <<tree, edits, copying, restore, ghosts>>

MetadataSaved ==
    /\ job.pc = "save"
    /\ metadata' = [state |-> "whole", sums |-> job.sums, time |-> job.time]
    /\ job' = NoJob /\ good' = job.time /\ reported' = TRUE
    /\ passed' = IF job.checks THEN job.skipped ELSE passed \cup job.skipped
    /\ UNCHANGED <<tree, edits, copying, restore, spoiled>>

\* The process dies, or saveMetadata fails.
BackupStops ==
    /\ job # NoJob \/ restore.pc = "walk"
    /\ job' = NoJob /\ copying' = [w \in Copiers |-> {}]
    /\ restore' = IF restore.pc = "walk" THEN RestoreOver ELSE restore
    /\ UNCHANGED <<tree, edits, metadata, ghosts>>

----------------------------------------------------------------------------
(* Restore with Verify.  It copies with backupSingleFile, so what it writes *)
(* is not in the target directory: the copy it is to restore is truncated.  *)

BeginRestore ==
    /\ restore.pc # "walk" /\ metadata.state # "cut"
    /\ restore' = [pc |-> "walk", todo |-> {a \in Artifacts : tree["backup"][a] # Absent}, sums |-> metadata.sums]
    /\ UNCHANGED <<tree, edits, metadata, job, copying, ghosts>>

Verified(a) == restore.sums[a] \in {Absent, tree["backup"][a]}

RestoreFile(a) ==
    /\ restore.pc = "walk" /\ a \in restore.todo /\ Verified(a)
    /\ tree' = Filled("backup", a, Created("backup", a))
    /\ restore' = [restore EXCEPT !.todo = @ \ {a}]
    /\ UNCHANGED <<edits, metadata, job, copying, ghosts>>

Mismatch(a) ==
    /\ restore.pc = "walk" /\ a \in restore.todo /\ ~Verified(a)
    /\ restore' = RestoreOver
    /\ UNCHANGED <<tree, edits, metadata, job, copying, ghosts>>

\* The target file exists and Overwrite is not set, or the walk reports an error for the copy.
RestoreSkips(a) ==
    /\ restore.pc = "walk" /\ a \in restore.todo
    /\ restore' = [restore EXCEPT !.todo = @ \ {a}]
    /\ UNCHANGED <<tree, edits, metadata, job, copying, ghosts>>

\* backupSingleFile fails, before or after it has created its file.
RestoreFails(a) ==
    /\ restore.pc = "walk" /\ a \in restore.todo /\ Verified(a)
    /\ tree' \in {tree, [tree EXCEPT ![Destination("backup")][a] = Absent]}
    /\ restore' = RestoreOver
    /\ UNCHANGED <<edits, metadata, job, copying, ghosts>>

Restored ==
    /\ restore.pc = "walk" /\ restore.todo = {}
    /\ restore' = RestoreOver
    /\ UNCHANGED <<tree, edits, metadata, job, copying, ghosts>>

BackupNext ==
    \/ \E a \in Artifacts :
          \/ Edit(a) \/ Scan(a) \/ ScanFails(a) \/ ScanSkips(a) \/ OpenFails(a)
          \/ RestoreFile(a) \/ Mismatch(a) \/ RestoreSkips(a) \/ RestoreFails(a)
          \/ \E w \in Copiers : StartCopy(w, a) \/ FinishCopy(w, a) \/ AbortCopy(w, a)
    \/ \E checks \in Checking : BeginBackup(checks)
    \/ BackupFails \/ SaveMetadata \/ MetadataSaved \/ BackupStops
    \/ BeginRestore \/ Restored

BackupSpec == BackupInit /\ [][BackupNext]_backupVars

----------------------------------------------------------------------------
(* Properties *)

UpToDate(a) == tree["source"][a] \in 1..good => tree["backup"][a] = tree["source"][a]

\* An artifact that was not edited since a backup began that succeeded is in the backup as it is
\* in the source, whatever failed or was cut short before and after.  The exceptions are a copy
\* that was up to date, was made again all the same and failed, what Restore does, and a changed
\* file that the walk passed over: the next successful backup with checksums makes up for that
\* one, unless its walk passes over the file too, and a backup by modification times does not.
BackupCurrent == restore.pc = "never" => \A a \in Artifacts \ (spoiled \cup passed) : UpToDate(a)

\* "체크섬 기반 변경 감지 (느리지만 정확)", slow but accurate (maven_incremental_backup.go:123): a
\* backup that returns no error leaves nothing out, except what its walk could not read, which
\* the code ignores on purpose (line 162).
BackupComplete == reported /\ restore.pc = "never" => \A a \in Artifacts \ passed : UpToDate(a)

=============================================================================
