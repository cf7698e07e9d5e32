------------------------------ MODULE AuditLog ------------------------------
(***************************************************************************)
(* internal/auth/audit/audit_service.go: the buffer of events, the worker  *)
(* that writes them, the rotation and the removal of log files, and Close. *)
(*                                                                         *)
(* A rotated file is named after the second of its rotation.  A file with  *)
(* more than FileSize events is over MaxFileSize.                          *)
(***************************************************************************)
EXTENDS Naturals, FiniteSets

CONSTANTS AuditEvents,
          AuditBuffer,  \* BufferSize
          FileSize,
          MaxFiles,
          Sweepers,     \* goroutines that may be in cleanupOldFiles at a time
          MaxSeconds    \* bound on the clock

ASSUME AuditAssumption ==
    {AuditBuffer, FileSize, MaxFiles, MaxSeconds} \subseteq Nat \ {0}

VARIABLES
    unlogged,   \* events nobody has logged yet
    buffer,     \* events in the channel
    log,        \* events in the file at FilePath
    handle,     \* s.file: "open", "closed", "missing" (closed, and no file at FilePath) or "nil"
    rotating,   \* goroutines that wait in rotateLogFile
    second,     \* the clock
    expired,    \* files rotated up to this second are past RetentionDays
    archive,    \* archive[t]: events in the file rotated in second t
    sweep,      \* sweep[g]: names still to be removed by a cleanupOldFiles
    worker,     \* processEvents: "running", "draining" or "done"
    closing,    \* Close: "open", "cancelled" or "closed"
    rotated,    \* seconds with a rotation
    clash,      \* seconds with two
    wrote,      \* wrote[e]: when e was archived, 0 while it is in the log
    late        \* events logged after Close was called

eventVars == <<unlogged, buffer, late>>
logVars == <<log, handle, rotating>>
clockVars == <<second, expired>>
archiveVars == <<archive, sweep>>
closeVars == <<worker, closing>>
historyVars == <<rotated, clash, wrote>>
auditVars == <<eventVars, logVars, clockVars, archiveVars, closeVars, historyVars>>

AuditInit ==
    /\ unlogged = AuditEvents /\ buffer = {} /\ log = {} /\ handle = "open"
    /\ rotating = 0 /\ second = 1 /\ expired = 0 /\ archive = [t \in {} |-> {}]
    /\ sweep = [g \in Sweepers |-> {}]
    /\ worker = "running" /\ closing = "open"
    /\ rotated = {} /\ clash = {} /\ wrote = [e \in {} |-> 0] /\ late = {}

\* writeEvent: an event that finds the buffer full is dropped.  After Close it panics.
writeEvent(e) ==
    /\ e \in unlogged /\ closing # "closed" /\ unlogged' = unlogged \ {e}
    /\ buffer' = IF Cardinality(buffer) < AuditBuffer THEN buffer \union {e} ELSE buffer
    /\ late' = IF closing = "open" THEN late ELSE late \union {e}
    /\ UNCHANGED <<logVars, clockVars, archiveVars, closeVars, historyVars>>

\* writeEventToFile: every write to a file over its size starts another rotation.
writeEventToFile(e) ==
    /\ e \in buffer /\ worker # "done" /\ handle = "open"
    /\ buffer' = buffer \ {e} /\ log' = log \union {e}
    /\ rotating' = IF Cardinality(log') > FileSize THEN rotating + 1 ELSE rotating
    /\ wrote' = [x \in DOMAIN wrote \union {e} |-> IF x = e THEN 0 ELSE wrote[x]]
    /\ UNCHANGED <<unlogged, handle, rotated, clash, late, clockVars, archiveVars, closeVars>>

\* The write fails, as it always does once a rotation has left the file closed.
WriteFailed(e) ==
    /\ e \in buffer /\ worker # "done"
    /\ buffer' = buffer \ {e}
    /\ UNCHANGED <<unlogged, late, logVars, clockVars, archiveVars, closeVars, historyVars>>

----------------------------------------------------------------------------
(* Rotation and cleanup *)

Archived(t) == [x \in DOMAIN archive \union {t} |-> IF x = t THEN log ELSE archive[x]]

\* Close of the file, Rename to the name of this second, initLogFile and go cleanupOldFiles.
\* A file that an earlier rotation left closed is closed once more, and opened again.
rotateLogFile(g) ==
    /\ rotating > 0 /\ handle \in {"open", "closed"} /\ sweep[g] = {} /\ rotating' = rotating - 1
    /\ archive' = Archived(second) /\ log' = {}
    /\ rotated' = rotated \union {second}
    /\ clash' = IF second \in rotated THEN clash \union {second} ELSE clash
    /\ wrote' = [e \in DOMAIN wrote |-> IF e \in log THEN second ELSE wrote[e]]
    /\ \/ handle' = "open" /\ sweep' = [sweep EXCEPT ![g] = {0}]
       \/ handle' = "missing" /\ UNCHANGED sweep
    /\ UNCHANGED <<eventVars, clockVars, closeVars>>

\* Rename fails, or the file is nil.
RotationFails ==
    /\ rotating > 0 /\ rotating' = rotating - 1
    /\ handle' = IF handle = "open" THEN "closed" ELSE handle
    /\ UNCHANGED <<log, eventVars, clockVars, archiveVars, closeVars, historyVars>>

\* The files that are not the n newest of the directory.
Oldest(n) == {t \in DOMAIN archive : Cardinality({x \in DOMAIN archive : x > t}) >= n}

PastRetention == {t \in DOMAIN archive : t <= expired}

\* Mutant: the file limit counts the file that is written as well.
ListFilesWithLog(g) ==
    /\ sweep[g] = {0} /\ sweep' = [sweep EXCEPT ![g] = Oldest(MaxFiles - 1) \union PastRetention]
    /\ UNCHANGED <<archive, eventVars, logVars, clockVars, closeVars, historyVars>>

ListFiles(g) ==
    /\ sweep[g] = {0} /\ sweep' = [sweep EXCEPT ![g] = Oldest(MaxFiles) \union PastRetention]
    /\ UNCHANGED <<archive, eventVars, logVars, clockVars, closeVars, historyVars>>

\* The daily pass of logMaintenance.
Maintain(g) ==
    /\ sweep[g] = {} /\ worker = "running" /\ sweep' = [sweep EXCEPT ![g] = {0}]
    /\ UNCHANGED <<archive, eventVars, logVars, clockVars, closeVars, historyVars>>

\* os.Remove, which fails for a file that another pass has removed.
RemoveFile(g, t) ==
    /\ t \in sweep[g] \ {0} /\ sweep' = [sweep EXCEPT ![g] = @ \ {t}]
    /\ archive' = [x \in DOMAIN archive \ {t} |-> archive[x]]
    /\ UNCHANGED <<eventVars, logVars, clockVars, closeVars, historyVars>>

Expire ==
    /\ expired < second - 1 /\ expired' = expired + 1
    /\ UNCHANGED <<second, eventVars, logVars, archiveVars, closeVars, historyVars>>

Second ==
    /\ second < MaxSeconds /\ second' = second + 1
    /\ UNCHANGED <<expired, eventVars, logVars, archiveVars, closeVars, historyVars>>

----------------------------------------------------------------------------
(* Close *)

Cancel ==
    /\ closing = "open" /\ closing' = "cancelled"
    /\ UNCHANGED <<worker, eventVars, logVars, clockVars, archiveVars, historyVars>>

\* Mutant: processEvents returns when the context is done.
StopAtOnce ==
    /\ closing = "cancelled" /\ worker = "running" /\ worker' = "done"
    /\ UNCHANGED <<closing, eventVars, logVars, clockVars, archiveVars, historyVars>>

StopRunning ==
    /\ closing = "cancelled" /\ worker = "running" /\ worker' = "draining"
    /\ UNCHANGED <<closing, eventVars, logVars, clockVars, archiveVars, historyVars>>

Drained ==
    /\ worker = "draining" /\ buffer = {} /\ worker' = "done"
    /\ UNCHANGED <<closing, eventVars, logVars, clockVars, archiveVars, historyVars>>

CloseFile ==
    /\ closing = "cancelled" /\ worker = "done"
    /\ closing' = "closed" /\ handle' = "nil"
    /\ UNCHANGED <<log, rotating, worker, eventVars, clockVars, archiveVars, historyVars>>

AuditNext ==
    \/ \E e \in AuditEvents : writeEvent(e) \/ writeEventToFile(e) \/ WriteFailed(e)
    \/ \E g \in Sweepers :
          \/ rotateLogFile(g) \/ ListFiles(g) \/ Maintain(g)
          \/ \E t \in 1..MaxSeconds : RemoveFile(g, t)
    \/ RotationFails \/ Second \/ Expire \/ Cancel \/ StopRunning \/ Drained \/ CloseFile

AuditSpec == AuditInit /\ [][AuditNext]_auditVars

----------------------------------------------------------------------------
(* Properties *)

\* What has been written is kept in the log or in the file it was rotated to until MaxFiles
\* newer files have been rotated or it expires, although two cleanups may delete from lists taken
\* earlier, except where a second rotation in one second replaced the file.
AuditEventKept ==
    \A e \in DOMAIN wrote :
       \/ e \in log
       \/ wrote[e] \in DOMAIN archive /\ e \in archive[wrote[e]]
       \/ wrote[e] \in clash \union 1..expired
       \/ Cardinality({t \in rotated : t > wrote[e]}) >= MaxFiles

\* After Close no event is left in the buffer but those logged while it closed.
CloseDrains == closing = "closed" => buffer \subseteq late

=============================================================================
