--------------------------- MODULE FileRepository ---------------------------
(***************************************************************************)
(* internal/repositories/cache/file_repository.go: the cache repository of *)
(* the application container.  One file per key, the metadata of all keys  *)
(* in memory, and one metadata.json that every change rewrites in place.   *)
(*                                                                         *)
(* r.mu makes each operation atomic for its callers; what can come between *)
(* its steps is a crash, and each step can fail.  A content is the number  *)
(* of the Put that wrote it.  Statistics and AccessedAt, which nothing     *)
(* reads, are left out; so is the data race of Get on them.                *)
(***************************************************************************)
EXTENDS Naturals

CONSTANTS RepoKeys,    \* cache keys
          Kept,        \* those whose path ends in "metadata.json"
          MaxWrites,   \* bound on Puts
          MaxMishaps   \* bound on failed steps and crashes

VARIABLES
    file,      \* file[k]: the content at getFilePath(k), 0 when there is none
    meta,      \* r.metadata: meta[k] is the Put the entry describes, 0 without one
    index,     \* metadata.json: [ok |-> it parses, meta |-> what it lists]
    step,      \* the operation under r.mu and where it is
    writes,    \* number of Puts so far
    overdue,   \* the Puts whose TTL has run out
    removed,   \* keys with a reported Delete or Clear and no Put since
    mishaps

repoVars == <<file, meta, index, step, writes, overdue, removed, mishaps>>

ASSUME RepoAssumption == Kept \subseteq RepoKeys /\ MaxWrites \in Nat /\ MaxMishaps \in Nat

Nothing == [k \in RepoKeys |-> 0]
Unlocked == [op |-> "none", key |-> {}]
Doing(op, k) == [op |-> op, key |-> k]
Without(f, S) == [k \in RepoKeys |-> IF k \in S THEN 0 ELSE f[k]]
Mishap == mishaps < MaxMishaps /\ mishaps' = mishaps + 1

\* What Get returns for k, 0 for a miss.
Served(k) == IF meta[k] = 0 \/ meta[k] \in overdue THEN 0 ELSE file[k]

RepoTypeOK ==
    /\ file \in [RepoKeys -> 0..MaxWrites] /\ meta \in [RepoKeys -> 0..MaxWrites]
    /\ index \in [ok : BOOLEAN, meta : [RepoKeys -> 0..MaxWrites]]
    /\ step \in [op : {"none", "put", "save", "saving"}, key : SUBSET RepoKeys]
    /\ writes \in 0..MaxWrites /\ overdue \subseteq 1..MaxWrites
    /\ removed \subseteq RepoKeys /\ mishaps \in 0..MaxMishaps

RepoInit ==
    /\ file = Nothing /\ meta = Nothing /\ index = [ok |-> TRUE, meta |-> Nothing]
    /\ step = Unlocked /\ writes = 0 /\ overdue = {} /\ removed = {} /\ mishaps = 0

----------------------------------------------------------------------------
(* Put: copy to a fresh temporary file, move it, describe it, save *)

\* Mutant: the error of os.Rename is not looked at.
PutUnchecked(k) ==
    /\ step = Unlocked /\ writes < MaxWrites
    /\ writes' = writes + 1
    /\ \/ file' = [file EXCEPT ![k] = writes'] /\ UNCHANGED mishaps
       \/ Mishap /\ UNCHANGED file
    /\ removed' = removed \ {k}
    /\ step' = Doing("put", {k})
    /\ UNCHANGED <<meta, index, overdue>>

Put(k) ==
    /\ step = Unlocked /\ writes < MaxWrites
    /\ writes' = writes + 1
    /\ file' = [file EXCEPT ![k] = writes']
    /\ removed' = removed \ {k}
    /\ step' = Doing("put", {k})
    /\ UNCHANGED <<meta, index, overdue, mishaps>>

\* Put or Delete cannot create, copy, move or remove the file: an error, nothing has changed.
Refused ==
    /\ step = Unlocked /\ Mishap
    /\ UNCHANGED <<file, meta, index, step, writes, overdue, removed>>

Describe(k) ==
    /\ step = Doing("put", {k})
    /\ meta' = [meta EXCEPT ![k] = writes]
    /\ step' = Doing("save", {})
    /\ UNCHANGED <<file, index, writes, overdue, removed, mishaps>>

----------------------------------------------------------------------------
(* Delete, Clear and the hourly cleanup *)

\* Mutant: an error of os.Remove is not looked at.
DeleteUnchecked(k) ==
    /\ step = Unlocked
    /\ \/ file' = [file EXCEPT ![k] = 0] /\ UNCHANGED mishaps
       \/ Mishap /\ UNCHANGED file
    /\ meta' = [meta EXCEPT ![k] = 0]
    /\ removed' = removed \cup {k}
    /\ step' = Doing("save", {})
    /\ UNCHANGED <<index, writes, overdue>>

Delete(k) ==
    /\ step = Unlocked
    /\ file' = [file EXCEPT ![k] = 0] /\ meta' = [meta EXCEPT ![k] = 0]
    /\ removed' = removed \cup {k}
    /\ step' = Doing("save", {})
    /\ UNCHANGED <<index, writes, overdue, mishaps>>

\* The walk skips the files whose name ends in metadata.json; the metadata of all keys goes.
Clear ==
    /\ step = Unlocked
    /\ file' = Without(file, RepoKeys \ Kept) /\ meta' = Nothing
    /\ removed' = RepoKeys
    /\ step' = Doing("save", {})
    /\ UNCHANGED <<index, writes, overdue, mishaps>>

\* A file that cannot be removed ends the walk: some files are gone, no metadata is.
ClearFails ==
    /\ step = Unlocked /\ Mishap
    /\ \E S \in SUBSET (RepoKeys \ Kept) : file' = Without(file, S)
    /\ UNCHANGED <<meta, index, step, writes, overdue, removed>>

\* Errors of os.Remove are ignored here.
cleanup ==
    LET E == {k \in RepoKeys : meta[k] \in overdue} IN
    /\ step = Unlocked /\ E # {}
    /\ \/ file' = Without(file, E) /\ UNCHANGED mishaps
       \/ Mishap /\ \E S \in SUBSET E : file' = Without(file, S)
    /\ meta' = Without(meta, E)
    /\ step' = Doing("save", {})
    /\ UNCHANGED <<index, writes, overdue, removed>>

----------------------------------------------------------------------------
(* saveMetadata, TTLs, crashes *)

\* os.WriteFile truncates metadata.json first.
Truncate ==
    /\ step.op = "save"
    /\ index' = [ok |-> FALSE, meta |-> Nothing]
    /\ step' = Doing("saving", {})
    /\ UNCHANGED <<file, meta, writes, overdue, removed, mishaps>>

Saved ==
    /\ step.op = "saving"
    /\ index' = [ok |-> TRUE, meta |-> meta]
    /\ step' = Unlocked
    /\ UNCHANGED <<file, meta, writes, overdue, removed, mishaps>>

\* The file cannot be opened, or not be written: a warning, and the operation succeeds.
SaveFails ==
    /\ step.op \in {"save", "saving"} /\ Mishap
    /\ step' = Unlocked
    /\ UNCHANGED <<file, meta, index, writes, overdue, removed>>

Lapse(v) ==
    /\ v \in 1..writes /\ v \notin overdue /\ overdue' = overdue \cup {v}
    /\ UNCHANGED <<file, meta, index, step, writes, removed, mishaps>>

\* loadMetadata; a file that does not parse is a warning and an empty repository.
Reopen ==
    /\ Mishap
    /\ meta' = index.meta
    /\ step' = Unlocked
    /\ UNCHANGED <<file, index, writes, overdue, removed>>

RepoNext ==
    \/ \E k \in RepoKeys : Put(k) \/ Describe(k) \/ Delete(k)
    \/ Refused \/ Clear \/ ClearFails \/ cleanup
    \/ Truncate \/ Saved \/ SaveFails
    \/ \E v \in 1..MaxWrites : Lapse(v)
    \/ Reopen

RepoSpec == RepoInit /\ [][RepoNext]_repoVars

----------------------------------------------------------------------------
(* Properties *)

\* Whatever failed and wherever a crash fell, a file is never older than its metadata says:
\* a hit is the content of the last Put of the key, or of one that was cut off after it.
FileNotOlder == \A k \in RepoKeys : file[k] # 0 => meta[k] <= file[k]

\* After a Delete or a Clear that reported success a key is not served before its next Put, a
\* restart from an old metadata.json included - except a key whose file Clear leaves in place.
RemovalSticks == \A k \in removed \ Kept : Served(k) = 0

=============================================================================
