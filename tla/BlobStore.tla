----------------------------- MODULE BlobStore -----------------------------
(***************************************************************************)
(* internal/adapters/storage/cas/local.go (LocalCAS): uploads and          *)
(* deletions of one digest, without any lock.                              *)
(*                                                                         *)
(* All uploads of a digest carry the same bytes and write them through the *)
(* same name, blobPath + ".tmp".  A file is the set of chunks written      *)
(* since it was last truncated, and a descriptor follows its file through  *)
(* os.Rename: fd[u] is the name the file has now, or "gone".               *)
(***************************************************************************)
EXTENDS Naturals

CONSTANTS Uploads,    \* concurrent calls of PutBlob for the digest
          Chunks      \* io.Copy writes chunks 1..Chunks in order

ASSUME BlobAssumption == Chunks \in Nat \ {0}

VARIABLES
    tmpFile, blobFile,  \* {} or {set of chunks}: the files at tmpPath and blobPath
    up,                 \* up[u]: where u is in PutBlob
    sent,               \* sent[u]: chunks copied so far
    fd,                 \* fd[u]: where the file that u has open is now
    broken,             \* an upload was cut off or reported an error while copying
    stored              \* uploads that reported success since the last deletion

blobVars == <<tmpFile, blobFile, up, sent, fd, broken, stored>>

Whole == 1..Chunks

BlobTypeOK ==
    /\ tmpFile \subseteq SUBSET Whole /\ blobFile \subseteq SUBSET Whole
    /\ up \in [Uploads -> {"stat", "create", "copy", "rename", "cleanup", "done"}]
    /\ sent \in [Uploads -> 0..Chunks]
    /\ fd \in [Uploads -> {"none", "tmp", "blob", "gone"}]
    /\ broken \in BOOLEAN /\ stored \subseteq Uploads

BlobInit ==
    /\ tmpFile = {} /\ blobFile = {}
    /\ up = [u \in Uploads |-> "stat"] /\ sent = [u \in Uploads |-> 0]
    /\ fd = [u \in Uploads |-> "none"]
    /\ broken = FALSE /\ stored = {}

To(u, pc) == up' = [up EXCEPT ![u] = pc]

\* os.Stat: the blob is there already, its content is not looked at.
Deduplicate(u) ==
    /\ up[u] = "stat" /\ blobFile # {}
    /\ To(u, "done") /\ stored' = stored \cup {u}
    /\ UNCHANGED <<tmpFile, blobFile, sent, fd, broken>>

Missing(u) ==
    /\ up[u] = "stat" /\ blobFile = {}
    /\ To(u, "create")
    /\ UNCHANGED <<tmpFile, blobFile, sent, fd, broken, stored>>

\* os.Create truncates the file that another upload may be writing.
Create(u) ==
    /\ up[u] = "create"
    /\ tmpFile' = {{}}
    /\ fd' = [fd EXCEPT ![u] = "tmp"]
    /\ To(u, "copy")
    /\ UNCHANGED <<blobFile, sent, broken, stored>>

Add(f, c) == {chunks \cup {c} : chunks \in f}

Copy(u) ==
    /\ up[u] = "copy" /\ sent[u] < Chunks
    /\ sent' = [sent EXCEPT ![u] = @ + 1]
    /\ tmpFile' = IF fd[u] = "tmp" THEN Add(tmpFile, sent'[u]) ELSE tmpFile
    /\ blobFile' = IF fd[u] = "blob" THEN Add(blobFile, sent'[u]) ELSE blobFile
    /\ UNCHANGED <<up, fd, broken, stored>>

Close(u) ==
    /\ up[u] = "copy" /\ sent[u] = Chunks
    /\ fd' = [fd EXCEPT ![u] = "none"]
    /\ To(u, "rename")
    /\ UNCHANGED <<tmpFile, blobFile, sent, broken, stored>>

\* Mutant: the error of io.Copy is dropped.
CopyFailsSilently(u) ==
    /\ up[u] = "copy" /\ sent[u] < Chunks
    /\ fd' = [fd EXCEPT ![u] = "none"]
    /\ To(u, "rename")
    /\ UNCHANGED <<tmpFile, blobFile, sent, broken, stored>>

\* The reader fails or is short of req.Size: the error is returned after the deferred cleanup.
CopyFails(u) ==
    /\ up[u] = "copy" /\ sent[u] < Chunks
    /\ fd' = [fd EXCEPT ![u] = "none"]
    /\ broken' = TRUE
    /\ To(u, "cleanup")
    /\ UNCHANGED <<tmpFile, blobFile, sent, stored>>

Follow(from, to) == [w \in Uploads |-> IF fd[w] = from THEN to ELSE fd[w]]

BlobRename(u) ==
    /\ up[u] = "rename" /\ tmpFile # {}
    /\ blobFile' = tmpFile /\ tmpFile' = {}
    /\ fd' = [w \in Uploads |-> CASE fd[w] = "tmp" -> "blob" [] fd[w] = "blob" -> "gone" [] OTHER -> fd[w]]
    /\ To(u, "cleanup") /\ stored' = stored \cup {u}
    /\ UNCHANGED <<sent, broken>>

\* Mutant: a rename that finds no file counts as done by another upload.
RenameMissingIgnored(u) ==
    /\ up[u] = "rename" /\ tmpFile = {}
    /\ To(u, "cleanup") /\ stored' = stored \cup {u}
    /\ UNCHANGED <<tmpFile, blobFile, sent, fd, broken>>

\* Another upload has renamed or removed the file: PutBlob returns an error.
RenameMissing(u) ==
    /\ up[u] = "rename" /\ tmpFile = {}
    /\ To(u, "cleanup")
    /\ UNCHANGED <<tmpFile, blobFile, sent, fd, broken, stored>>

\* The deferred os.Remove(tmpPath) also runs after a success, whoever owns the file by then.
Cleanup(u) ==
    /\ up[u] = "cleanup"
    /\ tmpFile' = {} /\ fd' = Follow("tmp", "gone")
    /\ To(u, "done")
    /\ UNCHANGED <<blobFile, sent, broken, stored>>

DeleteBlob ==
    /\ blobFile # {} /\ blobFile' = {}
    /\ fd' = Follow("blob", "gone") /\ stored' = {}
    /\ UNCHANGED <<tmpFile, up, sent, broken>>

\* The process dies; what it had written stays, for the calls that have not yet begun.
BlobCrash ==
    /\ \E u \in Uploads : up[u] \notin {"stat", "done"}
    /\ broken' = TRUE
    /\ up' = [u \in Uploads |-> IF up[u] = "stat" THEN "stat" ELSE "done"]
    /\ fd' = [u \in Uploads |-> "none"]
    /\ UNCHANGED <<tmpFile, blobFile, sent, stored>>

BlobNext ==
    \/ \E u \in Uploads :
          \/ Deduplicate(u) \/ Missing(u) \/ Create(u) \/ Copy(u) \/ Close(u) \/ CopyFails(u)
          \/ BlobRename(u) \/ RenameMissing(u) \/ Cleanup(u)
    \/ DeleteBlob
    \/ BlobCrash

BlobSpec == BlobInit /\ [][BlobNext]_blobVars

----------------------------------------------------------------------------
(* Properties *)

\* Uploads that truncate, complete, move and remove each other's temporary file still leave
\* the whole content under blobPath once none of them is copying, unless one of them was cut
\* off or reported that copying failed.
BlobWholeAtRest ==
    (~broken /\ \A u \in Uploads : fd[u] = "none") => blobFile \subseteq {Whole}

\* A PutBlob that reported success, with AlreadyExists or not, leaves a blob until DeleteBlob.
StoredIsPresent == stored # {} => blobFile # {}

=============================================================================
