---------------------------- MODULE ApiKeyStore ----------------------------
(***************************************************************************)
(* internal/auth/api_keys.go: the keys of one user in APIKeyManager.keys   *)
(* and in the JSON file that saveKeys rewrites.                            *)
(*                                                                         *)
(* GenerateAPIKey, RevokeAPIKey and cleanupExpiredKeys save while they     *)
(* hold m.mutex.  RecordAPIKeyUsage saves in a goroutine that holds no     *)
(* lock: it reads the map and the keys while others write them, and it     *)
(* uses the same temporary file.  A file descriptor follows its file       *)
(* through os.Rename, so a descriptor is the place its file is in now.     *)
(***************************************************************************)
EXTENDS Naturals, FiniteSets

CONSTANTS KeyIds,          \* random IDs, none is drawn twice
          Holder,          \* the goroutine that holds m.mutex while it saves
          Loggers,         \* the goroutines RecordAPIKeyUsage starts
          MaxKeysPerUser,  \* APIKeyConfig.MaxKeysPerUser
          MaxCrashes       \* bound on restarts, for model checking

ASSUME ApiKeysAssumption == Holder \notin Loggers /\ MaxKeysPerUser \in Nat

VARIABLES
    keys,     \* the IDs in m.keys, and those whose APIKey has IsActive = false
    issued,   \* IDs drawn so far
    disk,     \* content of storagePath
    tmp,      \* content of storagePath + ".tmp"
    save,     \* save[x]: where x is in saveKeys, what it has read, its descriptor
    op,       \* what Holder is doing, and to which key
    acked,    \* keys whose revocation was reported as done
    racy,     \* keys revoked while a usage goroutine was saving
    crashes

keyVars == <<keys, issued, disk, tmp, save, op, acked, racy, crashes>>

Savers == Loggers \cup {Holder}
NoKeys == [has |-> {}, off |-> {}]
Active(ks) == ks.has \ ks.off
File(state, ks) == [state |-> state, keys |-> ks]
NoFile == File("absent", NoKeys)
Resting == [pc |-> "idle", todo |-> {}, snap |-> NoKeys, fd |-> "none"]
NoOp == [name |-> "none", key |-> {}]

KeysInit ==
    /\ keys = NoKeys /\ issued = {}
    /\ disk = NoFile /\ tmp = NoFile
    /\ save = [x \in Savers |-> Resting]
    /\ op = NoOp /\ acked = {} /\ racy = {} /\ crashes = 0

Saving(x) == save[x].pc # "idle"
Busy == \E g \in Loggers : Saving(g)

\* json.MarshalIndent collects the keys of the map first ...
Marshal(x, ks) == [Resting EXCEPT !.pc = "encode", !.todo = ks.has]

----------------------------------------------------------------------------
(* The operations, up to their call of saveKeys *)

\* Mutant: the quota is compared with > instead of >=.
GenerateOverQuota(k) ==
    /\ op = NoOp /\ k \notin issued
    /\ ~(Cardinality(Active(keys)) > MaxKeysPerUser)
    /\ keys' = [keys EXCEPT !.has = @ \cup {k}]
    /\ issued' = issued \cup {k}
    /\ op' = [name |-> "generate", key |-> {k}]
    /\ save' = [save EXCEPT ![Holder] = Marshal(Holder, keys')]
    /\ UNCHANGED <<disk, tmp, acked, racy, crashes>>

GenerateAPIKey(k) ==
    /\ op = NoOp /\ k \notin issued
    /\ ~(Cardinality(Active(keys)) >= MaxKeysPerUser)
    /\ keys' = [keys EXCEPT !.has = @ \cup {k}]
    /\ issued' = issued \cup {k}
    /\ op' = [name |-> "generate", key |-> {k}]
    /\ save' = [save EXCEPT ![Holder] = Marshal(Holder, keys')]
    /\ UNCHANGED <<disk, tmp, acked, racy, crashes>>

\* Mutant: the key is deactivated after the save, not before it.
RevokeAfterSave(k) ==
    /\ op = NoOp /\ k \in keys.has
    /\ keys' = [keys EXCEPT !.off = @ \cup {k}]
    /\ op' = [name |-> "revoke", key |-> {k}]
    /\ save' = [save EXCEPT ![Holder] = [Resting EXCEPT !.pc = "encode", !.snap = keys]]
    /\ racy' = IF Busy THEN racy \cup {k} ELSE racy
    /\ UNCHANGED <<issued, disk, tmp, acked, crashes>>

RevokeAPIKey(k) ==
    /\ op = NoOp /\ k \in keys.has
    /\ keys' = [keys EXCEPT !.off = @ \cup {k}]
    /\ op' = [name |-> "revoke", key |-> {k}]
    /\ save' = [save EXCEPT ![Holder] = Marshal(Holder, keys')]
    /\ racy' = IF Busy THEN racy \cup {k} ELSE racy
    /\ UNCHANGED <<issued, disk, tmp, acked, crashes>>

\* The keys found expired leave the map; and the rest is saved.
cleanupExpiredKeys(expired) ==
    /\ op = NoOp /\ expired # {} /\ expired \subseteq keys.has
    /\ keys' = [keys EXCEPT !.has = @ \ expired]
    /\ op' = [name |-> "other", key |-> {}]
    /\ save' = [save EXCEPT ![Holder] = Marshal(Holder, keys')]
    /\ UNCHANGED <<issued, disk, tmp, acked, racy, crashes>>

\* The fields it sets are not kept here: what is left is the save.
UpdateAPIKey ==
    /\ op = NoOp /\ keys.has # {}
    /\ op' = [name |-> "other", key |-> {}]
    /\ save' = [save EXCEPT ![Holder] = Marshal(Holder, keys)]
    /\ UNCHANGED <<keys, issued, disk, tmp, acked, racy, crashes>>

\* RecordAPIKeyUsage releases the lock; its goroutine starts to save some time later.
RecordAPIKeyUsage(g) ==
    /\ ~Saving(g) /\ keys.has # {}
    /\ save' = [save EXCEPT ![g] = Marshal(g, keys)]
    /\ UNCHANGED <<keys, issued, disk, tmp, op, acked, racy, crashes>>

----------------------------------------------------------------------------
(* saveKeys *)

\* ... and then reads them one after the other; a key deleted meanwhile keeps its fields.
Encode(x, k) ==
    /\ save[x].pc = "encode" /\ k \in save[x].todo
    /\ save' = [save EXCEPT ![x].todo = @ \ {k},
                            ![x].snap = [has |-> @.has \cup {k},
                                         off |-> @.off \cup ({k} \cap keys.off)]]
    /\ UNCHANGED <<keys, issued, disk, tmp, op, acked, racy, crashes>>

\* os.WriteFile: open with O_TRUNC, then write at offset 0.
KeysOpen(x) ==
    /\ save[x].pc = "encode" /\ save[x].todo = {}
    /\ tmp' = File("empty", NoKeys)
    /\ save' = [save EXCEPT ![x].pc = "write", ![x].fd = "tmp"]
    /\ UNCHANGED <<keys, issued, disk, op, acked, racy, crashes>>

\* Data over the data of another saver is that of the last one if it is not shorter.
Over(old, ks) ==
    {File("whole", ks)} \cup (IF old.state = "empty" THEN {} ELSE {File("garbled", NoKeys)})

KeysWrite(x) ==
    /\ save[x].pc = "write"
    /\ save' = [save EXCEPT ![x].pc = "rename", ![x].fd = "none"]
    /\ \/ save[x].fd = "tmp" /\ tmp' \in Over(tmp, save[x].snap) /\ UNCHANGED disk
       \/ save[x].fd = "disk" /\ disk' \in Over(disk, save[x].snap) /\ UNCHANGED tmp
       \/ save[x].fd = "gone" /\ UNCHANGED <<tmp, disk>>
    /\ UNCHANGED <<keys, issued, op, acked, racy, crashes>>

\* Where the descriptors of the other savers point once storagePath.tmp has moved or is gone.
Moved(x, to) ==
    [y \in Savers |->
        IF y = x THEN Resting
        ELSE [save[y] EXCEPT !.fd = IF @ = "tmp" THEN to ELSE IF @ = "disk" /\ to = "disk" THEN "gone" ELSE @]]

\* saveKeys returns to the operation that Holder runs; a usage goroutine just ends.
Ended(x, ok) ==
    IF x # Holder THEN UNCHANGED <<keys, op, acked>>
    ELSE /\ op' = NoOp
         /\ keys' = IF op.name = "generate" /\ ~ok THEN [keys EXCEPT !.has = @ \ op.key] ELSE keys
         /\ acked' = IF op.name = "revoke" /\ ok THEN acked \cup op.key ELSE acked

KeysRename(x) ==
    /\ save[x].pc = "rename" /\ tmp # NoFile
    /\ disk' = tmp /\ tmp' = NoFile
    /\ save' = Moved(x, "disk")
    /\ Ended(x, TRUE)
    /\ UNCHANGED <<issued, racy, crashes>>

\* The rename finds no file, or fails, and the temporary file is removed.
RenameFails(x) ==
    /\ save[x].pc = "rename"
    /\ tmp' = NoFile
    /\ save' = Moved(x, "gone")
    /\ Ended(x, FALSE)
    /\ UNCHANGED <<disk, issued, racy, crashes>>

\* The file cannot be opened, or the write is short.
WriteFails(x) ==
    /\ save[x].pc = "write"
    /\ \/ save[x].fd = "tmp" /\ tmp' \in {tmp, File("garbled", NoKeys)} /\ UNCHANGED disk
       \/ save[x].fd = "disk" /\ disk' \in {disk, File("garbled", NoKeys)} /\ UNCHANGED tmp
       \/ save[x].fd = "gone" /\ UNCHANGED <<tmp, disk>>
    /\ save' = [save EXCEPT ![x] = Resting]
    /\ Ended(x, FALSE)
    /\ UNCHANGED <<issued, racy, crashes>>

\* The process dies and loadKeys reads the file; one that does not parse leaves no keys.
Restart ==
    /\ crashes < MaxCrashes /\ crashes' = crashes + 1
    /\ keys' = disk.keys
    /\ save' = [x \in Savers |-> Resting] /\ op' = NoOp
    /\ UNCHANGED <<issued, disk, tmp, acked, racy>>

KeysNext ==
    \/ \E k \in KeyIds : GenerateAPIKey(k) \/ RevokeAPIKey(k)
    \/ UpdateAPIKey \/ \E expired \in SUBSET KeyIds : cleanupExpiredKeys(expired)
    \/ \E g \in Loggers : RecordAPIKeyUsage(g)
    \/ \E x \in Savers :
          \/ \E k \in KeyIds : Encode(x, k)
          \/ KeysOpen(x) \/ KeysWrite(x) \/ WriteFails(x) \/ KeysRename(x) \/ RenameFails(x)
    \/ Restart

KeysSpec == KeysInit /\ [][KeysNext]_keyVars

----------------------------------------------------------------------------
(* Properties *)

\* GenerateAPIKey's quota holds at every moment, restarts from whatever the racing savers
\* left in the file included.
KeyQuotaHeld == Cardinality(Active(keys)) <= MaxKeysPerUser

\* A key whose revocation was reported never works again, not even after a restart, unless a
\* usage goroutine was in the middle of saveKeys when it was revoked.
RevocationSticks == Active(keys) \cap acked \subseteq racy

=============================================================================
