------------------------------ MODULE MCStores ------------------------------
(***************************************************************************)
(* The stores, the proxy flow, the alert manager and the audit log share   *)
(* no state, so one run explores them one at a time: part is the component *)
(* of a behaviour, and the others stay as they began.                      *)
(***************************************************************************)
EXTENDS ApiKeyStore, BlobStore, FileRepository, S3Cache, ProxyFlow, AlertManager,
        MavenBackup, MavenSync, AuditLog

VARIABLE part

Parts == {"keys", "blobs", "files", "s3", "flow", "alerts", "backup", "sync", "audit"}

MCStoresInit ==
    /\ part \in Parts
    /\ KeysInit /\ BlobInit /\ RepoInit /\ S3Init /\ FlowInit
    /\ AlertInit /\ BackupInit /\ SyncInit /\ AuditInit

MCStoresNext ==
    /\ UNCHANGED part
    /\ \/ /\ part = "keys" /\ KeysNext
          /\ UNCHANGED <<blobVars, repoVars, s3Vars, flowVars,
                         alertVars, backupVars, syncVars, auditVars>>
       \/ /\ part = "blobs" /\ BlobNext
          /\ UNCHANGED <<keyVars, repoVars, s3Vars, flowVars,
                         alertVars, backupVars, syncVars, auditVars>>
       \/ /\ part = "files" /\ RepoNext
          /\ UNCHANGED <<keyVars, blobVars, s3Vars, flowVars,
                         alertVars, backupVars, syncVars, auditVars>>
       \/ /\ part = "s3" /\ S3Next
          /\ UNCHANGED <<keyVars, blobVars, repoVars, flowVars,
                         alertVars, backupVars, syncVars, auditVars>>
       \/ /\ part = "flow" /\ FlowNext
          /\ UNCHANGED <<keyVars, blobVars, repoVars, s3Vars,
                         alertVars, backupVars, syncVars, auditVars>>
       \/ /\ part = "alerts" /\ AlertNext
          /\ UNCHANGED <<keyVars, blobVars, repoVars, s3Vars,
                         flowVars, backupVars, syncVars, auditVars>>
       \/ /\ part = "backup" /\ BackupNext
          /\ UNCHANGED <<keyVars, blobVars, repoVars, s3Vars,
                         flowVars, alertVars, syncVars, auditVars>>
       \/ /\ part = "sync" /\ SyncNext
          /\ UNCHANGED <<keyVars, blobVars, repoVars, s3Vars,
                         flowVars, alertVars, backupVars, auditVars>>
       \/ /\ part = "audit" /\ AuditNext
          /\ UNCHANGED <<keyVars, blobVars, repoVars, s3Vars,
                         flowVars, alertVars, backupVars, syncVars>>

MCStoresSpec ==
    /\ MCStoresInit
    /\ [][MCStoresNext]_<<part, keyVars, blobVars, repoVars, s3Vars, flowVars,
                          alertVars, backupVars, syncVars, auditVars>>

\* A Sync with all workers or with none; ConfirmDelete matters to a mirror only.
MCSyncOptions ==
    {o \in AllSyncOptions : o.workers \in {{}, SyncWorkers} /\ (o.confirm => o.mode = "mirror" /\ ~o.dry)}

=============================================================================
