----------------------------- MODULE MCServices -----------------------------
(***************************************************************************)
(* The background services share no state, so one run explores them one at *)
(* a time: part is the service of a behaviour, and the others stay as they *)
(* began, where none of their fair actions is enabled.                     *)
(***************************************************************************)
EXTENDS WorkerPool, AutoRecovery, ConfigReload, Container, WebhookBatch,
        AlpineSelector, TLC

CONSTANTS e1, e2, e3, g1, g2

VARIABLE part

Parts == {"pool", "recovery", "reload", "container", "batch", "alpine"}

MCServicesInit ==
    /\ part \in Parts
    /\ PoolInit /\ RecoveryInit /\ ReloadInit /\ ContainerInit
    /\ BatchInit /\ AlpineInit

MCServicesNext ==
    /\ UNCHANGED part
    /\ \/ /\ part = "pool" /\ PoolNext
          /\ UNCHANGED <<recoveryVars, reloadVars, containerVars, batchVars, alpineVars>>
       \/ /\ part = "recovery" /\ RecoveryNext
          /\ UNCHANGED <<poolVars, reloadVars, containerVars, batchVars, alpineVars>>
       \/ /\ part = "reload" /\ ReloadNext
          /\ UNCHANGED <<poolVars, recoveryVars, containerVars, batchVars, alpineVars>>
       \/ /\ part = "container" /\ ContainerNext
          /\ UNCHANGED <<poolVars, recoveryVars, reloadVars, batchVars, alpineVars>>
       \/ /\ part = "batch" /\ BatchNext
          /\ UNCHANGED <<poolVars, recoveryVars, reloadVars, containerVars, alpineVars>>
       \/ /\ part = "alpine" /\ AlpineNext
          /\ UNCHANGED <<poolVars, recoveryVars, reloadVars, containerVars, batchVars>>

MCServicesSpec ==
    /\ MCServicesInit
    /\ [][MCServicesNext]_<<part, poolVars, recoveryVars, reloadVars, containerVars, batchVars, alpineVars>>
    /\ PoolFairness /\ RecoveryFairness /\ ReloadFairness /\ ContainerFairness
    /\ BatchFairness /\ AlpineFairness

MCGroupOf == (e1 :> g1) @@ (e2 :> g1) @@ (e3 :> g2)

\* Getters that call no getter while they hold the lock.
MCAskedLone == {"GetRootConfig", "GetCacheRepository", "GetAptProxyConfig"}

=============================================================================
