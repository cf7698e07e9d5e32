-------------------------- MODULE FileCacheProofs --------------------------
(***************************************************************************)
(* Proofs about FileCache, for every value of its constants.               *)
(* OperationsReturn (fairness) stays with TLC.                             *)
(***************************************************************************)
EXTENDS FileCache, FiniteSetTheorems, WellFoundedInduction, TLAPS

FsSteps == {"rmmeta", "rename", "save"}

ManagerOps == {"get", "put", "delete", "clear"}

\* Each lock is held by exactly the goroutine that is inside its section.
LockInv ==
    /\ \A p \in Procs : pc[p] \in FsSteps <=> fsMu = p
    /\ \A g \in Touchers : touch[g].st = "loaded" <=> fsMu = g
    /\ \A p \in Procs : op[p] \in ManagerOps <=> mgrMu = p

\* Every goroutine is at a step of its operation and knows the keys it needs.
StepInv ==
    /\ \A p \in Procs :
          /\ pc[p] = "idle" <=> op[p] = "idle"
          /\ pc[p] = "lookup" => op[p] = "get"
          /\ pc[p] = "clear" => op[p] = "clear"
          /\ pc[p] \in {"write", "rename", "save"} => op[p] = "put"
          /\ pc[p] \in {"size", "scan", "collect", "victims"} => op[p] \in {"put", "evict"}
          /\ pc[p] \in {"sweepscan", "check"} => op[p] = "sweep"
    /\ \A p \in Procs : op[p] \in {"get", "put", "delete"} => loc[p].key \in Keys
    /\ \A p \in Procs : pc[p] \in {"rmdata", "rmmeta"} => loc[p].cur \in Keys
    /\ \A g \in Touchers : touch[g].st # "idle" => touch[g].key \in Keys

\* Versions come from the counter, and that of a Put in progress is on no
\* metadata yet.
VersionInv ==
    /\ clock <= MaxPuts
    /\ \A k \in Keys : meta[k].created <= clock /\ data[k].ver <= clock
    /\ \A v \in aged : v <= clock
    /\ \A p \in Procs : op[p] = "put" =>
          /\ loc[p].ver = clock /\ clock > 0 /\ clock \notin aged
          /\ \A k \in Keys : meta[k].created # clock

\* What a goroutine inside a section of fs.mu may count on.
SectionInv ==
    /\ \A p \in Procs : pc[p] = "save" =>
          data[loc[p].key] = [ver |-> loc[p].ver, size |-> loc[p].size]
    /\ \A g \in Touchers : touch[g].st = "loaded" =>
          touch[g].meta = meta[touch[g].key]

IInv ==
    /\ TypeOK
    /\ LockInv
    /\ StepInv
    /\ VersionInv
    /\ SectionInv
    /\ PurgeOnlyExpired
    /\ MetadataNotNewer

\* Without faults only the entry someone is writing is out of step.
PairInv ==
    faults = 0 =>
        /\ \A p \in Procs : pc[p] = "rmmeta" => data[loc[p].cur] = NoFile
        /\ \A k \in Keys :
              \/ meta[k].created = data[k].ver /\ meta[k].size = data[k].size
              \/ \E p \in Procs : pc[p] = "rmmeta" /\ loc[p].cur = k
              \/ \E p \in Procs : pc[p] = "save" /\ loc[p].key = k

----------------------------------------------------------------------------
(* Types *)

\* The initial values have their types.
LEMMA Constants ==
    /\ NoFile \in DataFiles
    /\ Unreadable \in Metadata
    /\ NoLoc \in Locals
    /\ IdleTouch \in Touches
    /\ NoResult \in Results
    /\ Error \in Results
  BY DEF NoFile, DataFiles, Unreadable, Metadata, NoLoc, Locals, IdleTouch,
         Touches, NoResult, Error, Result, Results, Kinds

\* Every update of a local record the actions make keeps its type.
LEMMA LocalUpdates ==
    ASSUME NEW l \in Locals, NEW k \in Keys
    PROVE  /\ [l EXCEPT !.cur = k] \in Locals
           /\ [l EXCEPT !.cur = NoKey] \in Locals
           /\ [l EXCEPT !.key = k] \in Locals
           /\ [l EXCEPT !.key = k, !.cur = k] \in Locals
           /\ [l EXCEPT !.todo = @ \ {k}] \in Locals
           /\ [l EXCEPT !.todo = @ \ {k}, !.cur = k] \in Locals
           /\ \A S \in SUBSET Keys : [l EXCEPT !.todo = S] \in Locals
           /\ \A S \in SUBSET Keys : [l EXCEPT !.todo = S, !.found = {}] \in Locals
           /\ \A i \in Items : [l EXCEPT !.todo = @ \ {k}, !.found = @ \cup {i}] \in Locals
           /\ \A v, n, t \in Nat :
                 [l EXCEPT !.key = k, !.ver = v, !.size = n, !.ttl = t] \in Locals
  BY DEF Locals

ControlOK ==
    /\ mgrMu \in Procs \cup {NoOne} /\ evMu \in Procs \cup {NoOne}
    /\ op \in [Procs -> Ops] /\ pc \in [Procs -> PCs] /\ res \in [Procs -> Results]

\* A fault keeps the counter a number.
LEMMA FaultyType == ASSUME DiskOK, Faulty PROVE faults' \in Nat
  BY BoundsAssumption DEF DiskOK, Faulty

\* Starting an operation keeps the types.
LEMMA EnterType ==
    ASSUME ThreadsOK, NEW p \in Procs, NEW o \in Ops, NEW l \in PCs, NEW a \in Locals,
           Enter(p, o, l, a)
    PROVE  /\ op' \in [Procs -> Ops] /\ pc' \in [Procs -> PCs]
           /\ loc' \in [Procs -> Locals] /\ res' \in [Procs -> Results]
  BY Constants DEF ThreadsOK, Enter

\* Moving to another step keeps the types.
LEMMA GotoType ==
    ASSUME ThreadsOK, NEW p \in Procs, NEW l \in PCs, Goto(p, l)
    PROVE  ControlOK'
  BY DEF ThreadsOK, ControlOK, Goto

\* Returning from an operation keeps the types.
LEMMA FinishType ==
    ASSUME ThreadsOK, NEW p \in Procs, NEW r \in Results, Finish(p, r)
    PROVE  ControlOK' /\ loc' \in [Procs -> Locals]
  BY Constants DEF ThreadsOK, ControlOK, Finish, Ops, PCs

\* Returning from the remove calls keeps the types.
LEMMA AfterRemoveType ==
    ASSUME ThreadsOK, NEW p \in Procs, NEW r \in Results, AfterRemove(p, r),
           loc[p].cur \in Keys
    PROVE  ControlOK' /\ loc' \in [Procs -> Locals]
  <1>1. "victims" \in PCs /\ "check" \in PCs /\ loc[p] \in Locals /\ res[p] \in Results
    BY DEF PCs, ThreadsOK
  <1>2. [loc[p] EXCEPT !.cur = NoKey] \in Locals
    BY <1>1, LocalUpdates
  <1>3. CASE Finish(p, res[p]) \/ Finish(p, r)
    BY <1>1, <1>3, FinishType
  <1>4. CASE /\ Goto(p, "victims") \/ Goto(p, "check")
             /\ loc' = [loc EXCEPT ![p].cur = NoKey]
    <2>1. loc' \in [Procs -> Locals]
      BY <1>2, <1>4 DEF ThreadsOK
    <2> QED
      BY <1>1, <1>4, <2>1, GotoType
  <1> QED
    BY <1>3, <1>4 DEF AfterRemove

\* updateAccessTime changes nothing of the metadata but the access time.
LEMMA TouchMeta ==
    ASSUME IInv, NEW g \in Touchers, TouchSave(g) \/ TouchSaveFails(g)
    PROVE  /\ meta' \in [Keys -> Metadata]
           /\ \A k \in Keys : \/ meta'[k] = Unreadable
                              \/ /\ meta'[k].created = meta[k].created
                                 /\ meta'[k].ttl = meta[k].ttl
                                 /\ meta'[k].size = meta[k].size
  <1>1. /\ DiskOK /\ touch[g].key \in Keys /\ touch[g].meta = meta[touch[g].key]
        /\ meta[touch[g].key] \in Metadata
    BY DEF IInv, TypeOK, DiskOK, StepInv, SectionInv, TouchSave, TouchSaveFails
  <1>2. CASE TouchSave(g)
    <2> DEFINE m == [touch[g].meta EXCEPT !.accessed = clock]
    <2>1. /\ m \in Metadata /\ m.created = touch[g].meta.created
          /\ m.ttl = touch[g].meta.ttl /\ m.size = touch[g].meta.size
      BY <1>1 DEF Metadata, DiskOK
    <2>2. meta' = [meta EXCEPT ![touch[g].key] = m]
      BY <1>2 DEF TouchSave
    <2> HIDE DEF m
    <2> QED
      BY <1>1, <2>1, <2>2 DEF DiskOK
  <1>3. CASE TouchSaveFails(g)
    BY <1>1, <1>3, Constants DEF TouchSaveFails, DiskOK
  <1> QED
    BY <1>2, <1>3

\* Every step keeps the types.
LEMMA TypeStep == ASSUME IInv, Next PROVE TypeOK'
  <1>0. DiskOK /\ ThreadsOK
    BY DEF IInv, TypeOK
  <1>1. ASSUME NEW p \in Procs, Call(p) PROVE TypeOK'
    <2>1. ASSUME NEW k \in Keys, GetBegin(p, k) \/ DeleteBegin(p, k) PROVE TypeOK'
      <3>1. /\ [NoLoc EXCEPT !.key = k] \in Locals
            /\ [NoLoc EXCEPT !.key = k, !.cur = k] \in Locals
        BY Constants, LocalUpdates
      <3> QED
        BY <1>0, <2>1, <3>1, EnterType
        DEF TypeOK, DiskOK, ThreadsOK, GetBegin, DeleteBegin, diskvars, Ops, PCs
    <2>2. ASSUME NEW k \in Keys, Exists(p, k) PROVE TypeOK'
      BY <1>0, <2>2 DEF TypeOK, DiskOK, ThreadsOK, Exists, diskvars, Result, Results, Kinds
    <2>3. ASSUME NEW k \in Keys, NEW n \in Sizes, NEW ttl \in TTLs, PutBegin(p, k, n, ttl)
          PROVE  TypeOK'
      <3> DEFINE t == IF ttl = 0 THEN DefaultTTL ELSE ttl
      <3>1. n \in Nat /\ t \in Nat /\ clock + 1 \in Nat
        BY <1>0, SizesAssumption, TTLAssumption DEF DiskOK
      <3>2. [NoLoc EXCEPT !.key = k, !.ver = clock + 1, !.size = n, !.ttl = t] \in Locals
        BY <3>1, Constants, LocalUpdates
      <3> QED
        BY <1>0, <2>3, <3>1, <3>2, EnterType
        DEF TypeOK, DiskOK, ThreadsOK, PutBegin, diskvars, Ops, PCs
    <2>4. CASE ClearBegin(p) \/ EvictBegin(p)
      BY <1>0, <2>4, Constants, EnterType
      DEF TypeOK, DiskOK, ThreadsOK, ClearBegin, EvictBegin, diskvars, Ops, PCs
    <2> QED
      BY <1>1, <2>1, <2>2, <2>3, <2>4 DEF Call
  <1>2. ASSUME NEW p \in Procs, Step(p) \/ Fault(p) PROVE TypeOK'
    <2>0. loc[p] \in Locals /\ res[p] \in Results
      BY <1>0 DEF ThreadsOK
    <2>1. CASE GetMiss(p)
      <3>1. Result("miss", loc[p].key, 0) \in Results
        BY <2>1 DEF IInv, StepInv, GetMiss, At, Result, Results, Kinds
      <3> QED
        BY <1>0, <2>1, <3>1, FinishType
        DEF TypeOK, DiskOK, ThreadsOK, ControlOK, GetMiss, diskvars
    <2>2. CASE GetHit(p)
      <3>1. loc[p].key \in Keys /\ Result("hit", loc[p].key, data[loc[p].key].ver) \in Results
        BY <1>0, <2>2 DEF IInv, StepInv, GetHit, At, Result, Results, Kinds, DiskOK, DataFiles
      <3>2. [st |-> "spawned", key |-> loc[p].key, meta |-> Unreadable] \in Touches
        BY <3>1, Constants DEF Touches
      <3> QED
        BY <1>0, <2>2, <3>1, <3>2, FinishType
        DEF TypeOK, DiskOK, ThreadsOK, ControlOK, GetHit, SpawnTouch, diskvars
    <2>3. CASE GetExpired(p)
      <3>1. loc[p].key \in Keys
        BY <2>3 DEF IInv, StepInv, GetExpired, At
      <3>2. /\ [loc[p] EXCEPT !.cur = loc[p].key] \in Locals
            /\ Result("miss", loc[p].key, 0) \in Results
        BY <2>0, <3>1, LocalUpdates DEF Result, Results, Kinds
      <3> QED
        BY <1>0, <2>3, <3>2 DEF TypeOK, DiskOK, ThreadsOK, GetExpired, diskvars, PCs
    <2>4. CASE RemoveData(p) \/ PurgeDataFails(p)
      <3>1. ControlOK'
        BY <1>0, <2>4, GotoType DEF RemoveData, PurgeDataFails, PCs
      <3>8. DiskOK'
        BY <1>0, <2>4, <3>1, Constants, FaultyType
        DEF DiskOK, RemoveData, PurgeDataFails, diskvars
      <3>9. ThreadsOK'
        BY <1>0, <2>4, <3>1, Constants
        DEF ThreadsOK, ControlOK, RemoveData, PurgeDataFails
      <3> QED
        BY <3>8, <3>9 DEF TypeOK
    <2>5. CASE RemoveMeta(p) \/ RemoveMetaFails(p) \/ RemoveDataFails(p)
      <3>1. loc[p].cur \in Keys
        BY <2>5 DEF IInv, StepInv, RemoveMeta, RemoveMetaFails, RemoveDataFails, At
      <3>2. Result("deleted", loc[p].cur, 0) \in Results
        BY <3>1 DEF Result, Results, Kinds
      <3>3. ControlOK' /\ loc' \in [Procs -> Locals]
        BY <1>0, <2>5, <3>1, <3>2, Constants, AfterRemoveType
        DEF RemoveMeta, RemoveMetaFails, RemoveDataFails
      <3>8. DiskOK'
        BY <1>0, <2>5, <3>1, <3>3, Constants, FaultyType
        DEF DiskOK, RemoveMeta, RemoveMetaFails, RemoveDataFails, diskvars
      <3>9. ThreadsOK'
        BY <1>0, <2>5, <3>1, <3>3, Constants
        DEF ThreadsOK, ControlOK, RemoveMeta, RemoveMetaFails, RemoveDataFails
      <3> QED
        BY <3>8, <3>9 DEF TypeOK
    <2>6. CASE Clear(p) \/ ClearFails(p)
      <3>1. Result("cleared", NoKey, 0) \in Results
        BY DEF Result, Results, Kinds
      <3>2. ControlOK' /\ loc' \in [Procs -> Locals]
        BY <1>0, <2>6, <3>1, Constants, FinishType DEF Clear, ClearFails
      <3>8. DiskOK'
        <4>1. CASE Clear(p)
          BY <1>0, <4>1, Constants DEF DiskOK, Clear
        <4>2. CASE ClearFails(p)
          BY <1>0, <4>2, Constants, FaultyType DEF DiskOK, ClearFails
        <4> QED
          BY <2>6, <4>1, <4>2
      <3>9. ThreadsOK'
        BY <1>0, <2>6, <3>2, Constants
        DEF ThreadsOK, ControlOK, Clear, ClearFails
      <3> QED
        BY <3>8, <3>9 DEF TypeOK
    <2>7. CASE PutSize(p) \/ PutSizeFails(p)
      <3>1. ControlOK' /\ loc' = loc
        BY <1>0, <2>7, GotoType
        DEF PutSize, PutSizeFails, MakeRoom, PCs, ControlOK, ThreadsOK
      <3>8. DiskOK'
        BY <1>0, <2>7, <3>1, FaultyType
        DEF DiskOK, PutSize, PutSizeFails, diskvars
      <3>9. ThreadsOK'
        BY <1>0, <2>7, <3>1
        DEF ThreadsOK, ControlOK, PutSize, PutSizeFails
      <3> QED
        BY <3>8, <3>9 DEF TypeOK
    <2>8. CASE Write(p) \/ Rename(p)
      <3>1. ControlOK'
        BY <1>0, <2>8, GotoType DEF Write, Rename, PCs
      <3>2. loc[p].size \in Nat /\ [ver |-> loc[p].ver, size |-> loc[p].size] \in DataFiles
        BY <2>0 DEF Locals, DataFiles
      <3>8. DiskOK'
        <4>1. CASE Write(p)
          BY <1>0, <3>2, <4>1 DEF DiskOK, Write
        <4>2. CASE Rename(p)
          BY <1>0, <3>2, <4>2 DEF DiskOK, Rename
        <4> QED
          BY <2>8, <4>1, <4>2
      <3>9. ThreadsOK'
        BY <1>0, <2>8, <3>1, <3>2
        DEF ThreadsOK, ControlOK, Write, Rename
      <3> QED
        BY <3>8, <3>9 DEF TypeOK
    <2>9. CASE WriteFails(p) \/ RenameFails(p) \/ SaveFails(p)
      <3>1. ControlOK' /\ loc' \in [Procs -> Locals]
        BY <1>0, <2>9, Constants, FinishType DEF WriteFails, RenameFails, SaveFails
      <3>2. loc[p].size \in Nat /\ loc[p].key \in Keys
        BY <2>0, <2>9 DEF Locals, IInv, StepInv, WriteFails, RenameFails, SaveFails, At
      <3>8. DiskOK'
        <4>1. CASE WriteFails(p)
          BY <1>0, <3>2, <4>1, FaultyType DEF DiskOK, WriteFails
        <4>2. CASE RenameFails(p)
          BY <1>0, <3>2, <4>2, FaultyType DEF DiskOK, RenameFails
        <4>3. CASE SaveFails(p)
          BY <1>0, <3>2, <4>3, Constants, FaultyType DEF DiskOK, SaveFails
        <4> QED
          BY <2>9, <4>1, <4>2, <4>3
      <3>9. ThreadsOK'
        BY <1>0, <2>9, <3>1, <3>2, Constants
        DEF ThreadsOK, ControlOK, WriteFails, RenameFails, SaveFails
      <3> QED
        BY <3>8, <3>9 DEF TypeOK
    <2>10. CASE Save(p)
      <3>1. loc[p].key \in Keys
        BY <2>10 DEF IInv, StepInv, Save, At
      <3>2. /\ Result("stored", loc[p].key, loc[p].ver) \in Results
            /\ [created |-> loc[p].ver, size |-> loc[p].size,
                ttl |-> loc[p].ttl, accessed |-> clock] \in Metadata
        BY <1>0, <2>0, <3>1 DEF Locals, Result, Results, Kinds, Metadata, DiskOK
      <3>3. ControlOK' /\ loc' \in [Procs -> Locals]
        BY <1>0, <2>10, <3>2, FinishType DEF Save
      <3> QED
        BY <1>0, <2>10, <3>2, <3>3 DEF TypeOK, DiskOK, ThreadsOK, ControlOK, Save
    <2>11. CASE EvictSize(p)
      BY <1>0, <2>11 DEF TypeOK, DiskOK, ThreadsOK, EvictSize, diskvars, Ops, PCs
    <2>12. CASE SweepDone(p) \/ EvictSizeFails(p) \/ VictimsDone(p)
      <3>1. Result("swept", NoKey, 0) \in Results /\ "write" \in PCs
        BY DEF Result, Results, Kinds, PCs
      <3>2. ControlOK' /\ loc' \in [Procs -> Locals]
        BY <1>0, <2>12, <3>1, Constants, FinishType, GotoType
        DEF SweepDone, EvictSizeFails, VictimsDone, ThreadsOK
      <3>8. DiskOK'
        BY <1>0, <2>12, <3>2, FaultyType
        DEF DiskOK, SweepDone, EvictSizeFails, VictimsDone, diskvars
      <3>9. ThreadsOK'
        BY <1>0, <2>12, <3>2
        DEF ThreadsOK, ControlOK, SweepDone, EvictSizeFails, VictimsDone
      <3> QED
        BY <3>8, <3>9 DEF TypeOK
    <2>13. CASE Scan(p, "scan", "collect") \/ Scan(p, "sweepscan", "check")
      <3>1. ControlOK'
        BY <1>0, <2>13, GotoType DEF Scan, PCs
      <3>2. [loc[p] EXCEPT !.todo = {k \in Keys : data[k].ver # 0}] \in Locals
        BY <2>0 DEF Locals
      <3> QED
        BY <1>0, <2>13, <3>1, <3>2 DEF TypeOK, DiskOK, ThreadsOK, ControlOK, Scan, diskvars
    <2>14. CASE Select(p)
      <3>1. ControlOK'
        BY <1>0, <2>14, GotoType DEF Select, PCs
      <3>2. PICK C \in SelectEvictionCandidates(loc[p].found, need[p]) :
               loc' = [loc EXCEPT ![p].todo = {i.key : i \in C}, ![p].found = {}]
        BY <2>14 DEF Select
      <3>3. C \in SUBSET Items
        BY <2>0 DEF SelectEvictionCandidates, Locals
      <3>4. {i.key : i \in C} \in SUBSET Keys
        BY <3>3 DEF Items
      <3>5. [loc[p] EXCEPT !.todo = {i.key : i \in C}, !.found = {}] \in Locals
        BY <2>0, <3>4 DEF Locals
      <3> QED
        BY <1>0, <2>14, <3>1, <3>2, <3>5
        DEF TypeOK, DiskOK, ThreadsOK, ControlOK, Select, diskvars
    <2>15. ASSUME NEW k \in Keys, SweepCheck(p, k) \/ NextVictim(p, k) PROVE TypeOK'
      <3>1. ControlOK'
        BY <1>0, <2>15, GotoType DEF SweepCheck, NextVictim, PCs
      <3>2. /\ [loc[p] EXCEPT !.todo = @ \ {k}, !.cur = k] \in Locals
            /\ [loc[p] EXCEPT !.todo = @ \ {k}] \in Locals
        BY <2>0, LocalUpdates
      <3> QED
        BY <1>0, <2>15, <3>1, <3>2
        DEF TypeOK, DiskOK, ThreadsOK, ControlOK, SweepCheck, NextVictim, diskvars
    <2>16. ASSUME NEW k \in Keys, Collect(p, k) PROVE TypeOK'
      <3> DEFINE i == [key |-> k, size |-> meta[k].size, accessed |-> meta[k].accessed]
                 F == IF meta[k].created = 0 THEN loc[p].found ELSE loc[p].found \cup {i}
      <3>1. ControlOK'
        BY <1>0, <2>16, GotoType DEF Collect, PCs
      <3>2. F \in SUBSET Items
        BY <1>0, <2>0 DEF Items, DiskOK, Metadata, Locals
      <3>3. [loc[p] EXCEPT !.todo = @ \ {k}, !.found = F] \in Locals
        BY <2>0, <3>2 DEF Locals
      <3>4. loc' = [loc EXCEPT ![p] = [loc[p] EXCEPT !.todo = @ \ {k}, !.found = F]]
        BY <2>16 DEF Collect
      <3> HIDE DEF F
      <3> QED
        BY <1>0, <2>16, <3>1, <3>3, <3>4
        DEF TypeOK, DiskOK, ThreadsOK, ControlOK, Collect, diskvars
    <2>17. CASE GetFails(p)
      <3>1. Result("miss", loc[p].key, 0) \in Results
        BY <2>17 DEF IInv, StepInv, GetFails, At, Result, Results, Kinds
      <3>2. ControlOK' /\ loc' \in [Procs -> Locals]
        BY <1>0, <2>17, <3>1, FinishType DEF GetFails
      <3>3. DiskOK'
        BY <1>0, <2>17, FaultyType DEF DiskOK, GetFails, diskvars
      <3> QED
        BY <1>0, <2>17, <3>2, <3>3 DEF TypeOK, ThreadsOK, ControlOK, GetFails
    <2>18. CASE GetReadFails(p)
      <3>1. loc[p].key \in Keys /\ Result("hit", loc[p].key, 0) \in Results
        BY <2>18 DEF IInv, StepInv, GetReadFails, At, Result, Results, Kinds
      <3>2. [st |-> "spawned", key |-> loc[p].key, meta |-> Unreadable] \in Touches
        BY <3>1, Constants DEF Touches
      <3>3. ControlOK' /\ loc' \in [Procs -> Locals]
        BY <1>0, <2>18, <3>1, FinishType DEF GetReadFails
      <3>4. DiskOK'
        BY <1>0, <2>18, FaultyType DEF DiskOK, GetReadFails, diskvars
      <3> QED
        BY <1>0, <2>18, <3>2, <3>3, <3>4
        DEF TypeOK, ThreadsOK, ControlOK, GetReadFails, SpawnTouch
    <2>19. ASSUME NEW k \in Keys, ExistsFails(p, k) PROVE TypeOK'
      <3>1. Result("no", k, 0) \in Results
        BY DEF Result, Results, Kinds
      <3>2. DiskOK'
        BY <1>0, <2>19, FaultyType DEF DiskOK, ExistsFails, diskvars
      <3> QED
        BY <1>0, <2>19, <3>1, <3>2 DEF TypeOK, ThreadsOK, ExistsFails
    <2>20. ASSUME NEW k \in Keys, SkipFails(p, k) PROVE TypeOK'
      <3>1. [loc[p] EXCEPT !.todo = @ \ {k}] \in Locals
        BY <2>0, LocalUpdates
      <3>2. DiskOK'
        BY <1>0, <2>20, FaultyType DEF DiskOK, SkipFails, diskvars
      <3> QED
        BY <1>0, <2>20, <3>1, <3>2 DEF TypeOK, ThreadsOK, SkipFails
    <2> QED
      BY <1>2, <2>1, <2>2, <2>3, <2>4, <2>5, <2>6, <2>7, <2>8, <2>9, <2>10, <2>11,
         <2>12, <2>13, <2>14, <2>15, <2>16, <2>17, <2>18, <2>19, <2>20 DEF Step, Fault
  <1>3. ASSUME NEW g \in Touchers, TouchLoad(g) PROVE TypeOK'
    <2>1. touch[g].key \in Keys /\ touch[g] \in Touches /\ meta[touch[g].key] \in Metadata
      BY <1>0, <1>3 DEF IInv, DiskOK, ThreadsOK, StepInv, TouchLoad
    <2>2. [touch[g] EXCEPT !.st = "loaded", !.meta = meta[touch[g].key]] \in Touches
      BY <2>1 DEF Touches
    <2> QED
      BY <1>0, <1>3, <2>2, Constants DEF TypeOK, DiskOK, ThreadsOK, TouchLoad, diskvars
  <1>7. ASSUME NEW g \in Touchers, TouchLoadFails(g) PROVE TypeOK'
    BY <1>0, <1>7, Constants, FaultyType
    DEF TypeOK, DiskOK, ThreadsOK, TouchLoadFails, diskvars
  <1>4. ASSUME NEW g \in Touchers, TouchSave(g) \/ TouchSaveFails(g) PROVE TypeOK'
    BY <1>0, <1>4, TouchMeta, Constants
    DEF TypeOK, DiskOK, ThreadsOK, TouchSave, TouchSaveFails, Faulty
  <1>5. ASSUME NEW v \in 1..MaxPuts, Elapse(v) PROVE TypeOK'
    BY <1>0, <1>5, BoundsAssumption DEF TypeOK, DiskOK, ThreadsOK, Elapse, diskvars
  <1>6. CASE Crash
    BY <1>0, <1>6, Constants DEF TypeOK, DiskOK, ThreadsOK, Crash, Faulty, Ops, PCs
  <1> QED
    BY <1>1, <1>2, <1>3, <1>4, <1>5, <1>6, <1>7 DEF Next, TouchStep, TouchFault

----------------------------------------------------------------------------
(* The rest of the inductive invariant, one lemma per conjunct *)

\* Every step keeps the locks with the goroutines inside their sections.
LEMMA LockStep == ASSUME IInv, Next PROVE LockInv'
  <1>0. ThreadsOK /\ StepInv /\ LockInv
    BY DEF IInv, TypeOK
  <1>1. ASSUME NEW p \in Procs, Call(p) PROVE LockInv'
    <2> USE <1>0, ProcsAssumption DEF ThreadsOK, StepInv, LockInv, FsSteps, ManagerOps, Enter
    <2>1. ASSUME NEW k \in Keys, GetBegin(p, k) \/ DeleteBegin(p, k) PROVE LockInv'
      BY <2>1 DEF GetBegin, DeleteBegin
    <2>2. ASSUME NEW k \in Keys, Exists(p, k) PROVE LockInv'
      BY <2>2 DEF Exists
    <2>3. ASSUME NEW k \in Keys, NEW n \in Sizes, NEW ttl \in TTLs, PutBegin(p, k, n, ttl)
          PROVE  LockInv'
      BY <2>3 DEF PutBegin
    <2>4. CASE ClearBegin(p) \/ EvictBegin(p)
      BY <2>4 DEF ClearBegin, EvictBegin
    <2> QED
      BY <1>1, <2>1, <2>2, <2>3, <2>4 DEF Call
  <1>2. ASSUME NEW p \in Procs, Step(p) \/ Fault(p) PROVE LockInv'
    <2> USE <1>0, ProcsAssumption DEF ThreadsOK, StepInv, LockInv, FsSteps, ManagerOps
    <2>1. CASE GetMiss(p) \/ GetHit(p) \/ GetExpired(p)
      BY <2>1 DEF GetMiss, GetHit, SpawnTouch, GetExpired, At, Finish, Touches
    <2>2. CASE RemoveData(p) \/ PurgeDataFails(p)
      BY <2>2 DEF RemoveData, PurgeDataFails, At, Goto
    <2>3. CASE RemoveMeta(p) \/ RemoveMetaFails(p)
      <3>1. fsMu' = NoOne /\ touch' = touch /\ fsMu = p
        BY <2>3 DEF RemoveMeta, RemoveMetaFails, At
      <3>2. \E r : AfterRemove(p, r)
        BY <2>3 DEF RemoveMeta, RemoveMetaFails
      <3> QED
        BY <3>1, <3>2 DEF AfterRemove, Finish, Goto
    <2>4. CASE RemoveDataFails(p)
      BY <2>4 DEF RemoveDataFails, At, AfterRemove, Finish, Goto
    <2>5. CASE Clear(p) \/ ClearFails(p)
      BY <2>5 DEF Clear, ClearFails, At, Finish
    <2>6. CASE PutSize(p) \/ PutSizeFails(p)
      BY <2>6 DEF PutSize, PutSizeFails, MakeRoom, At, Goto
    <2>7. CASE Write(p) \/ Rename(p)
      BY <2>7 DEF Write, Rename, At, Goto
    <2>8. CASE Save(p) \/ SaveFails(p) \/ RenameFails(p)
      BY <2>8 DEF Save, SaveFails, RenameFails, At, Finish
    <2>9. CASE WriteFails(p) \/ EvictSizeFails(p) \/ SweepDone(p)
      BY <2>9 DEF WriteFails, EvictSizeFails, SweepDone, At, Finish
    <2>10. CASE EvictSize(p) \/ VictimsDone(p)
      BY <2>10 DEF EvictSize, VictimsDone, At, Goto, Finish
    <2>11. CASE Scan(p, "scan", "collect") \/ Scan(p, "sweepscan", "check") \/ Select(p)
      BY <2>11 DEF Scan, Select, At, Goto
    <2>12. ASSUME NEW k \in Keys, SweepCheck(p, k) \/ Collect(p, k) \/ NextVictim(p, k)
           PROVE  LockInv'
      BY <2>12 DEF SweepCheck, Collect, NextVictim, At, Goto
    <2>13. CASE GetFails(p) \/ GetReadFails(p)
      BY <2>13 DEF GetFails, GetReadFails, SpawnTouch, At, Finish, Touches
    <2>14. ASSUME NEW k \in Keys, ExistsFails(p, k) \/ SkipFails(p, k) PROVE LockInv'
      BY <2>14 DEF ExistsFails, SkipFails
    <2> QED
      BY <1>2, <2>1, <2>2, <2>3, <2>4, <2>5, <2>6, <2>7, <2>8, <2>9, <2>10, <2>11, <2>12,
         <2>13, <2>14 DEF Step, Fault
  <1>3. ASSUME NEW g \in Touchers, TouchStep(g) \/ TouchFault(g) PROVE LockInv'
    BY <1>0, <1>3, ProcsAssumption
    DEF ThreadsOK, LockInv, Touches, TouchStep, TouchFault, TouchLoad, TouchSave,
        TouchLoadFails, TouchSaveFails, IdleTouch
  <1>4. ASSUME NEW v \in 1..MaxPuts, Elapse(v) PROVE LockInv'
    BY <1>0, <1>4 DEF LockInv, Elapse
  <1>5. CASE Crash
    BY <1>5, ProcsAssumption DEF LockInv, FsSteps, ManagerOps, Crash, IdleTouch
  <1> QED
    BY <1>1, <1>2, <1>3, <1>4, <1>5 DEF Next

\* Returning from an operation keeps StepInv.
LEMMA FinishSteps ==
    ASSUME ThreadsOK, StepInv, NEW p \in Procs, NEW r, Finish(p, r), touch' = touch
    PROVE  StepInv'
  BY DEF StepInv, Finish, ThreadsOK

\* Returning from the remove calls keeps StepInv.
LEMMA AfterRemoveSteps ==
    ASSUME ThreadsOK, StepInv, NEW p \in Procs, NEW r, AfterRemove(p, r), touch' = touch
    PROVE  StepInv'
  <1>1. ASSUME NEW s, Finish(p, s) PROVE StepInv'
    BY <1>1, FinishSteps
  <1>2. CASE /\ op[p] \in {"put", "evict"} /\ Goto(p, "victims")
             /\ loc' = [loc EXCEPT ![p].cur = NoKey]
    BY <1>2 DEF StepInv, Goto, ThreadsOK, Locals
  <1>3. CASE /\ op[p] = "sweep" /\ Goto(p, "check")
             /\ loc' = [loc EXCEPT ![p].cur = NoKey]
    BY <1>3 DEF StepInv, Goto, ThreadsOK, Locals
  <1> QED
    BY <1>1, <1>2, <1>3 DEF AfterRemove

\* Every step leads to a step of the same operation, with its keys known.
LEMMA StepStep == ASSUME IInv, Next PROVE StepInv'
  <1>0. ThreadsOK /\ StepInv
    BY DEF IInv, TypeOK
  <1>1. ASSUME NEW p \in Procs, Call(p) PROVE StepInv'
    <2> USE <1>0 DEF ThreadsOK, StepInv, Locals, NoLoc, Enter
    <2>0. ASSUME NEW k \in Keys, Exists(p, k) PROVE StepInv'
      BY <2>0 DEF Exists
    <2>1. ASSUME NEW k \in Keys, GetBegin(p, k) \/ DeleteBegin(p, k) PROVE StepInv'
      <3>1. CASE GetBegin(p, k)
        BY <3>1 DEF GetBegin
      <3>2. CASE DeleteBegin(p, k)
        BY <3>2 DEF DeleteBegin
      <3> QED
        BY <2>1, <3>1, <3>2
    <2>2. ASSUME NEW k \in Keys, NEW n \in Sizes, NEW ttl \in TTLs, PutBegin(p, k, n, ttl)
          PROVE  StepInv'
      BY <2>2 DEF PutBegin
    <2>3. CASE ClearBegin(p) \/ EvictBegin(p)
      BY <2>3 DEF ClearBegin, EvictBegin
    <2> QED
      BY <1>1, <2>0, <2>1, <2>2, <2>3 DEF Call
  <1>2. ASSUME NEW p \in Procs, Step(p) \/ Fault(p) PROVE StepInv'
    <2>1. CASE \/ GetMiss(p) \/ Clear(p) \/ ClearFails(p) \/ Save(p) \/ SaveFails(p)
               \/ RenameFails(p) \/ WriteFails(p) \/ EvictSizeFails(p) \/ SweepDone(p)
               \/ GetFails(p)
      <3>1. touch' = touch /\ \E r : Finish(p, r)
        BY <2>1 DEF GetMiss, GetFails, Clear, ClearFails, Save, SaveFails, RenameFails, WriteFails,
                    EvictSizeFails, SweepDone
      <3> QED
        BY <1>0, <3>1, FinishSteps
    <2>2. CASE RemoveMeta(p) \/ RemoveMetaFails(p) \/ RemoveDataFails(p)
      <3>1. touch' = touch /\ \E r : AfterRemove(p, r)
        BY <2>2 DEF RemoveMeta, RemoveMetaFails, RemoveDataFails
      <3> QED
        BY <1>0, <3>1, AfterRemoveSteps
    <2> USE <1>0 DEF ThreadsOK, StepInv, Locals
    <2>3. CASE GetHit(p) \/ GetReadFails(p)
      <3>1. CASE GetHit(p)
        BY <3>1 DEF GetHit, SpawnTouch, At, Finish, Touches
      <3>2. CASE GetReadFails(p)
        BY <3>2 DEF GetReadFails, SpawnTouch, At, Finish, Touches
      <3> QED
        BY <2>3, <3>1, <3>2
    <2>4. CASE GetExpired(p)
      BY <2>4 DEF GetExpired, At
    <2>5. CASE RemoveData(p) \/ PurgeDataFails(p)
      BY <2>5 DEF RemoveData, PurgeDataFails, At, Goto
    <2>6. CASE PutSize(p) \/ PutSizeFails(p)
      BY <2>6 DEF PutSize, PutSizeFails, MakeRoom, Goto
    <2>7. CASE Write(p) \/ Rename(p)
      BY <2>7 DEF Write, Rename, At, Goto
    <2>8. CASE EvictSize(p)
      BY <2>8 DEF EvictSize
    <2>9. CASE VictimsDone(p)
      BY <2>9 DEF VictimsDone, Goto, Finish
    <2>10. CASE Scan(p, "scan", "collect")
      BY <2>10 DEF Scan, At, Goto
    <2>11. CASE Scan(p, "sweepscan", "check")
      BY <2>11 DEF Scan, At, Goto
    <2>12. CASE Select(p)
      BY <2>12 DEF Select, At, Goto
    <2>13. ASSUME NEW k \in Keys, SweepCheck(p, k) PROVE StepInv'
      <3>1. op[p] = "sweep"
        BY <2>13 DEF SweepCheck, At
      <3>2. CASE loc' = [loc EXCEPT ![p].todo = @ \ {k}, ![p].cur = k] /\ Goto(p, "rmdata")
        BY <2>13, <3>1, <3>2 DEF SweepCheck, Goto
      <3>3. CASE loc' = [loc EXCEPT ![p].todo = @ \ {k}] /\ Goto(p, "check")
        BY <2>13, <3>1, <3>3 DEF SweepCheck, Goto
      <3> QED
        BY <2>13, <3>2, <3>3 DEF SweepCheck
    <2>14. ASSUME NEW k \in Keys, Collect(p, k) PROVE StepInv'
      BY <2>14 DEF Collect, At, Goto
    <2>15. ASSUME NEW k \in Keys, NextVictim(p, k) PROVE StepInv'
      BY <2>15 DEF NextVictim, At, Goto
    <2>16. ASSUME NEW k \in Keys, ExistsFails(p, k) PROVE StepInv'
      BY <2>16 DEF ExistsFails
    <2>17. ASSUME NEW k \in Keys, SkipFails(p, k) PROVE StepInv'
      BY <2>17 DEF SkipFails
    <2> QED
      BY <1>2, <2>1, <2>2, <2>3, <2>4, <2>5, <2>6, <2>7, <2>8, <2>9, <2>10, <2>11,
         <2>12, <2>13, <2>14, <2>15, <2>16, <2>17 DEF Step, Fault
  <1>3. ASSUME NEW g \in Touchers, TouchStep(g) \/ TouchFault(g) PROVE StepInv'
    <2>1. \A h \in Touchers : touch'[h].st # "idle" =>
              touch[h].st # "idle" /\ touch'[h].key = touch[h].key
      BY <1>0, <1>3
      DEF ThreadsOK, Touches, TouchStep, TouchFault, TouchLoad, TouchSave, TouchLoadFails,
          TouchSaveFails, IdleTouch
    <2> QED
      BY <1>0, <1>3, <2>1
      DEF StepInv, TouchStep, TouchFault, TouchLoad, TouchSave, TouchLoadFails, TouchSaveFails
  <1>4. ASSUME NEW v \in 1..MaxPuts, Elapse(v) PROVE StepInv'
    BY <1>0, <1>4 DEF StepInv, Elapse
  <1>5. CASE Crash
    BY <1>5 DEF StepInv, Crash, IdleTouch
  <1> QED
    BY <1>1, <1>2, <1>3, <1>4, <1>5 DEF Next

\* A step of p leaves the other goroutines alone, and p's arguments until it returns.
LEMMA StepKeeps ==
    ASSUME IInv, NEW p \in Procs, Step(p) \/ Fault(p)
    PROVE  /\ \A q \in Procs \ {p} : op'[q] = op[q] /\ pc'[q] = pc[q] /\ loc'[q] = loc[q]
           /\ \/ op'[p] = "idle"
              \/ /\ op'[p] = op[p] \/ (op[p] = "evict" /\ op'[p] = "sweep")
                 /\ loc'[p].key = loc[p].key /\ loc'[p].ver = loc[p].ver
                 /\ loc'[p].size = loc[p].size /\ loc'[p].ttl = loc[p].ttl
  <1>0. /\ op \in [Procs -> Ops] /\ pc \in [Procs -> PCs] /\ loc \in [Procs -> Locals]
    BY DEF IInv, TypeOK, ThreadsOK
  <1> DEFINE Kept ==
        /\ \A q \in Procs \ {p} : op'[q] = op[q] /\ pc'[q] = pc[q] /\ loc'[q] = loc[q]
        /\ \/ op'[p] = "idle"
           \/ /\ op'[p] = op[p] \/ (op[p] = "evict" /\ op'[p] = "sweep")
              /\ loc'[p].key = loc[p].key /\ loc'[p].ver = loc[p].ver
              /\ loc'[p].size = loc[p].size /\ loc'[p].ttl = loc[p].ttl
  <1> SUFFICES Kept
    OBVIOUS
  <1> USE <1>0
  <1>1. ASSUME NEW r, Finish(p, r) PROVE Kept
    BY <1>1 DEF Finish
  <1>2. ASSUME NEW l, Goto(p, l), loc' = loc PROVE Kept
    BY <1>2 DEF Goto
  <1>3. ASSUME NEW l, Goto(p, l), NEW c, loc' = [loc EXCEPT ![p].cur = c] PROVE Kept
    BY <1>3 DEF Goto, Locals
  <1>4. ASSUME NEW r, AfterRemove(p, r) PROVE Kept
    BY <1>1, <1>3, <1>4 DEF AfterRemove
  <1>5. CASE \/ GetMiss(p) \/ GetHit(p) \/ Clear(p) \/ ClearFails(p) \/ Save(p) \/ SaveFails(p)
             \/ RenameFails(p) \/ WriteFails(p) \/ EvictSizeFails(p) \/ SweepDone(p)
             \/ GetFails(p) \/ GetReadFails(p)
    <2>1. \E r : Finish(p, r)
      BY <1>5 DEF GetMiss, GetHit, GetFails, GetReadFails, Clear, ClearFails, Save, SaveFails, RenameFails, WriteFails,
                  EvictSizeFails, SweepDone
    <2> QED
      BY <1>1, <2>1
  <1>6. CASE RemoveMeta(p) \/ RemoveMetaFails(p) \/ RemoveDataFails(p)
    <2>1. \E r : AfterRemove(p, r)
      BY <1>6 DEF RemoveMeta, RemoveMetaFails, RemoveDataFails
    <2> QED
      BY <1>4, <2>1
  <1>7. CASE RemoveData(p) \/ PurgeDataFails(p) \/ Write(p) \/ Rename(p)
    BY <1>2, <1>7 DEF RemoveData, PurgeDataFails, Write, Rename
  <1>8. CASE GetExpired(p)
    BY <1>8 DEF GetExpired, Locals
  <1>9. CASE PutSize(p) \/ PutSizeFails(p)
    BY <1>2, <1>9 DEF PutSize, PutSizeFails, MakeRoom
  <1>10. CASE EvictSize(p)
    BY <1>10 DEF EvictSize
  <1>11. CASE VictimsDone(p)
    BY <1>1, <1>2, <1>11 DEF VictimsDone
  <1>12. CASE Scan(p, "scan", "collect") \/ Scan(p, "sweepscan", "check")
    BY <1>12 DEF Scan, Goto, Locals
  <1>13. CASE Select(p)
    BY <1>13 DEF Select, Goto, Locals
  <1>14. ASSUME NEW k \in Keys, Collect(p, k) PROVE Kept
    BY <1>14 DEF Collect, Goto, Locals
  <1>15. ASSUME NEW k \in Keys, NextVictim(p, k) PROVE Kept
    BY <1>15 DEF NextVictim, Goto, Locals
  <1>16. ASSUME NEW k \in Keys, SweepCheck(p, k) PROVE Kept
    BY <1>16 DEF SweepCheck, Goto, Locals
  <1>17. ASSUME NEW k \in Keys, ExistsFails(p, k) \/ SkipFails(p, k) PROVE Kept
    BY <1>17 DEF ExistsFails, SkipFails, Locals
  <1> HIDE DEF Kept
  <1> QED
    BY <1>5, <1>6, <1>7, <1>8, <1>9, <1>10, <1>11, <1>12, <1>13, <1>14, <1>15, <1>16,
       <1>17 DEF Step, Fault

\* What a step of p may do to the files of the cache.
LEMMA DiskStep ==
    ASSUME IInv, NEW p \in Procs, Step(p) \/ Fault(p)
    PROVE  /\ aged' = aged /\ clock' = clock
           /\ \A k \in Keys :
                 \/ data'[k] = data[k]
                 \/ data'[k] = NoFile
                 \/ /\ Rename(p) /\ k = loc[p].key
                    /\ data'[k] = [ver |-> loc[p].ver, size |-> loc[p].size]
           /\ \A k \in Keys :
                 \/ meta'[k] = meta[k]
                 \/ meta'[k] = Unreadable
                 \/ /\ Save(p) /\ k = loc[p].key
                    /\ meta'[k].created = loc[p].ver /\ meta'[k].size = loc[p].size
  <1>0. DiskOK
    BY DEF IInv, TypeOK
  <1> USE DEF DiskOK
  <1>1. CASE RemoveData(p) \/ Clear(p) \/ ClearFails(p)
    BY <1>0, <1>1 DEF RemoveData, Clear, ClearFails
  <1>2. CASE RemoveMeta(p) \/ SaveFails(p)
    BY <1>0, <1>2 DEF RemoveMeta, SaveFails
  <1>3. CASE Rename(p)
    BY <1>0, <1>3 DEF Rename
  <1>4. CASE Save(p)
    <2>1. meta' = [meta EXCEPT ![loc[p].key] =
                     [created |-> loc[p].ver, size |-> loc[p].size,
                      ttl |-> loc[p].ttl, accessed |-> clock]]
      BY <1>4 DEF Save
    <2>2. data' = data /\ aged' = aged /\ clock' = clock
      BY <1>4 DEF Save
    <2> QED
      BY <1>0, <1>4, <2>1, <2>2
  <1>5. CASE UNCHANGED <<data, meta, aged, clock>>
    BY <1>5
  <1>6. \/ RemoveData(p) \/ Clear(p) \/ ClearFails(p) \/ RemoveMeta(p) \/ SaveFails(p)
        \/ Rename(p) \/ Save(p) \/ UNCHANGED <<data, meta, aged, clock>>
    BY DEF Step, Fault, GetMiss, GetHit, GetExpired, PutSize, Write, EvictSize, Scan,
           SweepCheck, Collect, NextVictim, SweepDone, Select, VictimsDone, PurgeDataFails,
           RemoveDataFails, RemoveMetaFails, PutSizeFails, WriteFails, RenameFails,
           EvictSizeFails, GetFails, GetReadFails, ExistsFails, SkipFails, diskvars
  <1> QED
    BY <1>1, <1>2, <1>3, <1>4, <1>5, <1>6

\* m.mu: at most one Put is in progress, and it is at the last version.
LEMMA OnePut ==
    ASSUME IInv, NEW p \in Procs, NEW q \in Procs, op[p] \in ManagerOps, op[q] \in ManagerOps
    PROVE  p = q
  BY DEF IInv, LockInv

\* Every step keeps the versions within the counter.
LEMMA VersionStep == ASSUME IInv, Next PROVE VersionInv'
  <1>0. DiskOK /\ ThreadsOK /\ VersionInv /\ MaxPuts \in Nat
    BY BoundsAssumption DEF IInv, TypeOK
  <1>1. ASSUME NEW p \in Procs, Call(p) PROVE VersionInv'
    <2>1. ASSUME NEW k \in Keys, NEW n \in Sizes, NEW ttl \in TTLs, PutBegin(p, k, n, ttl)
          PROVE  VersionInv'
      <3>1. \A q \in Procs \ {p} : op'[q] # "put"
        BY <2>1, ProcsAssumption
        DEF IInv, TypeOK, ThreadsOK, LockInv, ManagerOps, PutBegin, Enter
      <3>2. clock' = clock + 1 /\ clock < MaxPuts /\ UNCHANGED <<data, meta, aged>>
        BY <2>1 DEF PutBegin, diskvars
      <3>3. loc'[p].ver = clock + 1
        BY <1>0, <2>1 DEF PutBegin, Enter, NoLoc, ThreadsOK
      <3> QED
        BY <1>0, <3>1, <3>2, <3>3 DEF VersionInv, DiskOK, DataFiles, Metadata
    <2>2. CASE \/ ClearBegin(p) \/ EvictBegin(p)
               \/ \E k \in Keys : GetBegin(p, k) \/ DeleteBegin(p, k) \/ Exists(p, k)
      <3>1. UNCHANGED <<data, meta, aged, clock>>
        BY <2>2 DEF ClearBegin, EvictBegin, GetBegin, DeleteBegin, Exists, diskvars
      <3>2. \A q \in Procs : op'[q] = "put" => op[q] = "put" /\ loc'[q] = loc[q]
        BY <1>0, <2>2
        DEF ClearBegin, EvictBegin, GetBegin, DeleteBegin, Exists, Enter, ThreadsOK
      <3> QED
        BY <1>0, <3>1, <3>2 DEF VersionInv
    <2> QED
      BY <1>1, <2>1, <2>2 DEF Call
  <1>2. ASSUME NEW p \in Procs, Step(p) \/ Fault(p) PROVE VersionInv'
    <2>1. \A q \in Procs : op'[q] = "put" => op[q] = "put" /\ loc'[q].ver = loc[q].ver
      BY <1>2, StepKeeps
    <2>2. aged' = aged /\ clock' = clock /\ clock \in Nat
      BY <1>0, <1>2, DiskStep DEF DiskOK
    <2>5. Rename(p) => op[p] = "put"
      BY DEF IInv, StepInv, Rename, At
    <2>6. ASSUME NEW k \in Keys
          PROVE  \/ data'[k].ver = data[k].ver \/ data'[k].ver = 0
                 \/ op[p] = "put" /\ data'[k].ver = loc[p].ver
      <3>1. \/ data'[k] = data[k] \/ data'[k] = NoFile
            \/ Rename(p) /\ data'[k] = [ver |-> loc[p].ver, size |-> loc[p].size]
        BY <1>2, DiskStep
      <3> QED
        BY <2>5, <3>1 DEF NoFile
    <2>7. ASSUME NEW k \in Keys
          PROVE  \/ meta'[k].created = meta[k].created \/ meta'[k].created = 0
                 \/ Save(p) /\ meta'[k].created = loc[p].ver
      <3>1. \/ meta'[k] = meta[k] \/ meta'[k] = Unreadable
            \/ Save(p) /\ meta'[k].created = loc[p].ver
        BY <1>2, DiskStep
      <3> QED
        BY <3>1 DEF Unreadable
    <2>3. CASE Save(p)
      <3>1. op[p] = "put" /\ op'[p] = "idle"
        BY <1>0, <2>3 DEF Save, At, Finish, IInv, StepInv, ThreadsOK
      <3>2. \A q \in Procs : op'[q] # "put"
        BY <2>1, <3>1, OnePut DEF ManagerOps
      <3> QED
        BY <1>0, <2>2, <2>6, <2>7, <3>1, <3>2 DEF VersionInv, DiskOK, DataFiles, Metadata
    <2>4. CASE ~Save(p)
      BY <1>0, <2>1, <2>2, <2>4, <2>6, <2>7 DEF VersionInv, DiskOK, DataFiles, Metadata
    <2> QED
      BY <2>3, <2>4
  <1>3. ASSUME NEW g \in Touchers, TouchLoad(g) \/ TouchLoadFails(g) PROVE VersionInv'
    BY <1>0, <1>3 DEF VersionInv, TouchLoad, TouchLoadFails, diskvars
  <1>4. ASSUME NEW g \in Touchers, TouchSave(g) \/ TouchSaveFails(g) PROVE VersionInv'
    <2>1. \A k \in Keys : meta'[k].created = meta[k].created \/ meta'[k].created = 0
      BY <1>4, TouchMeta DEF Unreadable
    <2>2. UNCHANGED <<data, aged, clock, op, loc>>
      BY <1>4 DEF TouchSave, TouchSaveFails
    <2> QED
      BY <1>0, <2>1, <2>2 DEF VersionInv, DiskOK, Metadata
  <1>5. ASSUME NEW v \in 1..MaxPuts, Elapse(v) PROVE VersionInv'
    BY <1>0, <1>5 DEF VersionInv, Elapse, diskvars, DiskOK, Metadata
  <1>6. CASE Crash
    BY <1>0, <1>6 DEF VersionInv, Crash, Unreadable, DiskOK
  <1> QED
    BY <1>1, <1>2, <1>3, <1>4, <1>5, <1>6 DEF Next, TouchStep, TouchFault

\* Files change hands only under fs.mu.
LEMMA FilesUnderLock ==
    ASSUME IInv, NEW p \in Procs, Step(p) \/ Fault(p)
    PROVE  /\ UNCHANGED <<data, meta>> \/ fsMu = NoOne \/ fsMu = p
           /\ pc'[p] = "save" => Rename(p)
           /\ \A g \in Touchers : touch'[g].st = "loaded" => touch'[g] = touch[g]
  <1>1. UNCHANGED <<data, meta>> \/ fsMu = NoOne \/ fsMu = p
    BY DEF IInv, LockInv, FsSteps, Step, Fault, GetMiss, GetHit, GetExpired, RemoveData,
           RemoveMeta, Clear, PutSize, Write, Rename, Save, EvictSize, Scan, SweepCheck,
           Collect, NextVictim, SweepDone, Select, VictimsDone, PurgeDataFails,
           RemoveDataFails, RemoveMetaFails, ClearFails, PutSizeFails, WriteFails,
           RenameFails, SaveFails, EvictSizeFails, GetFails, GetReadFails, ExistsFails,
           SkipFails, diskvars, At
  <1>2. pc'[p] = "save" => Rename(p)
    BY DEF IInv, TypeOK, ThreadsOK, StepInv, At, Step, Fault, GetMiss, GetHit, GetExpired, RemoveData,
           RemoveMeta, Clear, PutSize, Write, Rename, Save, EvictSize, Scan, SweepCheck,
           Collect, NextVictim, SweepDone, Select, VictimsDone, PurgeDataFails,
           RemoveDataFails, RemoveMetaFails, ClearFails, PutSizeFails, WriteFails,
           RenameFails, SaveFails, EvictSizeFails, GetFails, GetReadFails, ExistsFails,
           SkipFails, AfterRemove, MakeRoom, Finish, Goto
  <1>3. touch' = touch \/ GetHit(p) \/ GetReadFails(p)
    BY DEF Step, Fault, GetMiss, GetExpired, RemoveData,
           RemoveMeta, Clear, PutSize, Write, Rename, Save, EvictSize, Scan, SweepCheck,
           Collect, NextVictim, SweepDone, Select, VictimsDone, PurgeDataFails,
           RemoveDataFails, RemoveMetaFails, ClearFails, PutSizeFails, WriteFails,
           RenameFails, SaveFails, EvictSizeFails, GetFails, ExistsFails, SkipFails
  <1>4. ASSUME GetHit(p) \/ GetReadFails(p), NEW g \in Touchers, touch'[g].st = "loaded"
        PROVE  touch'[g] = touch[g]
    BY <1>4 DEF IInv, TypeOK, ThreadsOK, GetHit, GetReadFails, SpawnTouch
  <1> QED
    BY <1>1, <1>2, <1>3, <1>4

\* Every step keeps what a goroutine inside fs.mu relies on.
LEMMA SectionStep == ASSUME IInv, Next PROVE SectionInv'
  <1>0. DiskOK /\ ThreadsOK /\ LockInv /\ SectionInv /\ StepInv
    BY DEF IInv, TypeOK
  <1>1. ASSUME NEW p \in Procs, Call(p) PROVE SectionInv'
    <2>1. UNCHANGED <<data, meta, touch>>
      BY <1>1 DEF Call, ClearBegin, EvictBegin, GetBegin, DeleteBegin, Exists, PutBegin, diskvars
    <2>2. \A q \in Procs : pc'[q] = "save" => pc[q] = "save" /\ loc'[q] = loc[q]
      BY <1>0, <1>1 DEF Call, ClearBegin, EvictBegin, GetBegin, DeleteBegin, Exists, PutBegin,
                        Enter, ThreadsOK
    <2> QED
      BY <1>0, <2>1, <2>2 DEF SectionInv
  <1>2. ASSUME NEW p \in Procs, Step(p) \/ Fault(p) PROVE SectionInv'
    <2>1. ASSUME NEW q \in Procs, pc'[q] = "save"
          PROVE  data'[loc'[q].key] = [ver |-> loc'[q].ver, size |-> loc'[q].size]
      <3>1. CASE q # p
        <4>1. pc[q] = "save" /\ loc'[q] = loc[q]
          BY <1>2, <2>1, <3>1, StepKeeps
        <4>2. fsMu = q /\ fsMu # NoOne
          BY <1>0, <4>1, ProcsAssumption DEF LockInv, FsSteps
        <4>3. data' = data
          BY <1>2, <3>1, <4>2, FilesUnderLock
        <4> QED
          BY <1>0, <4>1, <4>3 DEF SectionInv
      <3>2. CASE q = p
        <4>1. Rename(p) /\ loc[p].key \in Keys
          BY <1>0, <1>2, <2>1, <3>2, FilesUnderLock DEF StepInv, Rename, At
        <4> QED
          BY <1>0, <3>2, <4>1 DEF Rename, DiskOK
      <3> QED
        BY <3>1, <3>2
    <2>2. ASSUME NEW g \in Touchers, touch'[g].st = "loaded"
          PROVE  touch'[g].meta = meta'[touch'[g].key]
      <3>1. touch'[g] = touch[g]
        BY <1>2, <2>2, FilesUnderLock
      <3>2. fsMu = g /\ fsMu # NoOne /\ fsMu # p
        BY <1>0, <2>2, <3>1, ProcsAssumption DEF LockInv
      <3>3. meta' = meta
        BY <1>2, <3>2, FilesUnderLock
      <3> QED
        BY <1>0, <2>2, <3>1, <3>3 DEF SectionInv
    <2> QED
      BY <2>1, <2>2 DEF SectionInv
  <1>3. ASSUME NEW g \in Touchers, TouchLoad(g) \/ TouchLoadFails(g) PROVE SectionInv'
    <2>1. \A h \in Touchers : touch'[h].st = "loaded" => h = g
      BY <1>0, <1>3, ProcsAssumption
      DEF ThreadsOK, LockInv, Touches, TouchLoad, TouchLoadFails, IdleTouch
    <2>2. touch'[g].st = "loaded" =>
             touch'[g].meta = meta[touch[g].key] /\ touch'[g].key = touch[g].key
      BY <1>0, <1>3 DEF ThreadsOK, Touches, TouchLoad, TouchLoadFails, IdleTouch
    <2> QED
      BY <1>0, <1>3, <2>1, <2>2 DEF SectionInv, TouchLoad, TouchLoadFails, diskvars
  <1>4. ASSUME NEW g \in Touchers, TouchSave(g) \/ TouchSaveFails(g) PROVE SectionInv'
    <2>1. fsMu = g
      BY <1>0, <1>4 DEF LockInv, TouchSave, TouchSaveFails
    <2>2. \A q \in Procs : pc'[q] # "save"
      BY <1>0, <1>4, <2>1, ProcsAssumption DEF LockInv, FsSteps, TouchSave, TouchSaveFails
    <2>3. \A h \in Touchers : touch'[h].st # "loaded"
      BY <1>0, <1>4, <2>1 DEF LockInv, ThreadsOK, TouchSave, TouchSaveFails, IdleTouch
    <2> QED
      BY <2>2, <2>3 DEF SectionInv
  <1>5. ASSUME NEW v \in 1..MaxPuts, Elapse(v) PROVE SectionInv'
    BY <1>0, <1>5 DEF SectionInv, Elapse, diskvars
  <1>6. CASE Crash
    BY <1>6 DEF SectionInv, Crash, IdleTouch
  <1> QED
    BY <1>1, <1>2, <1>3, <1>4, <1>5, <1>6 DEF Next, TouchStep, TouchFault

\* Nothing but the Rename and the Save of a Put makes a version visible.
LEMMA VisibleStep ==
    ASSUME IInv, Next, \A p \in Procs : ~Rename(p) /\ ~Save(p), NEW k \in Keys
    PROVE  Visible(k)' = Visible(k) \/ Visible(k)' = 0
  <1>1. CASE \E p \in Procs : Call(p)
    BY <1>1 DEF Call, ClearBegin, EvictBegin, GetBegin, DeleteBegin, Exists, PutBegin,
                diskvars, Visible, Expired
  <1>2. ASSUME NEW p \in Procs, Step(p) \/ Fault(p)
        PROVE  Visible(k)' = Visible(k) \/ Visible(k)' = 0
    <2>1. /\ aged' = aged
          /\ data'[k] = data[k] \/ data'[k] = NoFile
          /\ meta'[k] = meta[k] \/ meta'[k] = Unreadable
      BY <1>2, DiskStep
    <2> QED
      BY <2>1 DEF Visible, Expired, NoFile, Unreadable
  <1>3. CASE \E g \in Touchers : TouchLoad(g) \/ TouchLoadFails(g)
    BY <1>3 DEF TouchLoad, TouchLoadFails, diskvars, Visible, Expired
  <1>4. ASSUME NEW g \in Touchers, TouchSave(g) \/ TouchSaveFails(g)
        PROVE  Visible(k)' = Visible(k) \/ Visible(k)' = 0
    <2>1. data' = data /\ aged' = aged
      BY <1>4 DEF TouchSave, TouchSaveFails
    <2> QED
      BY <1>4, <2>1, TouchMeta DEF Visible, Expired, Unreadable
  <1>5. CASE \E v \in 1..MaxPuts : Elapse(v)
    BY <1>5 DEF Elapse, diskvars, Visible, Expired
  <1>6. CASE Crash
    BY <1>6 DEF Crash, Visible, Expired, Unreadable
  <1> QED
    BY <1>1, <1>2, <1>3, <1>4, <1>5, <1>6 DEF Next, TouchStep, TouchFault

\* A Get that is about to purge an entry found it expired.
LEMMA PurgeSource ==
    ASSUME IInv, Next, NEW q \in Procs, op'[q] = "get", pc'[q] \in {"rmdata", "rmmeta"}
    PROVE  /\ op[q] = "get"
           /\ \/ pc[q] \in {"rmdata", "rmmeta"} /\ loc'[q].cur = loc[q].cur
              \/ GetExpired(q) /\ loc'[q].cur = loc[q].key
  <1>0. ThreadsOK /\ StepInv
    BY DEF IInv, TypeOK
  <1> DEFINE Goal == /\ op[q] = "get"
                     /\ \/ pc[q] \in {"rmdata", "rmmeta"} /\ loc'[q].cur = loc[q].cur
                        \/ GetExpired(q) /\ loc'[q].cur = loc[q].key
  <1> SUFFICES Goal
    OBVIOUS
  <1>1. ASSUME NEW p \in Procs, Call(p) PROVE Goal
    <2>1. op'[q] = op[q] /\ pc'[q] = pc[q] /\ loc'[q] = loc[q]
      BY <1>0, <1>1 DEF ThreadsOK, Call, ClearBegin, EvictBegin, GetBegin, DeleteBegin, Exists,
                        PutBegin, Enter
    <2> QED
      BY <2>1
  <1>2. ASSUME NEW p \in Procs, Step(p) \/ Fault(p) PROVE Goal
    <2>1. CASE p # q
      BY <1>2, <2>1, StepKeeps
    <2>2. CASE p = q
      <3>1. op[q] = "get"
        BY <1>2, <2>2, StepKeeps
      <3>2. GetExpired(q) \/ RemoveData(q) \/ PurgeDataFails(q)
        BY <1>0, <1>2, <2>2, <3>1
        DEF ThreadsOK, StepInv, Step, Fault, GetMiss, GetHit,
            RemoveMeta, Clear, PutSize, Write, Rename, Save, EvictSize, Scan, SweepCheck,
            Collect, NextVictim, SweepDone, Select, VictimsDone,
            RemoveDataFails, RemoveMetaFails, ClearFails, PutSizeFails, WriteFails,
            RenameFails, SaveFails, EvictSizeFails, GetFails, GetReadFails, ExistsFails,
            SkipFails, AfterRemove, MakeRoom, Finish, Goto, At
      <3>3. CASE GetExpired(q)
        BY <1>0, <3>1, <3>3 DEF ThreadsOK, Locals, GetExpired
      <3>4. CASE RemoveData(q) \/ PurgeDataFails(q)
        BY <3>1, <3>4 DEF RemoveData, PurgeDataFails, At
      <3> QED
        BY <3>2, <3>3, <3>4
    <2> QED
      BY <2>1, <2>2
  <1>3. CASE \/ \E g \in Touchers : TouchStep(g) \/ TouchFault(g)
             \/ \E v \in 1..MaxPuts : Elapse(v)
    BY <1>3 DEF TouchStep, TouchFault, TouchLoad, TouchSave, TouchLoadFails, TouchSaveFails,
                Elapse
  <1>4. CASE Crash
    BY <1>4 DEF Crash
  <1> QED
    BY <1>1, <1>2, <1>3, <1>4 DEF Next

\* No step makes an entry live that a Get is about to purge.
LEMMA PurgeStep == ASSUME IInv, Next PROVE PurgeOnlyExpired'
  <1>0. DiskOK /\ ThreadsOK /\ StepInv /\ StepInv' /\ PurgeOnlyExpired
    BY StepStep DEF IInv, TypeOK
  <1>1. ASSUME NEW q \in Procs, op'[q] = "get", pc'[q] \in {"rmdata", "rmmeta"},
               NEW k \in Keys, k = loc'[q].cur
        PROVE  Visible(k)' = 0
    <2>1. /\ op[q] = "get"
          /\ \/ pc[q] \in {"rmdata", "rmmeta"} /\ k = loc[q].cur
             \/ GetExpired(q) /\ k = loc[q].key
      BY <1>1, PurgeSource
    <2>2. \A p \in Procs : ~Rename(p) /\ ~Save(p)
      <3>1. ASSUME NEW p \in Procs, Rename(p) \/ Save(p) PROVE FALSE
        <4>1. op[p] = "put"
          BY <1>0, <3>1 DEF StepInv, Rename, Save, At
        <4> QED
          BY <2>1, <4>1, OnePut DEF ManagerOps
      <3> QED
        BY <3>1
    <2>3. Visible(k) = 0
      <3>1. CASE pc[q] \in {"rmdata", "rmmeta"} /\ k = loc[q].cur
        BY <1>0, <2>1, <3>1 DEF PurgeOnlyExpired
      <3>2. CASE GetExpired(q) /\ k = loc[q].key
        BY <3>2 DEF GetExpired, Visible
      <3> QED
        BY <2>1, <3>1, <3>2
    <2> QED
      BY <2>2, <2>3, VisibleStep
  <1>2. ASSUME NEW q \in Procs, op'[q] = "get", pc'[q] \in {"rmdata", "rmmeta"}
        PROVE  loc'[q].cur \in Keys
    BY <1>0, <1>2 DEF StepInv
  <1> QED
    BY <1>1, <1>2 DEF PurgeOnlyExpired, Visible, Expired

\* No step puts metadata next to older data.
LEMMA NotNewerStep == ASSUME IInv, Next PROVE MetadataNotNewer'
  <1> SUFFICES ASSUME NEW k \in Keys, data'[k].ver # 0
               PROVE  meta'[k].created <= data'[k].ver
    BY DEF MetadataNotNewer
  <1>0. /\ DiskOK /\ DiskOK' /\ StepInv /\ SectionInv /\ VersionInv
        /\ data[k].ver # 0 => meta[k].created <= data[k].ver
    BY TypeStep DEF IInv, TypeOK, MetadataNotNewer
  <1>1. data[k].ver \in Nat /\ meta[k].created \in Nat /\ data'[k].ver \in Nat
    BY <1>0 DEF DiskOK, DataFiles, Metadata
  <1>2. CASE \E p \in Procs : Call(p)
    BY <1>0, <1>2 DEF Call, ClearBegin, EvictBegin, GetBegin, DeleteBegin, Exists, PutBegin, diskvars
  <1>3. ASSUME NEW p \in Procs, Step(p) \/ Fault(p)
        PROVE  meta'[k].created <= data'[k].ver
    <2>1. CASE Rename(p) /\ k = loc[p].key
      <3>1. data'[k].ver = loc[p].ver /\ meta' = meta /\ op[p] = "put"
        BY <1>0, <2>1 DEF Rename, At, StepInv, DiskOK
      <3> QED
        BY <1>0, <3>1 DEF VersionInv
    <2>2. CASE Save(p) /\ k = loc[p].key
      <3>1. data' = data /\ pc[p] = "save" /\ op[p] = "put"
        BY <1>0, <2>2 DEF Save, At, StepInv
      <3>2. data[loc[p].key] = [ver |-> loc[p].ver, size |-> loc[p].size]
        BY <1>0, <3>1 DEF SectionInv
      <3>4. data'[k].ver = loc[p].ver
        BY <2>2, <3>1, <3>2
      <3>3. meta'[k].created = loc[p].ver
        BY <1>0, <2>2 DEF Save, DiskOK
      <3> QED
        BY <1>1, <3>3, <3>4
    <2>3. CASE /\ data'[k] = data[k] \/ data'[k] = NoFile
               /\ meta'[k] = meta[k] \/ meta'[k] = Unreadable
      BY <1>0, <1>1, <2>3 DEF NoFile, Unreadable
    <2> QED
      BY <1>3, <2>1, <2>2, <2>3, DiskStep DEF Rename, Save
  <1>4. CASE \E g \in Touchers : TouchLoad(g) \/ TouchLoadFails(g)
    BY <1>0, <1>4 DEF TouchLoad, TouchLoadFails, diskvars
  <1>5. ASSUME NEW g \in Touchers, TouchSave(g) \/ TouchSaveFails(g)
        PROVE  meta'[k].created <= data'[k].ver
    <2>1. data' = data
      BY <1>5 DEF TouchSave, TouchSaveFails
    <2> QED
      BY <1>0, <1>1, <1>5, <2>1, TouchMeta DEF Unreadable
  <1>6. CASE (\E v \in 1..MaxPuts : Elapse(v)) \/ Crash
    BY <1>0, <1>1, <1>6 DEF Elapse, diskvars, Crash, Unreadable
  <1> QED
    BY <1>2, <1>3, <1>4, <1>5, <1>6 DEF Next, TouchStep, TouchFault

----------------------------------------------------------------------------
(* The invariant and what it implies *)

\* The invariant holds of an empty cache directory.
LEMMA InitInv == ASSUME Init PROVE IInv
  <1>1. TypeOK
    BY Constants DEF Init, TypeOK, DiskOK, ThreadsOK, Ops, PCs
  <1>2. LockInv /\ StepInv
    BY ProcsAssumption DEF Init, LockInv, StepInv, FsSteps, ManagerOps, IdleTouch
  <1>3. VersionInv
    BY BoundsAssumption DEF Init, VersionInv, NoFile, Unreadable
  <1>4. SectionInv
    BY DEF Init, SectionInv, IdleTouch
  <1>5. PurgeOnlyExpired /\ MetadataNotNewer
    BY DEF Init, PurgeOnlyExpired, MetadataNotNewer, NoFile
  <1> QED
    BY <1>1, <1>2, <1>3, <1>4, <1>5 DEF IInv

\* The invariant survives stuttering.
LEMMA StutterInv == ASSUME IInv, UNCHANGED vars PROVE IInv'
  <1> USE DEF IInv, vars
  <1>1. TypeOK'
    BY DEF TypeOK, DiskOK, ThreadsOK
  <1>2. LockInv' /\ StepInv'
    BY DEF LockInv, StepInv
  <1>3. VersionInv' /\ SectionInv'
    BY DEF VersionInv, SectionInv
  <1>4. PurgeOnlyExpired' /\ MetadataNotNewer'
    BY DEF PurgeOnlyExpired, MetadataNotNewer, Visible, Expired
  <1> QED
    BY <1>1, <1>2, <1>3, <1>4

\* IInv is inductive: every operation, failed call, late access-time update and
\* crash of the file cache preserves the conjunction.
THEOREM Invariance == Spec => []IInv
  <1>1. Init => IInv
    BY InitInv
  <1>2. IInv /\ [Next]_vars => IInv'
    <2> SUFFICES ASSUME IInv, [Next]_vars PROVE IInv'
      OBVIOUS
    <2>1. CASE Next
      <3>1. TypeOK' /\ LockInv' /\ StepInv' /\ VersionInv'
        BY <2>1, TypeStep, LockStep, StepStep, VersionStep
      <3>2. SectionInv' /\ PurgeOnlyExpired' /\ MetadataNotNewer'
        BY <2>1, SectionStep, PurgeStep, NotNewerStep
      <3> QED
        BY <3>1, <3>2 DEF IInv
    <2>2. CASE UNCHANGED vars
      BY <2>2, StutterInv
    <2> QED
      BY <2>1, <2>2
  <1> QED
    BY <1>1, <1>2, PTL DEF Spec

\* Every variable of the file cache keeps its type, for any number of keys,
\* goroutines, Puts and faults.
THEOREM TypeCorrect == Spec => []TypeOK
  <1>1. IInv => TypeOK
    BY DEF IInv
  <1> QED
    BY <1>1, Invariance, PTL

\* The files FileSystemBackend.Get purges, after giving up its read lock, never
\* belong to a live entry.
THEOREM PurgeSafe == Spec => []PurgeOnlyExpired
  <1>1. IInv => PurgeOnlyExpired
    BY DEF IInv
  <1> QED
    BY <1>1, Invariance, PTL

\* Old data never lies under newer metadata, whatever fails and wherever the
\* process crashes.
THEOREM NeverNewer == Spec => []MetadataNotNewer
  <1>1. IInv => MetadataNotNewer
    BY DEF IInv
  <1> QED
    BY <1>1, Invariance, PTL

----------------------------------------------------------------------------
(* Data and metadata in step *)

\* The fault counter never goes back.
LEMMA NoFaultYet == ASSUME IInv, Next, faults' = 0 PROVE faults = 0 /\ ~Faulty
  <1>1. ~Faulty
    BY DEF IInv, TypeOK, DiskOK, Faulty
  <1>2. ASSUME NEW p \in Procs, Call(p) PROVE faults' = faults
    BY <1>2 DEF Call, ClearBegin, EvictBegin, GetBegin, DeleteBegin, Exists, PutBegin
  <1>3. ASSUME NEW p \in Procs, Step(p) PROVE faults' = faults
    BY <1>3 DEF Step, GetMiss, GetHit, GetExpired, RemoveData, RemoveMeta, Clear, PutSize,
           Write, Rename, Save, EvictSize, Scan, SweepCheck, Collect, NextVictim, SweepDone,
           Select, VictimsDone
  <1>4. ASSUME NEW p \in Procs PROVE ~Fault(p)
    BY <1>1 DEF Fault, PurgeDataFails, RemoveDataFails, RemoveMetaFails, ClearFails,
           PutSizeFails, WriteFails, RenameFails, SaveFails, EvictSizeFails, GetFails,
           GetReadFails, ExistsFails, SkipFails
  <1>5. CASE \/ \E g \in Touchers : TouchStep(g) \/ TouchFault(g)
             \/ \E v \in 1..MaxPuts : Elapse(v)
             \/ Crash
    BY <1>1, <1>5 DEF TouchStep, TouchFault, TouchLoad, TouchSave, TouchLoadFails,
                      TouchSaveFails, Elapse, Crash
  <1> QED
    BY <1>1, <1>2, <1>3, <1>4, <1>5 DEF Next

\* Without faults every step keeps data and metadata in step.
LEMMA PairStep == ASSUME IInv, PairInv, Next PROVE PairInv'
  <1> SUFFICES ASSUME faults' = 0 PROVE PairInv'
    BY DEF PairInv
  <1>0. DiskOK /\ ThreadsOK /\ StepInv /\ LockInv /\ SectionInv
    BY DEF IInv, TypeOK
  <1>a. faults = 0 /\ ~Faulty
    BY NoFaultYet
  <1>1. ASSUME UNCHANGED <<data, meta>>,
               \A q \in Procs : pc'[q] \in {"rmmeta", "save"} \/ pc[q] \in {"rmmeta", "save"} =>
                   pc'[q] = pc[q] /\ loc'[q] = loc[q]
        PROVE  PairInv'
    BY <1>a, <1>1 DEF PairInv
  <1>2. ASSUME NEW p \in Procs, Call(p) PROVE PairInv'
    <2>1. UNCHANGED <<data, meta>>
      BY <1>2 DEF Call, ClearBegin, EvictBegin, GetBegin, DeleteBegin, Exists, PutBegin, diskvars
    <2>2. \A q \in Procs : pc'[q] \in {"rmmeta", "save"} \/ pc[q] \in {"rmmeta", "save"} =>
                   pc'[q] = pc[q] /\ loc'[q] = loc[q]
      BY <1>0, <1>2 DEF ThreadsOK, StepInv, Call, ClearBegin, EvictBegin, GetBegin, DeleteBegin,
                        Exists, PutBegin, Enter
    <2> QED
      BY <1>1, <2>1, <2>2
  <1>3. ASSUME NEW p \in Procs, Step(p) PROVE PairInv'
    <2>0. /\ \A q \in Procs \ {p} : pc'[q] = pc[q] /\ loc'[q] = loc[q]
          /\ PairInv
      BY <1>3, StepKeeps
    <2>1. CASE RemoveData(p)
      <3>1. \A q \in Procs : pc[q] \notin {"rmmeta", "save"}
        BY <1>0, <2>1, ProcsAssumption DEF LockInv, FsSteps, RemoveData
      <3>2. \A k \in Keys : meta[k].created = data[k].ver /\ meta[k].size = data[k].size
        BY <1>a, <3>1 DEF PairInv
      <3>3. pc'[p] = "rmmeta" /\ loc' = loc /\ meta' = meta /\ loc[p].cur \in Keys
        BY <1>0, <2>1 DEF ThreadsOK, RemoveData, Goto, StepInv, At
      <3>4. \A k \in Keys : data'[k] = IF k = loc[p].cur THEN NoFile ELSE data[k]
        BY <1>0, <2>1, <3>3 DEF DiskOK, RemoveData
      <3> QED
        BY <2>0, <3>1, <3>2, <3>3, <3>4 DEF PairInv
    <2>2. CASE RemoveMeta(p)
      <3>1. fsMu = p /\ loc[p].cur \in Keys /\ pc[p] = "rmmeta"
        BY <1>0, <2>2 DEF LockInv, StepInv, RemoveMeta, At, FsSteps
      <3>2. \A q \in Procs \ {p} : pc[q] \notin {"rmmeta", "save"}
        BY <1>0, <3>1 DEF LockInv, FsSteps
      <3>3. data' = data /\ \A k \in Keys : meta'[k] = IF k = loc[p].cur THEN Unreadable ELSE meta[k]
        BY <1>0, <2>2, <3>1 DEF DiskOK, RemoveMeta
      <3>4. pc'[p] \notin {"rmmeta", "save"}
        BY <1>0, <2>2 DEF ThreadsOK, RemoveMeta, AfterRemove, Finish, Goto
      <3>5. data[loc[p].cur] = NoFile
        BY <1>a, <3>1 DEF PairInv
      <3>6. \A k \in Keys : meta'[k].created = data'[k].ver /\ meta'[k].size = data'[k].size
        BY <1>a, <3>1, <3>2, <3>3, <3>5 DEF PairInv, NoFile, Unreadable
      <3> QED
        BY <2>0, <3>2, <3>4, <3>6 DEF PairInv
    <2>3. CASE Clear(p)
      <3>1. \A q \in Procs : pc'[q] \notin {"rmmeta", "save"}
        BY <1>0, <2>3, ProcsAssumption DEF ThreadsOK, LockInv, FsSteps, Clear, Finish
      <3> QED
        BY <2>3, <3>1 DEF PairInv, Clear, NoFile, Unreadable
    <2>4. CASE Rename(p)
      <3>1. fsMu = p /\ loc[p].key \in Keys /\ pc[p] = "rename"
        BY <1>0, <2>4 DEF LockInv, StepInv, Rename, At, FsSteps
      <3>2. \A q \in Procs : pc[q] \notin {"rmmeta", "save"}
        BY <1>0, <3>1 DEF LockInv, FsSteps
      <3>3. pc'[p] = "save" /\ loc' = loc /\ meta' = meta
        BY <1>0, <2>4 DEF ThreadsOK, Rename, Goto
      <3>4. \A k \in Keys : k # loc[p].key => data'[k] = data[k]
        BY <1>0, <2>4, <3>1 DEF DiskOK, Rename
      <3>5. \A k \in Keys : meta[k].created = data[k].ver /\ meta[k].size = data[k].size
        BY <1>a, <3>2 DEF PairInv
      <3> QED
        BY <2>0, <3>2, <3>3, <3>4, <3>5 DEF PairInv
    <2>5. CASE Save(p)
      <3>1. fsMu = p /\ loc[p].key \in Keys /\ pc[p] = "save"
        BY <1>0, <2>5 DEF LockInv, StepInv, Save, At, FsSteps
      <3>2. \A q \in Procs \ {p} : pc[q] \notin {"rmmeta", "save"}
        BY <1>0, <3>1 DEF LockInv, FsSteps
      <3>3. pc'[p] = "idle" /\ data' = data
        BY <1>0, <2>5 DEF ThreadsOK, Save, Finish
      <3>4. data[loc[p].key] = [ver |-> loc[p].ver, size |-> loc[p].size]
        BY <1>0, <3>1 DEF SectionInv
      <3>5. \A k \in Keys : k # loc[p].key =>
               meta[k].created = data[k].ver /\ meta[k].size = data[k].size
        BY <1>a, <3>1, <3>2 DEF PairInv
      <3>6. meta' = [meta EXCEPT ![loc[p].key] =
                        [created |-> loc[p].ver, size |-> loc[p].size,
                         ttl |-> loc[p].ttl, accessed |-> clock]]
        BY <2>5 DEF Save
      <3>7. \A k \in Keys : meta'[k].created = data'[k].ver /\ meta'[k].size = data'[k].size
        BY <1>0, <3>1, <3>3, <3>4, <3>5, <3>6 DEF DiskOK
      <3> QED
        BY <2>0, <3>2, <3>3, <3>7 DEF PairInv
    <2>6. CASE ~(RemoveData(p) \/ RemoveMeta(p) \/ Clear(p) \/ Rename(p) \/ Save(p))
      <3>1. UNCHANGED <<data, meta>> /\ pc[p] \notin {"rmmeta", "save"}
        BY <1>3, <2>6 DEF Step, GetMiss, GetHit, GetExpired,
           PutSize, Write, EvictSize, Scan, SweepCheck,
           Collect, NextVictim, SweepDone, Select, VictimsDone, diskvars, At
      <3>2. pc'[p] \notin {"rmmeta", "save"}
        BY <1>0, <1>3, <2>6 DEF ThreadsOK, Step, GetMiss, GetHit, GetExpired,
           PutSize, Write, EvictSize, Scan, SweepCheck,
           Collect, NextVictim, SweepDone, Select, VictimsDone, MakeRoom, Finish, Goto
      <3> QED
        BY <1>1, <2>0, <3>1, <3>2
    <2> QED
      BY <2>1, <2>2, <2>3, <2>4, <2>5, <2>6
  <1>4. ASSUME NEW p \in Procs, Fault(p) PROVE PairInv'
    BY <1>a, <1>4 DEF Fault, PurgeDataFails, RemoveDataFails, RemoveMetaFails, ClearFails,
                      PutSizeFails, WriteFails, RenameFails, SaveFails, EvictSizeFails,
                      GetFails, GetReadFails, ExistsFails, SkipFails
  <1>5. ASSUME NEW g \in Touchers, TouchLoad(g) PROVE PairInv'
    BY <1>1, <1>5 DEF TouchLoad, diskvars
  <1>6. ASSUME NEW g \in Touchers, TouchSave(g) PROVE PairInv'
    <2>1. fsMu = g /\ touch[g].key \in Keys /\ touch[g].meta = meta[touch[g].key]
      BY <1>0, <1>6 DEF LockInv, StepInv, SectionInv, TouchSave
    <2>2. \A q \in Procs : pc[q] \notin {"rmmeta", "save"}
      BY <1>0, <2>1, ProcsAssumption DEF LockInv, FsSteps
    <2>3. \A k \in Keys : meta[k].created = data[k].ver /\ meta[k].size = data[k].size
      BY <1>a, <2>2 DEF PairInv
    <2>4. \A k \in Keys : meta'[k].created = meta[k].created /\ meta'[k].size = meta[k].size
      BY <1>0, <1>6, <2>1 DEF TouchSave, DiskOK, Metadata
    <2> QED
      BY <1>6, <2>2, <2>3, <2>4 DEF PairInv, TouchSave
  <1>7. CASE \E v \in 1..MaxPuts : Elapse(v)
    BY <1>1, <1>7 DEF Elapse, diskvars
  <1>8. CASE Crash \/ \E g \in Touchers : TouchFault(g)
    BY <1>a, <1>8 DEF Crash, TouchFault, TouchLoadFails, TouchSaveFails
  <1> QED
    BY <1>2, <1>3, <1>4, <1>5, <1>6, <1>7, <1>8 DEF Next, TouchStep, TouchFault

\* Without faults and with nobody writing, every entry's metadata is that of the
\* Put that wrote its data, whatever evictions and access-time updates ran.
THEOREM InStep == Spec => []MetadataDescribesData
  <1>1. Init => PairInv
    BY DEF Init, PairInv, NoFile, Unreadable
  <1>2. IInv /\ PairInv /\ [Next]_vars => PairInv'
    <2> SUFFICES ASSUME IInv, PairInv, [Next]_vars PROVE PairInv'
      OBVIOUS
    <2>1. CASE UNCHANGED vars
      BY <2>1 DEF PairInv, vars
    <2> QED
      BY <2>1, PairStep
  <1>3. IInv /\ PairInv => MetadataDescribesData
    <2> SUFFICES ASSUME IInv, PairInv, faults = 0, fsMu = NoOne, NEW k \in Keys
                 PROVE  meta[k].created = data[k].ver /\ meta[k].size = data[k].size
      BY DEF MetadataDescribesData
    <2>1. \A p \in Procs : pc[p] \notin {"rmmeta", "save"}
      BY ProcsAssumption DEF IInv, LockInv, FsSteps
    <2> QED
      BY <2>1 DEF PairInv
  <1> QED
    BY <1>1, <1>2, <1>3, Invariance, PTL DEF Spec

----------------------------------------------------------------------------
(* Sums over finite sets *)

\* The sum of the values of h on S, as Size and SizeOf compute it.
Total(h, S) == MapThenSumSet(LAMBDA x : h[x], S)

Pick(s) == CHOOSE x \in s : TRUE

\* g sums h over the subsets of S, in the order in which Pick takes the elements.
Adds(g, h, S) ==
    \A s \in SUBSET S : g[s] = IF s = {} THEN 0 ELSE h[Pick(s)] + g[s \ {Pick(s)}]

\* A set of numbers that is not empty has a least one.
LEMMA Least == ASSUME NEW T, T \subseteq Nat, T # {} PROVE \E n \in T : \A m \in T : n <= m
  <1>1. PICK n \in T : \A m \in T : ~(<<m, n>> \in OpToRel(<, Nat))
    BY NatLessThanWellFounded, WFMin, Zenon
  <1>2. \A m \in T : ~(m < n)
    BY <1>1 DEF OpToRel
  <1> QED
    BY <1>2

\* The element that is picked belongs to the set.
LEMMA PickIn == ASSUME NEW s, s # {} PROVE Pick(s) \in s
  BY DEF Pick

\* Taking an element out of a finite set leaves one element fewer.
LEMMA OneLess ==
    ASSUME NEW S, IsFiniteSet(S), NEW s \in SUBSET S, NEW x \in s
    PROVE  /\ s \ {x} \in SUBSET S /\ IsFiniteSet(s)
           /\ Cardinality(s) \in Nat /\ Cardinality(s) > 0
           /\ Cardinality(s \ {x}) \in Nat /\ Cardinality(s \ {x}) = Cardinality(s) - 1
  <1>1. IsFiniteSet(s)
    BY FS_Subset
  <1>2. IsFiniteSet(s \ {x}) /\ Cardinality(s \ {x}) = Cardinality(s) - 1
    BY <1>1, FS_RemoveElement
  <1>3. Cardinality(s) \in Nat /\ Cardinality(s \ {x}) \in Nat
    BY <1>1, <1>2, FS_CardinalityType
  <1> QED
    BY <1>1, <1>2, <1>3

\* A collection of finite sets that is not empty has one with the fewest elements.
LEMMA Fewest ==
    ASSUME NEW S, IsFiniteSet(S), NEW B \in SUBSET SUBSET S, B # {}
    PROVE  \E r \in B : \A x \in r : r \ {x} \notin B
  <1> DEFINE T == {Cardinality(r) : r \in B}
  <1>1. T \subseteq Nat /\ T # {}
    BY FS_Subset, FS_CardinalityType
  <1>2. PICK n \in T : \A m \in T : n <= m
    <2> HIDE DEF T
    <2> QED
      BY <1>1, Least
  <1>3. PICK r \in B : Cardinality(r) = n
    BY <1>2
  <1>4. ASSUME NEW x \in r, r \ {x} \in B PROVE FALSE
    <2>1. Cardinality(r \ {x}) \in T
      BY <1>4
    <2>2. r \in SUBSET S
      OBVIOUS
    <2>3. Cardinality(r) \in Nat /\ Cardinality(r \ {x}) = Cardinality(r) - 1
      BY <2>2, OneLess
    <2> HIDE DEF T
    <2> QED
      BY <1>2, <1>3, <2>1, <2>3
  <1> QED
    BY <1>3, <1>4

\* There is a sum: on the sets of at most n elements, for every n.
LEMMA SumExists ==
    ASSUME NEW S, IsFiniteSet(S), NEW h, \A x \in S : h[x] \in Nat
    PROVE  \E g : g \in [SUBSET S -> Nat] /\ Adds(g, h, S)
  <1> DEFINE Part(n) == {s \in SUBSET S : Cardinality(s) <= n}
             Sums(g, n) ==
               /\ g \in [Part(n) -> Nat]
               /\ \A s \in Part(n) : g[s] = IF s = {} THEN 0 ELSE h[Pick(s)] + g[s \ {Pick(s)}]
             T == {n \in Nat : ~\E g : Sums(g, n)}
  <1>0. \A s \in SUBSET S : Cardinality(s) \in Nat /\ (Cardinality(s) = 0 <=> s = {})
    BY FS_Subset, FS_CardinalityType, FS_EmptySet
  <1>1. T = {}
    <2> SUFFICES ASSUME T # {} PROVE FALSE
      OBVIOUS
    <2>1. PICK n \in T : \A m \in T : n <= m
      <3>1. T \subseteq Nat
        OBVIOUS
      <3> HIDE DEF T
      <3> QED
        BY <3>1, Least
    <2>2. CASE n = 0
      <3> DEFINE g == [s \in Part(0) |-> 0]
      <3>1. \A s \in Part(0) : s = {}
        BY <1>0
      <3> HIDE DEF Part
      <3>2. Sums(g, 0)
        BY <3>1
      <3> QED
        BY <2>1, <2>2, <3>2
    <2>3. CASE n # 0
      <3>0. n \in Nat /\ n - 1 \in Nat
        BY <2>1, <2>3
      <3>1. n \in Nat /\ n - 1 \in Nat /\ n - 1 \notin T
        <4> HIDE DEF T
        <4> QED
          BY <2>1, <3>0
      <3>2. PICK f : Sums(f, n - 1)
        BY <3>1
      <3> DEFINE g == [s \in Part(n) |-> IF s \in Part(n - 1) THEN f[s]
                                         ELSE h[Pick(s)] + f[s \ {Pick(s)}]]
      <3>3. \A s \in Part(n) : s # {} => h[Pick(s)] \in Nat /\ s \ {Pick(s)} \in Part(n - 1)
        <4> SUFFICES ASSUME NEW s \in Part(n), s # {}
                     PROVE  h[Pick(s)] \in Nat /\ s \ {Pick(s)} \in Part(n - 1)
          OBVIOUS
        <4>1. s \in SUBSET S /\ Cardinality(s) <= n /\ Pick(s) \in s
          BY PickIn
        <4>2. s \ {Pick(s)} \in SUBSET S /\ Cardinality(s \ {Pick(s)}) = Cardinality(s) - 1 /\ Cardinality(s) \in Nat
          BY <4>1, OneLess
        <4>3. Cardinality(s \ {Pick(s)}) <= n - 1
          BY <3>1, <4>1, <4>2
        <4> QED
          BY <4>1, <4>2, <4>3
      <3>4. {} \in Part(n - 1)
        BY <1>0, <3>1
      <3>5. \A s \in Part(n - 1) : s \in Part(n)
        BY <1>0, <3>1
      <3>6. /\ f \in [Part(n - 1) -> Nat]
            /\ \A s \in Part(n - 1) : f[s] = IF s = {} THEN 0 ELSE h[Pick(s)] + f[s \ {Pick(s)}]
        BY <3>2
      <3> HIDE DEF T, Part
      <3>7. \A s \in Part(n) : g[s] = IF s = {} THEN 0 ELSE h[Pick(s)] + f[s \ {Pick(s)}]
        BY <3>4, <3>6
      <3>8. \A s \in Part(n) : g[s] \in Nat
        <4> HIDE DEF g
        <4>1. ASSUME NEW s \in Part(n), s # {} PROVE g[s] \in Nat
          <5>1. f[s \ {Pick(s)}] \in Nat /\ h[Pick(s)] \in Nat
            BY <3>3, <3>6, <4>1
          <5> QED
            BY <3>7, <4>1, <5>1
        <4>2. ASSUME NEW s \in Part(n), s = {} PROVE g[s] \in Nat
          BY <3>7, <4>2
        <4> QED
          BY <4>1, <4>2
      <3>9. g \in [Part(n) -> Nat]
        BY <3>8
      <3>10. \A s \in Part(n - 1) : g[s] = f[s]
        BY <3>5
      <3> HIDE DEF g
      <3>11. \A s \in Part(n) : g[s] = IF s = {} THEN 0 ELSE h[Pick(s)] + g[s \ {Pick(s)}]
        BY <3>3, <3>7, <3>10
      <3> QED
        BY <2>1, <3>9, <3>11 DEF T
    <2> QED
      BY <2>2, <2>3
  <1>2. Cardinality(S) \in Nat
    BY FS_CardinalityType
  <1>3. PICK g : Sums(g, Cardinality(S))
    BY <1>1, <1>2
  <1>4. Part(Cardinality(S)) = SUBSET S
    BY FS_Subset
  <1> HIDE DEF Part
  <1>5. g \in [SUBSET S -> Nat] /\ Adds(g, h, S)
    BY <1>3, <1>4 DEF Adds
  <1> QED
    BY <1>5

\* There is only one.
LEMMA SumUnique ==
    ASSUME NEW S, IsFiniteSet(S), NEW h, NEW f, NEW g, Adds(f, h, S), Adds(g, h, S),
           NEW s \in SUBSET S
    PROVE  f[s] = g[s]
  <1> DEFINE B == {r \in SUBSET S : f[r] # g[r]}
  <1>1. B = {}
    <2> SUFFICES ASSUME B # {} PROVE FALSE
      OBVIOUS
    <2>1. PICK r \in B : \A x \in r : r \ {x} \notin B
      <3>1. B \in SUBSET SUBSET S
        OBVIOUS
      <3> HIDE DEF B
      <3> QED
        BY <3>1, Fewest
    <2>2. /\ f[r] = IF r = {} THEN 0 ELSE h[Pick(r)] + f[r \ {Pick(r)}]
          /\ g[r] = IF r = {} THEN 0 ELSE h[Pick(r)] + g[r \ {Pick(r)}]
      BY <2>1 DEF Adds
    <2>3. r # {}
      BY <2>1, <2>2
    <2>4. Pick(r) \in r
      BY <2>3, PickIn
    <2>5. r \ {Pick(r)} \in SUBSET S /\ r \ {Pick(r)} \notin B
      BY <2>1, <2>4
    <2>6. f[r \ {Pick(r)}] = g[r \ {Pick(r)}]
      BY <2>5
    <2> QED
      BY <2>1, <2>2, <2>6
  <1> QED
    BY <1>1

\* Any element may be taken out first.
LEMMA SumAny ==
    ASSUME NEW S, IsFiniteSet(S), NEW h, \A y \in S : h[y] \in Nat,
           NEW g \in [SUBSET S -> Nat], Adds(g, h, S), NEW s \in SUBSET S, NEW x \in s
    PROVE  g[s] = h[x] + g[s \ {x}]
  <1> DEFINE B == {r \in SUBSET S : \E y \in r : g[r] # h[y] + g[r \ {y}]}
  <1>1. B = {}
    <2> SUFFICES ASSUME B # {} PROVE FALSE
      OBVIOUS
    <2>1. PICK r \in B : \A y \in r : r \ {y} \notin B
      <3>1. B \in SUBSET SUBSET S
        OBVIOUS
      <3> HIDE DEF B
      <3> QED
        BY <3>1, Fewest
    <2>2. PICK y \in r : g[r] # h[y] + g[r \ {y}]
      BY <2>1
    <2> DEFINE c == Pick(r)
    <2>3. c \in r /\ r \in SUBSET S
      BY <2>1, <2>2, PickIn
    <2>4. g[r] = h[c] + g[r \ {c}]
      BY <2>2, <2>3 DEF Adds
    <2>5. c # y
      BY <2>2, <2>4
    <2> HIDE DEF c
    <2>6. r \ {c} \in SUBSET S /\ r \ {c} \notin B /\ y \in r \ {c}
      BY <2>1, <2>3, <2>5
    <2>7. r \ {y} \in SUBSET S /\ r \ {y} \notin B /\ c \in r \ {y}
      BY <2>1, <2>3, <2>5
    <2>10. (r \ {c}) \ {y} = (r \ {y}) \ {c} /\ (r \ {y}) \ {c} \in SUBSET S
      BY <2>3
    <2>8. g[r \ {c}] = h[y] + g[(r \ {y}) \ {c}]
      BY <2>6, <2>10
    <2>9. g[r \ {y}] = h[c] + g[(r \ {y}) \ {c}]
      BY <2>7
    <2>11. g[(r \ {y}) \ {c}] \in Nat /\ h[c] \in Nat /\ h[y] \in Nat
      BY <2>3, <2>10
    <2>12. g[r] = h[y] + g[r \ {y}]
      BY <2>4, <2>8, <2>9, <2>11
    <2> QED
      BY <2>2, <2>12
  <1> QED
    BY <1>1

\* MapThenSumSet computes the sum.
LEMMA TotalIs ==
    ASSUME NEW S, IsFiniteSet(S), NEW h, \A x \in S : h[x] \in Nat,
           NEW g \in [SUBSET S -> Nat], Adds(g, h, S)
    PROVE  Total(h, S) = g[S]
  <1> DEFINE F(f) == [s \in SUBSET S |-> IF s = {} THEN 0
                         ELSE h[CHOOSE x \in s : TRUE] + f[s \ {CHOOSE x \in s : TRUE}]]
             it == CHOOSE f : f = F(f)
  <1>1. Total(h, S) = it[S]
    BY DEF Total, MapThenSumSet, MapThenFoldSet
  <1>2. g = F(g)
    BY DEF Adds, Pick
  <1>3. it = F(it)
    BY <1>2
  <1> HIDE DEF it
  <1>4. Adds(it, h, S)
    BY <1>3 DEF Adds, Pick
  <1> QED
    BY <1>1, <1>4, SumUnique

\* What a sum is: nothing for no elements, else any element and the rest.
LEMMA TotalRule ==
    ASSUME NEW S, IsFiniteSet(S), NEW h, \A x \in S : h[x] \in Nat
    PROVE  /\ Total(h, S) \in Nat
           /\ S = {} => Total(h, S) = 0
           /\ \A x \in S : Total(h, S) = h[x] + Total(h, S \ {x})
  <1>1. PICK g : g \in [SUBSET S -> Nat] /\ Adds(g, h, S)
    BY SumExists
  <1>2. Total(h, S) = g[S]
    BY <1>1, TotalIs
  <1>3. S = {} => g[S] = 0
    BY <1>1 DEF Adds
  <1>4. ASSUME NEW x \in S PROVE g[S] = h[x] + Total(h, S \ {x})
    <2> DEFINE R == S \ {x}
    <2>1. R \in SUBSET S /\ IsFiniteSet(R)
      BY FS_Subset
    <2>2. PICK f : f \in [SUBSET R -> Nat] /\ Adds(f, h, R)
      BY <2>1, SumExists
    <2>3. Total(h, R) = f[R]
      BY <2>1, <2>2, TotalIs
    <2>4. Adds(g, h, R)
      BY <1>1, <2>1 DEF Adds
    <2>5. f[R] = g[R]
      <3> HIDE DEF R
      <3> QED
        BY <2>1, <2>2, <2>4, SumUnique
    <2>6. g[S] = h[x] + g[S \ {x}]
      BY <1>1, SumAny
    <2> QED
      BY <2>3, <2>5, <2>6
  <1> QED
    BY <1>1, <1>2, <1>3, <1>4

\* Terms that do not grow have a sum that does not grow.
LEMMA TotalMonotone ==
    ASSUME NEW S, IsFiniteSet(S), NEW h, \A x \in S : h[x] \in Nat,
           NEW hh, \A x \in S : hh[x] \in Nat, \A x \in S : h[x] <= hh[x]
    PROVE  Total(h, S) <= Total(hh, S)
  <1> DEFINE B == {r \in SUBSET S : ~(Total(h, r) <= Total(hh, r))}
  <1>1. B = {}
    <2> SUFFICES ASSUME B # {} PROVE FALSE
      OBVIOUS
    <2>1. PICK r \in B : \A y \in r : r \ {y} \notin B
      <3>1. B \in SUBSET SUBSET S
        OBVIOUS
      <3> HIDE DEF B
      <3> QED
        BY <3>1, Fewest
    <2>2. r \in SUBSET S /\ IsFiniteSet(r) /\ ~(Total(h, r) <= Total(hh, r))
      BY <2>1, FS_Subset
    <2>3. /\ Total(h, r) \in Nat /\ (r = {} => Total(h, r) = 0)
          /\ \A x \in r : Total(h, r) = h[x] + Total(h, r \ {x})
      BY <2>2, TotalRule
    <2>4. /\ Total(hh, r) \in Nat /\ (r = {} => Total(hh, r) = 0)
          /\ \A x \in r : Total(hh, r) = hh[x] + Total(hh, r \ {x})
      BY <2>2, TotalRule
    <2>5. PICK y \in r : TRUE
      BY <2>2, <2>3, <2>4
    <2>6. r \ {y} \in SUBSET S /\ r \ {y} \notin B /\ IsFiniteSet(r \ {y})
      BY <2>1, <2>2, FS_Subset
    <2>7. Total(h, r \ {y}) <= Total(hh, r \ {y})
      BY <2>6
    <2>8. Total(h, r \ {y}) \in Nat
      BY <2>6, TotalRule
    <2>9. Total(hh, r \ {y}) \in Nat
      BY <2>6, TotalRule
    <2>10. h[y] \in Nat /\ hh[y] \in Nat /\ h[y] <= hh[y]
      BY <2>2
    <2>11. Total(h, r) <= Total(hh, r)
      BY <2>3, <2>4, <2>7, <2>8, <2>9, <2>10
    <2> QED
      BY <2>2, <2>11
  <1> QED
    BY <1>1

\* Equal terms have equal sums.
LEMMA TotalEqual ==
    ASSUME NEW S, IsFiniteSet(S), NEW h, \A x \in S : h[x] \in Nat,
           NEW hh, \A x \in S : hh[x] = h[x]
    PROVE  Total(hh, S) = Total(h, S)
  <1>1. Total(h, S) <= Total(hh, S) /\ Total(hh, S) <= Total(h, S)
    BY TotalMonotone
  <1>2. Total(h, S) \in Nat
    BY TotalRule
  <1>3. Total(hh, S) \in Nat
    BY TotalRule
  <1> QED
    BY <1>1, <1>2, <1>3

----------------------------------------------------------------------------
(* The room on disk *)

Lengths == [k \in Keys |-> data[k].size]

KeysOf(items) == {i.key : i \in items}

\* Once the entries in K are gone, p's data fits or there is nothing else.
Room(p, K) ==
    \/ Total(Lengths, Keys \ K) + loc[p].size <= MaxSize
    \/ \A k \in Keys \ K : data[k].ver = 0

\* Only a Put about to rename has a temporary file, and that has its length.
TmpInv ==
    /\ \A k \in Keys : data[k].ver = 0 => data[k].size = 0
    /\ (\A p \in Procs : pc[p] # "rename") => \A k \in Keys : tmp[k] = 0
    /\ \A p \in Procs : pc[p] = "rename" =>
          \A k \in Keys : tmp[k] = IF k = loc[p].key THEN loc[p].size ELSE 0

\* What the eviction Manager.Put runs has still to remove.  While it collects, the
\* files fit in what it found missing at the start, whichever of the items found
\* so far are counted by their recorded and not by their present length.
RoomInv(p) ==
    /\ pc[p] \in {"size", "scan"} => loc[p].found = {}
    /\ pc[p] = "scan" => Total(Lengths, Keys) + loc[p].size <= need[p] + MaxSize
    /\ pc[p] = "collect" =>
          /\ IsFiniteSet(loc[p].found)
          /\ loc[p].todo \cap KeysOf(loc[p].found) = {}
          /\ \A k \in Keys : data[k].ver # 0 => k \in loc[p].todo \cup KeysOf(loc[p].found)
          /\ \A C \in SUBSET loc[p].found :
                SizeOf(C) + Total(Lengths, Keys \ KeysOf(C)) + loc[p].size <= need[p] + MaxSize
    /\ pc[p] = "victims" => Room(p, loc[p].todo)
    /\ pc[p] \in {"rmdata", "rmmeta"} => Room(p, loc[p].todo \cup {loc[p].cur})
    /\ pc[p] \in {"write", "rename"} => Room(p, {})

\* The data files fit, or there is at most one.
FitInv ==
    \/ Total(Lengths, Keys) <= MaxSize
    \/ \A j, k \in Keys : data[j].ver # 0 /\ data[k].ver # 0 => j = k

SpaceInv ==
    faults = 0 /\ MaxSize > 0 =>
        /\ TmpInv
        /\ \A p \in Procs : op[p] = "put" => RoomInv(p)
        /\ FitInv

NeedOK == need \in [Procs -> Int]

\* FileSystemBackend.Size is the sum of the lengths of the files.
LEMMA SizeIs ==
    ASSUME DiskOK
    PROVE  Size = Total([k \in Keys |-> data[k].size + tmp[k]], Keys) /\ Size \in Nat
  <1> DEFINE h == [k \in Keys |-> data[k].size + tmp[k]]
             F(f) == [s \in SUBSET Keys |-> IF s = {} THEN 0
                         ELSE data[CHOOSE x \in s : TRUE].size + tmp[CHOOSE x \in s : TRUE]
                                + f[s \ {CHOOSE x \in s : TRUE}]]
             it == CHOOSE f : f = F(f)
  <1>1. Size = it[Keys]
    BY DEF Size, MapThenSumSet, MapThenFoldSet
  <1>2. \A k \in Keys : h[k] \in Nat /\ h[k] = data[k].size + tmp[k]
    BY DEF DiskOK, DataFiles
  <1>3. \A s \in SUBSET Keys : s # {} => h[Pick(s)] = data[Pick(s)].size + tmp[Pick(s)]
    BY <1>2, PickIn
  <1> HIDE DEF h
  <1>4. PICK g : g \in [SUBSET Keys -> Nat] /\ Adds(g, h, Keys)
    BY <1>2, KeysAssumption, SumExists
  <1>5. g = F(g)
    BY <1>3, <1>4 DEF Adds, Pick
  <1>6. it = F(it)
    BY <1>5
  <1> HIDE DEF it
  <1>7. Adds(it, h, Keys)
    BY <1>3, <1>6 DEF Adds, Pick
  <1>8. it[Keys] = g[Keys]
    BY <1>4, <1>7, KeysAssumption, SumUnique
  <1>9. Total(h, Keys) = g[Keys]
    BY <1>2, <1>4, KeysAssumption, TotalIs
  <1> QED
    BY <1>1, <1>4, <1>8, <1>9 DEF h

\* The space a set of items stands for is the sum of their lengths.
LEMMA SizeOfIs ==
    ASSUME NEW C \in SUBSET Items, IsFiniteSet(C)
    PROVE  SizeOf(C) = Total([i \in Items |-> i.size], C)
  <1> DEFINE h == [i \in Items |-> i.size]
             F(f) == [s \in SUBSET C |-> IF s = {} THEN 0
                         ELSE (CHOOSE x \in s : TRUE).size + f[s \ {CHOOSE x \in s : TRUE}]]
             it == CHOOSE f : f = F(f)
  <1>1. SizeOf(C) = it[C]
    BY DEF SizeOf, MapThenSumSet, MapThenFoldSet
  <1>2. \A i \in C : h[i] \in Nat /\ h[i] = i.size
    BY DEF Items
  <1>3. \A s \in SUBSET C : s # {} => h[Pick(s)] = Pick(s).size
    BY <1>2, PickIn
  <1> HIDE DEF h
  <1>4. PICK g : g \in [SUBSET C -> Nat] /\ Adds(g, h, C)
    BY <1>2, SumExists
  <1>5. g = F(g)
    BY <1>3, <1>4 DEF Adds, Pick
  <1>6. it = F(it)
    BY <1>5
  <1> HIDE DEF it
  <1>7. Adds(it, h, C)
    BY <1>3, <1>6 DEF Adds, Pick
  <1>8. it[C] = g[C]
    BY <1>4, <1>7, SumUnique
  <1>9. Total(h, C) = g[C]
    BY <1>2, <1>4, TotalIs
  <1> QED
    BY <1>1, <1>8, <1>9 DEF h

\* One item more stands for its length more.
LEMMA SizeOfRule ==
    ASSUME NEW C \in SUBSET Items, IsFiniteSet(C)
    PROVE  /\ SizeOf(C) \in Nat
           /\ C = {} => SizeOf(C) = 0
           /\ \A i \in C : SizeOf(C) = i.size + SizeOf(C \ {i})
  <1> DEFINE h == [i \in Items |-> i.size]
  <1>1. \A i \in Items : h[i] = i.size /\ h[i] \in Nat
    BY DEF Items
  <1> HIDE DEF h
  <1>2. SizeOf(C) = Total(h, C)
    BY SizeOfIs DEF h
  <1>3. \A i \in C : h[i] \in Nat
    BY <1>1
  <1>4. /\ Total(h, C) \in Nat
        /\ C = {} => Total(h, C) = 0
        /\ \A i \in C : Total(h, C) = h[i] + Total(h, C \ {i})
    BY <1>3, TotalRule
  <1>5. ASSUME NEW i \in C PROVE SizeOf(C \ {i}) = Total(h, C \ {i})
    <2>1. C \ {i} \in SUBSET Items /\ IsFiniteSet(C \ {i})
      BY FS_Subset
    <2> QED
      BY <2>1, SizeOfIs DEF h
  <1> QED
    BY <1>1, <1>2, <1>4, <1>5

\* The lengths of the data files add up.
LEMMA LengthsRule ==
    ASSUME DiskOK, NEW K \in SUBSET Keys
    PROVE  /\ Total(Lengths, K) \in Nat
           /\ K = {} => Total(Lengths, K) = 0
           /\ \A k \in K : Total(Lengths, K) = data[k].size + Total(Lengths, K \ {k})
  <1>1. IsFiniteSet(K)
    BY KeysAssumption, FS_Subset
  <1>2. \A k \in K : Lengths[k] \in Nat /\ Lengths[k] = data[k].size
    BY DEF Lengths, DiskOK, DataFiles
  <1> QED
    BY <1>1, <1>2, TotalRule

Shrinks == \A k \in Keys : data'[k] = data[k] \/ data'[k] = NoFile

\* Removing files takes nothing.
LEMMA ShrinkTotal ==
    ASSUME DiskOK, DiskOK', Shrinks, NEW K \in SUBSET Keys
    PROVE  /\ Total(Lengths', K) <= Total(Lengths, K)
           /\ Total(Lengths', K) \in Nat /\ Total(Lengths, K) \in Nat
  <1>1. IsFiniteSet(K)
    BY KeysAssumption, FS_Subset
  <1>2. \A k \in K : Lengths[k] \in Nat /\ Lengths[k] = data[k].size
    BY DEF Lengths, DiskOK, DataFiles
  <1>3. \A k \in K : Lengths'[k] \in Nat /\ Lengths'[k] = data'[k].size
    BY DEF Lengths, DiskOK, DataFiles
  <1>4. \A k \in K : Lengths'[k] <= Lengths[k]
    BY <1>2, <1>3 DEF Shrinks, NoFile
  <1>5. Total(Lengths', K) <= Total(Lengths, K)
    BY <1>1, <1>2, <1>3, <1>4, TotalMonotone
  <1>6. Total(Lengths', K) \in Nat
    BY <1>1, <1>3, TotalRule
  <1>7. Total(Lengths, K) \in Nat
    BY <1>1, <1>2, TotalRule
  <1> QED
    BY <1>5, <1>6, <1>7

\* Room that is enough stays enough when files are removed.
LEMMA ShrinkRoom ==
    ASSUME DiskOK, DiskOK', Shrinks, NEW p \in Procs, loc[p] \in Locals,
           loc'[p].size = loc[p].size, NEW K, Room(p, K)
    PROVE  \/ Total(Lengths', Keys \ K) + loc'[p].size <= MaxSize
           \/ \A k \in Keys \ K : data'[k].ver = 0
  <1>1. CASE \A k \in Keys \ K : data[k].ver = 0
    BY <1>1 DEF Shrinks, NoFile
  <1>2. CASE Total(Lengths, Keys \ K) + loc[p].size <= MaxSize
    <2>1. /\ Total(Lengths', Keys \ K) <= Total(Lengths, Keys \ K)
          /\ Total(Lengths', Keys \ K) \in Nat /\ Total(Lengths, Keys \ K) \in Nat
      <3>1. Keys \ K \in SUBSET Keys
        OBVIOUS
      <3> QED
        BY <3>1, ShrinkTotal
    <2>2. loc[p].size \in Nat /\ MaxSize \in Nat
      BY BoundsAssumption DEF Locals
    <2>3. Total(Lengths', Keys \ K) + loc'[p].size <= MaxSize
      BY <1>2, <2>1, <2>2
    <2> QED
      BY <2>3
  <1> QED
    BY <1>1, <1>2 DEF Room

\* The others' Put is where it was, and no file has grown.
LEMMA ShrinkRoomInv ==
    ASSUME DiskOK, DiskOK', Shrinks, NeedOK, NEW p \in Procs, loc[p] \in Locals,
           pc'[p] = pc[p], loc'[p] = loc[p], need'[p] = need[p], RoomInv(p)
    PROVE  RoomInv(p)'
  <1>0. loc[p].size \in Nat /\ MaxSize \in Nat /\ need[p] \in Int /\ loc[p].found \in SUBSET Items
    BY BoundsAssumption DEF Locals, NeedOK
  <1>1. ASSUME pc[p] = "scan"
        PROVE  Total(Lengths', Keys) + loc[p].size <= need[p] + MaxSize
    <2>1. /\ Total(Lengths', Keys) <= Total(Lengths, Keys)
          /\ Total(Lengths', Keys) \in Nat /\ Total(Lengths, Keys) \in Nat
      <3>1. Keys \in SUBSET Keys
        OBVIOUS
      <3> QED
        BY <3>1, ShrinkTotal
    <2>2. Total(Lengths, Keys) + loc[p].size <= need[p] + MaxSize
      BY <1>1 DEF RoomInv
    <2> QED
      BY <1>0, <2>1, <2>2
  <1>2. ASSUME pc[p] = "collect"
        PROVE  /\ IsFiniteSet(loc[p].found)
               /\ loc[p].todo \cap KeysOf(loc[p].found) = {}
               /\ \A k \in Keys : data'[k].ver # 0 => k \in loc[p].todo \cup KeysOf(loc[p].found)
               /\ \A C \in SUBSET loc[p].found :
                     SizeOf(C) + Total(Lengths', Keys \ KeysOf(C)) + loc[p].size <= need[p] + MaxSize
    <2>1. IsFiniteSet(loc[p].found) /\ loc[p].todo \cap KeysOf(loc[p].found) = {}
      BY <1>2 DEF RoomInv
    <2>2. \A k \in Keys : data'[k].ver # 0 => k \in loc[p].todo \cup KeysOf(loc[p].found)
      BY <1>2 DEF RoomInv, Shrinks, NoFile
    <2>3. ASSUME NEW C \in SUBSET loc[p].found
          PROVE  SizeOf(C) + Total(Lengths', Keys \ KeysOf(C)) + loc[p].size <= need[p] + MaxSize
      <3>1. SizeOf(C) + Total(Lengths, Keys \ KeysOf(C)) + loc[p].size <= need[p] + MaxSize
        BY <1>2 DEF RoomInv
      <3>2. SizeOf(C) \in Nat
        <4>1. C \in SUBSET Items /\ IsFiniteSet(C)
          BY <1>0, <2>1, FS_Subset
        <4> QED
          BY <4>1, SizeOfRule
      <3>3. /\ Total(Lengths', Keys \ KeysOf(C)) <= Total(Lengths, Keys \ KeysOf(C))
            /\ Total(Lengths', Keys \ KeysOf(C)) \in Nat /\ Total(Lengths, Keys \ KeysOf(C)) \in Nat
        <4>1. Keys \ KeysOf(C) \in SUBSET Keys
          OBVIOUS
        <4> QED
          BY <4>1, ShrinkTotal
      <3> QED
        BY <1>0, <3>1, <3>2, <3>3
    <2> QED
      BY <2>1, <2>2, <2>3
  <1>3. ASSUME NEW K, Room(p, K)
        PROVE  \/ Total(Lengths', Keys \ K) + loc[p].size <= MaxSize
               \/ \A k \in Keys \ K : data'[k].ver = 0
    BY <1>3, ShrinkRoom
  <1>4. pc[p] = "victims" => Room(p, loc[p].todo)'
    BY <1>3 DEF RoomInv, Room
  <1>5. pc[p] \in {"rmdata", "rmmeta"} => Room(p, loc[p].todo \cup {loc[p].cur})'
    BY <1>3 DEF RoomInv, Room
  <1>6. pc[p] \in {"write", "rename"} => Room(p, {})'
    BY <1>3 DEF RoomInv, Room
  <1>7. pc[p] \in {"size", "scan"} => loc[p].found = {}
    BY DEF RoomInv
  <1> QED
    BY <1>1, <1>2, <1>4, <1>5, <1>6, <1>7 DEF RoomInv

\* Files that fit still do when some are removed.
LEMMA ShrinkFit ==
    ASSUME DiskOK, DiskOK', Shrinks, FitInv
    PROVE  FitInv'
  <1>1. CASE \A j, k \in Keys : data[j].ver # 0 /\ data[k].ver # 0 => j = k
    BY <1>1 DEF FitInv, Shrinks, NoFile
  <1>2. CASE Total(Lengths, Keys) <= MaxSize
    <2>1. /\ Total(Lengths', Keys) <= Total(Lengths, Keys)
          /\ Total(Lengths', Keys) \in Nat /\ Total(Lengths, Keys) \in Nat
      <3>1. Keys \in SUBSET Keys
        OBVIOUS
      <3> QED
        BY <3>1, ShrinkTotal
    <2>2. Total(Lengths', Keys) <= MaxSize
      BY <1>2, <2>1, BoundsAssumption
    <2> QED
      BY <2>2 DEF FitInv
  <1> QED
    BY <1>1, <1>2 DEF FitInv

\* The space an eviction has to free is a number, and its own.
LEMMA NeedStep ==
    ASSUME IInv, NeedOK, NEW p \in Procs, Step(p) \/ Fault(p)
    PROVE  NeedOK' /\ \A q \in Procs \ {p} : need'[q] = need[q]
  <1>0. DiskOK /\ Size \in Nat /\ loc[p].size \in Nat /\ MaxSize \in Nat
    BY SizeIs, BoundsAssumption DEF IInv, TypeOK, ThreadsOK, Locals
  <1>1. ASSUME NEW n \in Int, need' = [need EXCEPT ![p] = n]
        PROVE  NeedOK' /\ \A q \in Procs \ {p} : need'[q] = need[q]
    BY <1>1 DEF NeedOK
  <1>2. CASE UNCHANGED need
    BY <1>2 DEF NeedOK
  <1>3. ASSUME NEW n \in Nat, MakeRoom(p, n)
        PROVE  NeedOK' /\ \A q \in Procs \ {p} : need'[q] = need[q]
    <2>1. n + loc[p].size - MaxSize \in Int
      BY <1>0
    <2> QED
      BY <1>1, <1>2, <1>3, <2>1 DEF MakeRoom, Goto
  <1>4. CASE PutSize(p) \/ PutSizeFails(p)
    BY <1>0, <1>3, <1>4 DEF PutSize, PutSizeFails
  <1>5. CASE EvictSize(p)
    <2>1. Size - (MaxSize * 9) \div 10 \in Int
      BY <1>0
    <2> QED
      BY <1>1, <1>2, <1>5, <2>1 DEF EvictSize
  <1>6. CASE \E r : Finish(p, r)
    <2>1. need' = [need EXCEPT ![p] = 0] /\ 0 \in Int
      BY <1>6 DEF Finish
    <2> QED
      BY <1>1, <2>1
  <1>7. CASE \E r : AfterRemove(p, r)
    BY <1>2, <1>6, <1>7 DEF AfterRemove, Goto
  <1>8. CASE Step(p)
    BY <1>2, <1>4, <1>5, <1>6, <1>7, <1>8
    DEF Step, GetMiss, GetHit, GetExpired, RemoveData, RemoveMeta, Clear, Write, Rename, Save,
        Scan, SweepCheck, Collect, NextVictim, SweepDone, Select, VictimsDone, Goto
  <1>9. CASE Fault(p)
    BY <1>2, <1>4, <1>6, <1>7, <1>9
    DEF Fault, PurgeDataFails, RemoveDataFails, RemoveMetaFails, ClearFails, WriteFails,
        RenameFails, SaveFails, EvictSizeFails, GetFails, GetReadFails, ExistsFails, SkipFails, Goto
  <1> QED
    BY <1>8, <1>9

\* Every step keeps the space to free a number.
LEMMA NeedType == ASSUME IInv, NeedOK, Next PROVE NeedOK'
  <1>1. ASSUME NEW p \in Procs, Call(p) PROVE NeedOK'
    BY <1>1 DEF NeedOK, Call, ClearBegin, EvictBegin, GetBegin, DeleteBegin, Exists, PutBegin, Enter
  <1>2. ASSUME NEW p \in Procs, Step(p) \/ Fault(p) PROVE NeedOK'
    BY <1>2, NeedStep
  <1>3. CASE \/ \E g \in Touchers : TouchStep(g) \/ TouchFault(g)
             \/ \E v \in 1..MaxPuts : Elapse(v)
    BY <1>3 DEF NeedOK, TouchStep, TouchFault, TouchLoad, TouchSave, TouchLoadFails,
                TouchSaveFails, Elapse
  <1>4. CASE Crash
    BY <1>4 DEF NeedOK, Crash
  <1> QED
    BY <1>1, <1>2, <1>3, <1>4 DEF Next

\* Without faults every step keeps temporary files to the Put about to rename.
LEMMA TmpStep ==
    ASSUME IInv, TmpInv, Next, faults' = 0
    PROVE  TmpInv'
  <1>0. DiskOK /\ ThreadsOK /\ LockInv /\ StepInv /\ VersionInv /\ ~Faulty
    BY NoFaultYet DEF IInv, TypeOK
  <1>1. ASSUME UNCHANGED tmp, Shrinks,
               \A q \in Procs : pc'[q] = "rename" \/ pc[q] = "rename" =>
                   pc'[q] = pc[q] /\ loc'[q] = loc[q]
        PROVE  TmpInv'
    BY <1>1 DEF TmpInv, Shrinks, NoFile
  <1>2. ASSUME NEW p \in Procs, Call(p) PROVE TmpInv'
    <2>1. UNCHANGED <<data, tmp>>
      BY <1>2 DEF Call, ClearBegin, EvictBegin, GetBegin, DeleteBegin, Exists, PutBegin, diskvars
    <2>2. \A q \in Procs : pc'[q] = "rename" \/ pc[q] = "rename" =>
                   pc'[q] = pc[q] /\ loc'[q] = loc[q]
      BY <1>0, <1>2 DEF ThreadsOK, StepInv, Call, ClearBegin, EvictBegin, GetBegin, DeleteBegin,
                        Exists, PutBegin, Enter
    <2> QED
      BY <1>1, <2>1, <2>2 DEF Shrinks
  <1>3. ASSUME NEW p \in Procs, Step(p) PROVE TmpInv'
    <2>0. \A q \in Procs \ {p} : pc'[q] = pc[q] /\ loc'[q] = loc[q]
      BY <1>3, StepKeeps
    <2>1. CASE Write(p)
      <3>1. \A q \in Procs : pc[q] # "rename"
        BY <1>0, <2>1, ProcsAssumption DEF LockInv, FsSteps, Write
      <3>2. \A k \in Keys : tmp[k] = 0
        BY <3>1 DEF TmpInv
      <3>3. pc'[p] = "rename" /\ loc' = loc /\ data' = data
        BY <1>0, <2>1 DEF ThreadsOK, Write, Goto
      <3>4. \A k \in Keys : tmp'[k] = IF k = loc[p].key THEN loc[p].size ELSE 0
        BY <1>0, <2>1, <3>2 DEF DiskOK, Write
      <3>5. \A q \in Procs : pc'[q] = "rename" => q = p
        BY <2>0, <3>1
      <3> QED
        BY <3>3, <3>4, <3>5 DEF TmpInv
    <2>2. CASE Rename(p)
      <3>1. fsMu = p /\ loc[p].key \in Keys /\ pc[p] = "rename" /\ op[p] = "put"
        BY <1>0, <2>2 DEF LockInv, StepInv, Rename, At, FsSteps
      <3>2. \A q \in Procs \ {p} : pc[q] # "rename"
        BY <1>0, <3>1 DEF LockInv, FsSteps
      <3>3. pc'[p] = "save"
        BY <1>0, <2>2 DEF ThreadsOK, Rename, Goto
      <3>4. \A k \in Keys : tmp'[k] = 0
        BY <1>0, <2>2, <3>1 DEF DiskOK, Rename, TmpInv
      <3>5. \A k \in Keys : \/ data'[k] = data[k]
                            \/ data'[k] = [ver |-> loc[p].ver, size |-> loc[p].size]
        BY <1>0, <2>2, <3>1 DEF DiskOK, Rename
      <3>6. loc[p].ver # 0
        BY <1>0, <3>1 DEF VersionInv, DiskOK
      <3>7. \A k \in Keys : data'[k].ver = 0 => data'[k].size = 0
        BY <3>5, <3>6 DEF TmpInv
      <3>8. \A q \in Procs : pc'[q] # "rename"
        BY <2>0, <3>2, <3>3
      <3> QED
        BY <3>4, <3>7, <3>8 DEF TmpInv
    <2>3. CASE Clear(p)
      <3>1. \A q \in Procs : pc'[q] # "rename"
        BY <1>0, <2>3, ProcsAssumption DEF ThreadsOK, LockInv, FsSteps, Clear, Finish
      <3> QED
        BY <2>3, <3>1 DEF TmpInv, Clear, NoFile
    <2>4. CASE ~(Write(p) \/ Rename(p) \/ Clear(p))
      <3>1. UNCHANGED tmp /\ pc[p] # "rename"
        BY <1>3, <2>4 DEF Step, GetMiss, GetHit, GetExpired, RemoveData, RemoveMeta,
           PutSize, Save, EvictSize, Scan, SweepCheck,
           Collect, NextVictim, SweepDone, Select, VictimsDone, diskvars, At
      <3>2. pc'[p] # "rename"
        BY <1>0, <1>3, <2>4 DEF ThreadsOK, Step, GetMiss, GetHit, GetExpired, RemoveData,
           RemoveMeta, PutSize, Save, EvictSize, Scan, SweepCheck, AfterRemove,
           Collect, NextVictim, SweepDone, Select, VictimsDone, MakeRoom, Finish, Goto
      <3>3. Shrinks
        BY <1>3, <2>4, DiskStep DEF Shrinks
      <3> QED
        BY <1>1, <2>0, <3>1, <3>2, <3>3
    <2> QED
      BY <2>1, <2>2, <2>3, <2>4
  <1>4. ASSUME NEW p \in Procs PROVE ~Fault(p)
    BY <1>0 DEF Fault, PurgeDataFails, RemoveDataFails, RemoveMetaFails, ClearFails,
                PutSizeFails, WriteFails, RenameFails, SaveFails, EvictSizeFails,
                GetFails, GetReadFails, ExistsFails, SkipFails
  <1>5. CASE (\E g \in Touchers : TouchStep(g)) \/ (\E v \in 1..MaxPuts : Elapse(v))
    <2>1. UNCHANGED <<data, tmp, pc, loc>>
      BY <1>5 DEF TouchStep, TouchLoad, TouchSave, Elapse, diskvars
    <2> QED
      BY <1>1, <2>1 DEF Shrinks
  <1>6. CASE Crash \/ \E g \in Touchers : TouchFault(g)
    BY <1>0, <1>6 DEF Crash, TouchFault, TouchLoadFails, TouchSaveFails
  <1> QED
    BY <1>2, <1>3, <1>4, <1>5, <1>6 DEF Next

\* Outside a section of fs.mu Size is the sum of the lengths of the data files.
LEMMA SizeIsLengths ==
    ASSUME IInv, TmpInv, fsMu = NoOne
    PROVE  Size = Total(Lengths, Keys)
  <1>0. DiskOK
    BY DEF IInv, TypeOK
  <1>1. \A k \in Keys : tmp[k] = 0
    BY ProcsAssumption DEF IInv, LockInv, FsSteps, TmpInv
  <1> DEFINE h == [k \in Keys |-> data[k].size + tmp[k]]
  <1>2. \A k \in Keys : h[k] = Lengths[k] /\ Lengths[k] \in Nat
    BY <1>0, <1>1 DEF Lengths, DiskOK, DataFiles
  <1> HIDE DEF h
  <1>3. Total(h, Keys) = Total(Lengths, Keys)
    BY <1>2, KeysAssumption, TotalEqual
  <1> QED
    BY <1>0, <1>3, SizeIs DEF h

\* What collecting one more entry leaves true: its recorded length takes the place
\* of its present one.
LEMMA CollectOne ==
    ASSUME DiskOK, NeedOK, NEW p \in Procs, loc[p] \in Locals, RoomInv(p), pc[p] = "collect",
           NEW k \in Keys, k \in loc[p].todo,
           NEW i \in Items, i.key = k, i.size = data[k].size
    PROVE  /\ IsFiniteSet(loc[p].found \cup {i})
           /\ (loc[p].todo \ {k}) \cap KeysOf(loc[p].found \cup {i}) = {}
           /\ \A j \in Keys : data[j].ver # 0 =>
                 j \in (loc[p].todo \ {k}) \cup KeysOf(loc[p].found \cup {i})
           /\ \A C \in SUBSET (loc[p].found \cup {i}) :
                 SizeOf(C) + Total(Lengths, Keys \ KeysOf(C)) + loc[p].size <= need[p] + MaxSize
  <1>0. loc[p].size \in Nat /\ MaxSize \in Nat /\ need[p] \in Int /\ loc[p].found \in SUBSET Items
    BY BoundsAssumption DEF Locals, NeedOK
  <1>1. /\ IsFiniteSet(loc[p].found)
        /\ loc[p].todo \cap KeysOf(loc[p].found) = {}
        /\ \A j \in Keys : data[j].ver # 0 => j \in loc[p].todo \cup KeysOf(loc[p].found)
        /\ \A C \in SUBSET loc[p].found :
              SizeOf(C) + Total(Lengths, Keys \ KeysOf(C)) + loc[p].size <= need[p] + MaxSize
    BY DEF RoomInv
  <1>2. IsFiniteSet(loc[p].found \cup {i})
    BY <1>1, FS_AddElement
  <1>3. KeysOf(loc[p].found \cup {i}) = KeysOf(loc[p].found) \cup {k}
    BY DEF KeysOf
  <1>4. ASSUME NEW C \in SUBSET (loc[p].found \cup {i}), i \in C
        PROVE  SizeOf(C) + Total(Lengths, Keys \ KeysOf(C)) + loc[p].size <= need[p] + MaxSize
    <2> DEFINE R == C \ {i}
    <2>1. R \in SUBSET loc[p].found /\ R \in SUBSET Items /\ C \in SUBSET Items
      BY <1>0
    <2>2. IsFiniteSet(C) /\ IsFiniteSet(R)
      BY <1>2, FS_Subset
    <2>3. SizeOf(C) = i.size + SizeOf(R)
      BY <1>4, <2>1, <2>2, SizeOfRule
    <2>4. SizeOf(R) \in Nat
      <3> HIDE DEF R
      <3> QED
        BY <2>1, <2>2, SizeOfRule
    <2>5. KeysOf(C) = KeysOf(R) \cup {k}
      BY <1>4 DEF KeysOf
    <2>6. k \notin KeysOf(R)
      BY <1>1, <2>1 DEF KeysOf
    <2> DEFINE K == Keys \ KeysOf(R)
    <2>7. K \in SUBSET Keys /\ k \in K /\ Keys \ KeysOf(C) = K \ {k}
      BY <2>5, <2>6
    <2>8. SizeOf(R) + Total(Lengths, K) + loc[p].size <= need[p] + MaxSize
      BY <1>1, <2>1
    <2> HIDE DEF K, R
    <2>9. Total(Lengths, K) = data[k].size + Total(Lengths, K \ {k})
      BY <2>7, LengthsRule
    <2>10. Total(Lengths, K \ {k}) \in Nat
      <3>1. K \ {k} \in SUBSET Keys
        BY <2>7
      <3> QED
        BY <3>1, LengthsRule
    <2>11. data[k].size \in Nat
      BY DEF DiskOK, DataFiles
    <2>12. SizeOf(C) + Total(Lengths, K \ {k}) + loc[p].size
             = SizeOf(R) + Total(Lengths, K) + loc[p].size
      BY <1>0, <2>3, <2>4, <2>9, <2>10, <2>11
    <2> QED
      BY <2>7, <2>8, <2>12
  <1>5. ASSUME NEW C \in SUBSET (loc[p].found \cup {i}), i \notin C
        PROVE  SizeOf(C) + Total(Lengths, Keys \ KeysOf(C)) + loc[p].size <= need[p] + MaxSize
    <2>1. C \in SUBSET loc[p].found
      BY <1>5
    <2> QED
      BY <1>1, <2>1
  <1>6. (loc[p].todo \ {k}) \cap KeysOf(loc[p].found \cup {i}) = {}
    BY <1>1, <1>3
  <1>7. \A j \in Keys : data[j].ver # 0 =>
                 j \in (loc[p].todo \ {k}) \cup KeysOf(loc[p].found \cup {i})
    BY <1>1, <1>3
  <1> QED
    BY <1>2, <1>4, <1>5, <1>6, <1>7

\* The candidates LRUEvictionPolicy selects make the room Put needs.
LEMMA SelectRoom ==
    ASSUME DiskOK, NeedOK, NEW p \in Procs, loc[p] \in Locals, RoomInv(p), pc[p] = "collect",
           loc[p].todo = {}, NEW C \in SelectEvictionCandidates(loc[p].found, need[p])
    PROVE  Room(p, KeysOf(C))
  <1>0. loc[p].size \in Nat /\ MaxSize \in Nat /\ need[p] \in Int /\ loc[p].found \in SUBSET Items
    BY BoundsAssumption DEF Locals, NeedOK
  <1>1. C \in SUBSET loc[p].found /\ (C = loc[p].found \/ SizeOf(C) >= need[p])
    BY DEF SelectEvictionCandidates
  <1>2. CASE C = loc[p].found
    BY <1>2 DEF RoomInv, Room
  <1>3. CASE SizeOf(C) >= need[p]
    <2>1. SizeOf(C) + Total(Lengths, Keys \ KeysOf(C)) + loc[p].size <= need[p] + MaxSize
      BY <1>1 DEF RoomInv
    <2>2. SizeOf(C) \in Nat
      <3>1. C \in SUBSET Items /\ IsFiniteSet(C)
        BY <1>0, <1>1, FS_Subset DEF RoomInv
      <3> QED
        BY <3>1, SizeOfRule
    <2>3. Total(Lengths, Keys \ KeysOf(C)) \in Nat
      <3>1. Keys \ KeysOf(C) \in SUBSET Keys
        OBVIOUS
      <3> QED
        BY <3>1, LengthsRule
    <2>4. Total(Lengths, Keys \ KeysOf(C)) + loc[p].size <= MaxSize
      BY <1>0, <1>3, <2>1, <2>2, <2>3
    <2> QED
      BY <2>4 DEF Room
  <1> QED
    BY <1>1, <1>2, <1>3

\* Room that counts on an entry that is gone is room without it.
LEMMA GoneRoom ==
    ASSUME DiskOK, TmpInv, NEW p \in Procs, NEW K \in SUBSET Keys, NEW c \in Keys,
           data[c].ver = 0, Room(p, K \cup {c})
    PROVE  Room(p, K)
  <1>1. CASE \A k \in Keys \ (K \cup {c}) : data[k].ver = 0
    BY <1>1 DEF Room
  <1>2. CASE Total(Lengths, Keys \ (K \cup {c})) + loc[p].size <= MaxSize
    <2>1. Total(Lengths, Keys \ K) = Total(Lengths, Keys \ (K \cup {c}))
      <3>1. CASE c \in K
        <4>1. K \cup {c} = K
          BY <3>1
        <4> QED
          BY <4>1
      <3>2. CASE c \notin K
        <4> DEFINE R == Keys \ K
        <4>1. R \in SUBSET Keys /\ c \in R /\ R \ {c} = Keys \ (K \cup {c}) /\ R \ {c} \in SUBSET Keys
          BY <3>2
        <4> HIDE DEF R
        <4>2. Total(Lengths, R) = data[c].size + Total(Lengths, R \ {c})
          BY <4>1, LengthsRule
        <4>3. Total(Lengths, R \ {c}) \in Nat
          BY <4>1, LengthsRule
        <4>4. data[c].size = 0
          BY DEF TmpInv
        <4>5. Total(Lengths, R) = Total(Lengths, R \ {c})
          BY <4>2, <4>3, <4>4
        <4> QED
          BY <4>1, <4>5 DEF R
      <3> QED
        BY <3>1, <3>2
    <2> QED
      BY <1>2, <2>1 DEF Room
  <1> QED
    BY <1>1, <1>2 DEF Room

\* A step of the Put itself leaves the room it still has to make.
LEMMA RoomStep ==
    ASSUME IInv, PairInv, NeedOK, TmpInv, faults = 0, MaxSize > 0,
           NEW p \in Procs, Step(p), op[p] = "put", op'[p] = "put", RoomInv(p), Next
    PROVE  RoomInv(p)'
  <1>0. /\ DiskOK /\ ThreadsOK /\ StepInv /\ LockInv /\ DiskOK'
        /\ loc \in [Procs -> Locals] /\ loc[p] \in Locals /\ pc \in [Procs -> PCs]
    BY TypeStep DEF IInv, TypeOK, ThreadsOK
  <1>n. loc[p].size \in Nat /\ MaxSize \in Nat /\ need[p] \in Int /\ loc[p].todo \in SUBSET Keys
    BY <1>0, BoundsAssumption DEF Locals, NeedOK
  <1>f. fsMu = NoOne => \A k \in Keys : meta[k].created = data[k].ver /\ meta[k].size = data[k].size
    <2> SUFFICES ASSUME fsMu = NoOne
                 PROVE \A k \in Keys : meta[k].created = data[k].ver /\ meta[k].size = data[k].size
      OBVIOUS
    <2>1. \A q \in Procs : pc[q] \notin {"rmmeta", "save"}
      BY <1>0, ProcsAssumption DEF LockInv, FsSteps
    <2> QED
      BY <2>1 DEF PairInv
  <1>1. CASE PutSize(p)
    <2>1. Size = Total(Lengths, Keys) /\ Size \in Nat
      BY <1>0, <1>1, SizeIsLengths, SizeIs DEF PutSize
    <2>2. loc' = loc /\ data' = data /\ loc[p].found = {}
      BY <1>1 DEF PutSize, MakeRoom, Goto, diskvars, At, RoomInv
    <2>3. CASE need' = [need EXCEPT ![p] = Size + loc[p].size - MaxSize] /\ pc' = [pc EXCEPT ![p] = "scan"]
      <3>1. pc'[p] = "scan" /\ need'[p] = Size + loc[p].size - MaxSize
        BY <1>0, <2>3 DEF NeedOK
      <3>2. Total(Lengths, Keys) + loc[p].size <= need'[p] + MaxSize
        BY <1>n, <2>1, <3>1
      <3> QED
        BY <2>2, <3>1, <3>2 DEF RoomInv, Lengths
    <2>4. CASE Size + loc[p].size - MaxSize <= 0 /\ pc' = [pc EXCEPT ![p] = "write"]
      <3>1. pc'[p] = "write"
        BY <1>0, <2>4
      <3>2. Total(Lengths, Keys) + loc[p].size <= MaxSize
        BY <1>n, <2>1, <2>4
      <3>3. Keys \ {} = Keys
        OBVIOUS
      <3>4. Room(p, {})'
        BY <2>2, <3>2, <3>3 DEF Room, Lengths
      <3> QED
        BY <3>1, <3>4 DEF RoomInv
    <2> QED
      BY <1>1, <1>n, <2>3, <2>4 DEF PutSize, MakeRoom, Goto
  <1>2. CASE Scan(p, "scan", "collect")
    <2>1. pc[p] = "scan" /\ pc'[p] = "collect" /\ need' = need /\ data' = data
      BY <1>0, <1>2 DEF Scan, Goto, At, diskvars
    <2>2. /\ loc'[p].todo = {k \in Keys : data[k].ver # 0}
          /\ loc'[p].found = loc[p].found /\ loc'[p].size = loc[p].size
      BY <1>0, <1>2 DEF Scan, Locals
    <2>3. loc[p].found = {} /\ Total(Lengths, Keys) + loc[p].size <= need[p] + MaxSize
      BY <2>1 DEF RoomInv
    <2>4. SizeOf({}) = 0 /\ IsFiniteSet({}) /\ KeysOf({}) = {} /\ Keys \ {} = Keys
      <3>1. IsFiniteSet({}) /\ {} \in SUBSET Items
        BY FS_EmptySet
      <3>2. SizeOf({}) = 0
        BY <3>1, SizeOfRule
      <3> QED
        BY <3>1, <3>2 DEF KeysOf
    <2>5. Total(Lengths, Keys) \in Nat
      <3>1. Keys \in SUBSET Keys
        OBVIOUS
      <3> QED
        BY <1>0, <3>1, LengthsRule
    <2>6. \A C \in SUBSET loc'[p].found :
             SizeOf(C) + Total(Lengths, Keys \ KeysOf(C)) + loc[p].size <= need[p] + MaxSize
      <3> SUFFICES ASSUME NEW C \in SUBSET loc'[p].found
                   PROVE  SizeOf(C) + Total(Lengths, Keys \ KeysOf(C)) + loc[p].size <= need[p] + MaxSize
        OBVIOUS
      <3>1. C = {}
        BY <2>2, <2>3
      <3>2. 0 + Total(Lengths, Keys) + loc[p].size <= need[p] + MaxSize
        BY <1>n, <2>3, <2>5
      <3> QED
        BY <2>4, <3>1, <3>2
    <2>7. Lengths' = Lengths
      BY <2>1 DEF Lengths
    <2>8. \A k \in Keys : data'[k].ver # 0 => k \in loc'[p].todo
      BY <2>1, <2>2
    <2>9. IsFiniteSet(loc'[p].found) /\ KeysOf(loc'[p].found) = {}
      BY <2>2, <2>3, <2>4
    <2> QED
      BY <2>1, <2>2, <2>6, <2>7, <2>8, <2>9 DEF RoomInv
  <1>3. ASSUME NEW k \in Keys, Collect(p, k) PROVE RoomInv(p)'
    <2> DEFINE i == [key |-> k, size |-> meta[k].size, accessed |-> meta[k].accessed]
               F == IF meta[k].created = 0 THEN loc[p].found ELSE loc[p].found \cup {i}
    <2>1. /\ pc[p] = "collect" /\ pc'[p] = "collect" /\ need' = need /\ data' = data
          /\ fsMu = NoOne /\ k \in loc[p].todo
      BY <1>0, <1>3 DEF Collect, Goto, At, diskvars
    <2>2. loc' = [loc EXCEPT ![p] = [loc[p] EXCEPT !.todo = @ \ {k}, !.found = F]]
      BY <1>3 DEF Collect
    <2>3. meta[k].created = data[k].ver /\ meta[k].size = data[k].size
      BY <1>f, <2>1
    <2>4. i \in Items /\ i.key = k /\ i.size = data[k].size
      BY <1>0, <2>3 DEF Items, DiskOK, Metadata
    <2> HIDE DEF F
    <2>5. loc'[p].todo = loc[p].todo \ {k} /\ loc'[p].found = F /\ loc'[p].size = loc[p].size
      BY <1>0, <2>2 DEF Locals
    <2>6. /\ IsFiniteSet(F)
          /\ (loc[p].todo \ {k}) \cap KeysOf(F) = {}
          /\ \A j \in Keys : data[j].ver # 0 => j \in (loc[p].todo \ {k}) \cup KeysOf(F)
          /\ \A C \in SUBSET F :
                SizeOf(C) + Total(Lengths, Keys \ KeysOf(C)) + loc[p].size <= need[p] + MaxSize
      <3>1. CASE meta[k].created = 0
        <4>1. F = loc[p].found /\ data[k].ver = 0
          BY <2>3, <3>1 DEF F
        <4> QED
          BY <2>1, <4>1 DEF RoomInv
      <3>2. CASE meta[k].created # 0
        <4>1. F = loc[p].found \cup {i}
          BY <3>2 DEF F
        <4> HIDE DEF i
        <4> QED
          BY <1>0, <2>1, <2>4, <4>1, CollectOne
      <3> QED
        BY <3>1, <3>2
    <2>7. Lengths' = Lengths
      BY <2>1 DEF Lengths
    <2> QED
      BY <2>1, <2>5, <2>6, <2>7 DEF RoomInv
  <1>4. CASE Select(p)
    <2>1. pc[p] = "collect" /\ pc'[p] = "victims" /\ data' = data /\ loc[p].todo = {}
      BY <1>0, <1>4 DEF Select, Goto, At, diskvars
    <2>2. PICK C \in SelectEvictionCandidates(loc[p].found, need[p]) :
             loc' = [loc EXCEPT ![p].todo = {i.key : i \in C}, ![p].found = {}]
      BY <1>4 DEF Select
    <2>3. loc'[p].todo = KeysOf(C) /\ loc'[p].size = loc[p].size
      BY <1>0, <2>2 DEF Locals, KeysOf
    <2>4. Room(p, KeysOf(C))
      BY <1>0, <2>1, SelectRoom
    <2>5. Lengths' = Lengths
      BY <2>1 DEF Lengths
    <2>6. Room(p, loc[p].todo)'
      BY <2>1, <2>3, <2>4, <2>5 DEF Room
    <2> QED
      BY <2>1, <2>6 DEF RoomInv
  <1>5. ASSUME NEW k \in Keys, NextVictim(p, k) PROVE RoomInv(p)'
    <2>1. pc[p] = "victims" /\ pc'[p] = "rmdata" /\ data' = data /\ k \in loc[p].todo
      BY <1>0, <1>5 DEF NextVictim, Goto, At, diskvars
    <2>2. loc'[p].todo = loc[p].todo \ {k} /\ loc'[p].cur = k /\ loc'[p].size = loc[p].size
      BY <1>0, <1>5 DEF NextVictim, Locals
    <2>3. loc'[p].todo \cup {loc'[p].cur} = loc[p].todo
      BY <2>1, <2>2
    <2>4. Room(p, loc[p].todo)
      BY <2>1 DEF RoomInv
    <2>5. Lengths' = Lengths
      BY <2>1 DEF Lengths
    <2>6. Room(p, loc[p].todo \cup {loc[p].cur})'
      BY <2>1, <2>2, <2>3, <2>4, <2>5 DEF Room
    <2> QED
      BY <2>1, <2>6 DEF RoomInv
  <1>6. CASE VictimsDone(p)
    <2>1. pc[p] = "victims" /\ pc'[p] = "write" /\ data' = data /\ loc' = loc /\ loc[p].todo = {}
      BY <1>0, <1>6 DEF VictimsDone, Goto, At, diskvars
    <2>2. Room(p, {})
      BY <2>1 DEF RoomInv
    <2>3. Room(p, {})'
      BY <2>1, <2>2 DEF Room, Lengths
    <2> QED
      BY <2>1, <2>3 DEF RoomInv
  <1>7. CASE RemoveData(p)
    <2>1. pc[p] = "rmdata" /\ pc'[p] = "rmmeta" /\ loc' = loc
      BY <1>0, <1>7 DEF RemoveData, Goto, At
    <2>2. Shrinks
      BY <1>0, <1>7 DEF RemoveData, Shrinks, DiskOK
    <2>3. Room(p, loc[p].todo \cup {loc[p].cur})
      BY <2>1 DEF RoomInv
    <2> DEFINE K == loc[p].todo \cup {loc[p].cur}
    <2>4. \/ Total(Lengths', Keys \ K) + loc'[p].size <= MaxSize
          \/ \A k \in Keys \ K : data'[k].ver = 0
      <3> HIDE DEF K
      <3>1. Room(p, K)
        BY <2>3 DEF K
      <3> QED
        BY <1>0, <2>1, <2>2, <3>1, ShrinkRoom
    <2>5. Room(p, loc[p].todo \cup {loc[p].cur})'
      BY <2>1, <2>4 DEF Room
    <2> QED
      BY <2>1, <2>5 DEF RoomInv
  <1>8. CASE RemoveMeta(p)
    <2>1. /\ pc[p] = "rmmeta" /\ pc'[p] = "victims" /\ data' = data
          /\ loc' = [loc EXCEPT ![p].cur = NoKey] /\ loc[p].cur \in Keys
      BY <1>0, <1>8 DEF RemoveMeta, AfterRemove, Finish, Goto, At, StepInv, ThreadsOK
    <2>2. loc'[p].todo = loc[p].todo /\ loc'[p].size = loc[p].size
      BY <1>0, <2>1 DEF Locals
    <2>3. Room(p, loc[p].todo \cup {loc[p].cur})
      BY <2>1 DEF RoomInv
    <2>4. data[loc[p].cur].ver = 0
      BY <2>1 DEF PairInv, NoFile
    <2>5. Room(p, loc[p].todo)
      BY <1>0, <1>n, <2>1, <2>3, <2>4, GoneRoom
    <2>6. Lengths' = Lengths
      BY <2>1 DEF Lengths
    <2>7. Room(p, loc[p].todo)'
      BY <2>1, <2>2, <2>5, <2>6 DEF Room
    <2> QED
      BY <2>1, <2>7 DEF RoomInv
  <1>9. CASE Write(p)
    <2>1. pc[p] = "write" /\ pc'[p] = "rename" /\ data' = data /\ loc' = loc
      BY <1>0, <1>9 DEF Write, Goto, At
    <2>2. Room(p, {})
      BY <2>1 DEF RoomInv
    <2>3. Room(p, {})'
      BY <2>1, <2>2 DEF Room, Lengths
    <2> QED
      BY <2>1, <2>3 DEF RoomInv
  <1>10. CASE Rename(p)
    <2>1. pc'[p] = "save"
      BY <1>0, <1>10 DEF Rename, Goto
    <2> QED
      BY <2>1 DEF RoomInv
  <1>11. CASE Save(p)
    <2>1. op'[p] = "idle"
      BY <1>0, <1>11 DEF Save, Finish, ThreadsOK
    <2> QED
      BY <2>1
  <1>12. CASE GetMiss(p) \/ GetHit(p) \/ GetExpired(p) \/ Clear(p) \/ EvictSize(p)
              \/ Scan(p, "sweepscan", "check") \/ SweepDone(p)
    BY <1>0, <1>12 DEF StepInv, GetMiss, GetHit, GetExpired, Clear, EvictSize, Scan, SweepDone, At
  <1>13. ASSUME NEW k \in Keys, SweepCheck(p, k) PROVE RoomInv(p)'
    BY <1>0, <1>13 DEF StepInv, SweepCheck, At
  <1> QED
    BY <1>1, <1>2, <1>3, <1>4, <1>5, <1>6, <1>7, <1>8, <1>9, <1>10, <1>11, <1>12, <1>13 DEF Step

\* The data a Put renames into place fits, or is the only file.
LEMMA RenameFit ==
    ASSUME IInv, NEW p \in Procs, Rename(p), Room(p, {}), DiskOK'
    PROVE  FitInv'
  <1>0. DiskOK /\ loc[p] \in Locals /\ loc[p].key \in Keys /\ MaxSize \in Nat
    BY BoundsAssumption DEF IInv, TypeOK, ThreadsOK, StepInv, Rename, At
  <1> DEFINE c == loc[p].key
             R == Keys \ {c}
  <1>1. c \in Keys /\ R \in SUBSET Keys /\ loc[p].size \in Nat
    BY <1>0 DEF Locals
  <1>2. /\ data'[c].size = loc[p].size
        /\ \A k \in R : data'[k] = data[k]
    BY <1>0 DEF Rename, DiskOK
  <1>k. Keys \ {} = Keys /\ Keys \in SUBSET Keys
    OBVIOUS
  <1> HIDE DEF c
  <1>3. CASE \A k \in Keys : data[k].ver = 0
    BY <1>2, <1>3 DEF FitInv
  <1>4. CASE Total(Lengths, Keys) + loc[p].size <= MaxSize
    <2>1. Total(Lengths, Keys) = data[c].size + Total(Lengths, R)
      BY <1>0, <1>1, <1>k, LengthsRule
    <2>2. Total(Lengths, R) \in Nat /\ data[c].size \in Nat
      <3>1. Total(Lengths, R) \in Nat
        <4> HIDE DEF R
        <4> QED
          BY <1>0, <1>1, LengthsRule
      <3> QED
        BY <1>0, <1>1, <3>1 DEF DiskOK, DataFiles
    <2>3. /\ \A k \in Keys : Lengths'[k] \in Nat /\ Lengths'[k] = data'[k].size
          /\ \A k \in Keys : Lengths[k] \in Nat /\ Lengths[k] = data[k].size
      BY <1>0 DEF Lengths, DiskOK, DataFiles
    <2>4. Total(Lengths', Keys) = Lengths'[c] + Total(Lengths', R)
      BY <1>1, <2>3, KeysAssumption, TotalRule
    <2>5. Total(Lengths', R) = Total(Lengths, R)
      <3>1. IsFiniteSet(R) /\ \A k \in R : Lengths[k] \in Nat /\ Lengths'[k] = Lengths[k]
        BY <1>1, <1>2, <2>3, KeysAssumption, FS_Subset
      <3> HIDE DEF R
      <3> QED
        BY <3>1, TotalEqual
    <2>6. Lengths'[c] = loc[p].size
      BY <1>1, <1>2, <2>3
    <2> HIDE DEF R
    <2>7. Total(Lengths', Keys) <= MaxSize
      BY <1>0, <1>1, <1>4, <2>1, <2>2, <2>4, <2>5, <2>6
    <2> QED
      BY <2>7 DEF FitInv
  <1> QED
    BY <1>3, <1>4, <1>k DEF Room

\* Every step without faults keeps the invariant on the room.
LEMMA SpaceStep ==
    ASSUME IInv, PairInv, NeedOK, SpaceInv, Next
    PROVE  SpaceInv'
  <1> SUFFICES ASSUME faults' = 0, MaxSize > 0
               PROVE  TmpInv' /\ (\A q \in Procs : op'[q] = "put" => RoomInv(q)') /\ FitInv'
    BY DEF SpaceInv
  <1>0. /\ DiskOK /\ DiskOK' /\ ThreadsOK /\ faults = 0 /\ ~Faulty
        /\ \A q \in Procs : loc[q] \in Locals
    BY NoFaultYet, TypeStep DEF IInv, TypeOK, ThreadsOK
  <1>i. TmpInv /\ FitInv /\ \A q \in Procs : op[q] = "put" => RoomInv(q)
    BY <1>0 DEF SpaceInv
  <1>t. TmpInv'
    BY <1>i, TmpStep
  <1>1. ASSUME NEW q \in Procs, Shrinks, op[q] = "put", pc'[q] = pc[q], loc'[q] = loc[q],
               need'[q] = need[q]
        PROVE  RoomInv(q)'
    BY <1>0, <1>1, <1>i, ShrinkRoomInv
  <1>2. ASSUME NEW p \in Procs, Call(p)
        PROVE  (\A q \in Procs : op'[q] = "put" => RoomInv(q)') /\ FitInv'
    <2>1. UNCHANGED <<data, need>> /\ Shrinks
      BY <1>2 DEF Call, ClearBegin, EvictBegin, GetBegin, DeleteBegin, Exists, PutBegin, diskvars,
                  Enter, Shrinks
    <2>2. \A q \in Procs \ {p} : op'[q] = op[q] /\ pc'[q] = pc[q] /\ loc'[q] = loc[q]
      BY <1>0, <1>2 DEF ThreadsOK, Call, ClearBegin, EvictBegin, GetBegin, DeleteBegin,
                        Exists, PutBegin, Enter
    <2>3. ASSUME op'[p] = "put" PROVE RoomInv(p)'
      <3>1. CASE \E k \in Keys : Exists(p, k)
        BY <1>1, <2>1, <2>3, <3>1 DEF Exists
      <3>2. CASE \E k \in Keys, n \in Sizes, ttl \in TTLs : PutBegin(p, k, n, ttl)
        <4>1. pc'[p] = "size" /\ loc'[p].found = {}
          BY <1>0, <3>2 DEF PutBegin, Enter, ThreadsOK, NoLoc
        <4> QED
          BY <4>1 DEF RoomInv
      <3>3. CASE \/ \E k \in Keys : GetBegin(p, k) \/ DeleteBegin(p, k)
                 \/ ClearBegin(p) \/ EvictBegin(p)
        BY <1>0, <2>3, <3>3 DEF GetBegin, DeleteBegin, ClearBegin, EvictBegin, Enter, ThreadsOK
      <3> QED
        BY <1>2, <3>1, <3>2, <3>3 DEF Call
    <2>4. FitInv'
      BY <1>0, <1>i, <2>1, ShrinkFit
    <2> QED
      BY <1>1, <2>1, <2>2, <2>3, <2>4
  <1>3. ASSUME NEW p \in Procs, Step(p)
        PROVE  (\A q \in Procs : op'[q] = "put" => RoomInv(q)') /\ FitInv'
    <2>0. /\ \A q \in Procs \ {p} : op'[q] = op[q] /\ pc'[q] = pc[q] /\ loc'[q] = loc[q]
          /\ \A q \in Procs \ {p} : need'[q] = need[q]
          /\ op'[p] = "put" => op[p] = "put"
      BY <1>3, StepKeeps, NeedStep
    <2>1. CASE Rename(p)
      <3>1. op[p] = "put" /\ pc[p] = "rename"
        BY <2>1 DEF IInv, StepInv, Rename, At
      <3>2. \A q \in Procs \ {p} : op[q] # "put"
        BY <3>1, OnePut DEF ManagerOps
      <3>3. Room(p, {})
        BY <1>i, <3>1 DEF RoomInv
      <3>4. FitInv'
        BY <1>0, <2>1, <3>3, RenameFit
      <3>5. op'[p] = "put" => RoomInv(p)'
        BY <1>0, <1>3, <1>i, <3>1, RoomStep
      <3> QED
        BY <2>0, <3>2, <3>4, <3>5
    <2>2. CASE ~Rename(p)
      <3>1. Shrinks
        BY <1>3, <2>2, DiskStep DEF Shrinks
      <3>2. FitInv'
        BY <1>0, <1>i, <3>1, ShrinkFit
      <3>3. op'[p] = "put" => RoomInv(p)'
        BY <1>0, <1>3, <1>i, <2>0, RoomStep
      <3>4. \A q \in Procs \ {p} : op'[q] = "put" => RoomInv(q)'
        BY <1>1, <2>0, <3>1
      <3> QED
        BY <3>2, <3>3, <3>4
    <2> QED
      BY <2>1, <2>2
  <1>4. ASSUME NEW p \in Procs PROVE ~Fault(p)
    BY <1>0 DEF Fault, PurgeDataFails, RemoveDataFails, RemoveMetaFails, ClearFails,
                PutSizeFails, WriteFails, RenameFails, SaveFails, EvictSizeFails,
                GetFails, GetReadFails, ExistsFails, SkipFails
  <1>5. CASE (\E g \in Touchers : TouchStep(g)) \/ (\E v \in 1..MaxPuts : Elapse(v))
    <2>1. UNCHANGED <<data, op, pc, loc, need>> /\ Shrinks
      BY <1>5 DEF TouchStep, TouchLoad, TouchSave, Elapse, diskvars, Shrinks
    <2>2. FitInv'
      BY <1>0, <1>i, <2>1, ShrinkFit
    <2> QED
      BY <1>1, <1>t, <2>1, <2>2
  <1>6. CASE Crash \/ \E g \in Touchers : TouchFault(g)
    BY <1>0, <1>6 DEF Crash, TouchFault, TouchLoadFails, TouchSaveFails
  <1> QED
    BY <1>t, <1>2, <1>3, <1>4, <1>5, <1>6 DEF Next

\* With no temporary file but p's, Size is what the data files and it take.
LEMMA SizeInRename ==
    ASSUME IInv, TmpInv, NEW p \in Procs, pc[p] = "rename"
    PROVE  Size = Total(Lengths, Keys) + loc[p].size
  <1>0. /\ DiskOK /\ loc[p] \in Locals /\ loc[p].key \in Keys
        /\ \A k \in Keys : tmp[k] = IF k = loc[p].key THEN loc[p].size ELSE 0
    BY DEF IInv, TypeOK, ThreadsOK, StepInv, TmpInv
  <1> DEFINE h == [k \in Keys |-> data[k].size + tmp[k]]
             c == loc[p].key
             R == Keys \ {c}
  <1>1. c \in Keys /\ R \in SUBSET Keys /\ loc[p].size \in Nat /\ IsFiniteSet(R)
    BY <1>0, KeysAssumption, FS_Subset DEF Locals
  <1>2. /\ \A k \in Keys : h[k] \in Nat /\ data[k].size \in Nat
        /\ h[c] = data[c].size + loc[p].size
    BY <1>0 DEF DiskOK, DataFiles
  <1>3. \A k \in R : h[k] = Lengths[k] /\ Lengths[k] \in Nat
    BY <1>0 DEF DiskOK, DataFiles, Lengths
  <1>4. Size = Total(h, Keys)
    BY <1>0, SizeIs
  <1> HIDE DEF h, c
  <1>5. Total(h, Keys) = h[c] + Total(h, R)
    BY <1>1, <1>2, KeysAssumption, TotalRule
  <1>6. Total(Lengths, Keys) = data[c].size + Total(Lengths, R)
    <2>1. Keys \in SUBSET Keys
      OBVIOUS
    <2> QED
      BY <1>0, <1>1, <2>1, LengthsRule
  <1> HIDE DEF R
  <1>7. Total(h, R) = Total(Lengths, R)
    BY <1>1, <1>3, TotalEqual
  <1>8. Total(Lengths, R) \in Nat
    BY <1>0, <1>1, LengthsRule
  <1> QED
    BY <1>1, <1>2, <1>4, <1>5, <1>6, <1>7, <1>8

\* Sets of which no two elements differ have at most one.
LEMMA AtMostOne ==
    ASSUME NEW S, \A x, y \in S : x = y
    PROVE  Cardinality(S) \in {0, 1}
  <1>1. CASE S = {}
    BY <1>1, FS_EmptySet
  <1>2. ASSUME NEW x \in S PROVE Cardinality(S) = 1
    <2>1. S = {x}
      OBVIOUS
    <2> QED
      BY <2>1, FS_Singleton
  <1> QED
    BY <1>1, <1>2

\* The invariant bounds what FileSystemBackend.Size returns.
LEMMA SpaceBounds == ASSUME IInv, SpaceInv PROVE SizeBounded
  <1> SUFFICES ASSUME faults = 0, MaxSize > 0
               PROVE  \/ Size <= MaxSize
                      \/ Cardinality({k \in Keys : data[k].ver # 0})
                           + Cardinality({k \in Keys : tmp[k] > 0}) <= 1
    BY DEF SizeBounded
  <1>0. TmpInv /\ FitInv /\ \A q \in Procs : op[q] = "put" => RoomInv(q)
    BY DEF SpaceInv
  <1> DEFINE D == {k \in Keys : data[k].ver # 0}
             M == {k \in Keys : tmp[k] > 0}
  <1>1. CASE \A p \in Procs : pc[p] # "rename"
    <2>1. \A k \in Keys : tmp[k] = 0
      BY <1>0, <1>1 DEF TmpInv
    <2>2. Cardinality(M) = 0
      <3>1. M = {}
        BY <2>1
      <3> QED
        BY <3>1, FS_EmptySet
    <2>3. CASE Total(Lengths, Keys) <= MaxSize
      <3> DEFINE h == [k \in Keys |-> data[k].size + tmp[k]]
      <3>1. DiskOK
        BY DEF IInv, TypeOK
      <3>2. \A k \in Keys : h[k] = Lengths[k] /\ Lengths[k] \in Nat
        BY <2>1, <3>1 DEF Lengths, DiskOK, DataFiles
      <3>3. Size = Total(h, Keys)
        BY <3>1, SizeIs
      <3> HIDE DEF h
      <3>4. Total(h, Keys) = Total(Lengths, Keys)
        BY <3>2, KeysAssumption, TotalEqual
      <3> QED
        BY <2>3, <3>3, <3>4
    <2>4. CASE \A j, k \in Keys : data[j].ver # 0 /\ data[k].ver # 0 => j = k
      <3>1. \A j, k \in D : j = k
        BY <2>4
      <3> HIDE DEF D, M
      <3>2. Cardinality(D) \in {0, 1}
        BY <3>1, AtMostOne
      <3>3. Cardinality(D) + Cardinality(M) <= 1
        BY <2>2, <3>2
      <3> QED
        BY <3>3 DEF D, M
    <2> QED
      BY <1>0, <2>3, <2>4 DEF FitInv
  <1>2. ASSUME NEW p \in Procs, pc[p] = "rename"
        PROVE  Size <= MaxSize \/ Cardinality(D) + Cardinality(M) <= 1
    <2>1. Room(p, {}) /\ Keys \ {} = Keys
      BY <1>0, <1>2 DEF RoomInv, IInv, StepInv
    <2>2. Size = Total(Lengths, Keys) + loc[p].size
      BY <1>0, <1>2, SizeInRename
    <2>3. CASE \A k \in Keys : data[k].ver = 0
      <3>1. D = {}
        BY <2>3
      <3>2. \A j, k \in M : j = k
        BY <1>0, <1>2 DEF TmpInv
      <3> HIDE DEF D, M
      <3>3. Cardinality(D) = 0
        BY <3>1, FS_EmptySet
      <3>4. Cardinality(M) \in {0, 1}
        BY <3>2, AtMostOne
      <3> QED
        BY <3>3, <3>4
    <2> QED
      BY <2>1, <2>2, <2>3 DEF Room
  <1> QED
    BY <1>1, <1>2

\* Without faults the files of the cache fit in MaxSize, or a single entry is all
\* there is: Manager.Put makes room before it writes, and no eviction pass, purge
\* or late access-time update beside it takes that room away.
THEOREM SpaceHeld == Spec => []SizeBounded
  <1>1. Init => NeedOK /\ PairInv /\ SpaceInv
    <2> SUFFICES ASSUME Init PROVE NeedOK /\ PairInv /\ SpaceInv
      OBVIOUS
    <2>1. NeedOK /\ PairInv
      BY DEF Init, NeedOK, PairInv, NoFile, Unreadable
    <2>2. TmpInv /\ FitInv
      BY DEF Init, TmpInv, FitInv, NoFile
    <2>3. \A p \in Procs : op[p] # "put"
      BY DEF Init
    <2> QED
      BY <2>1, <2>2, <2>3 DEF SpaceInv
  <1>2. IInv /\ NeedOK /\ PairInv /\ SpaceInv /\ [Next]_vars => (NeedOK /\ PairInv /\ SpaceInv)'
    <2> SUFFICES ASSUME IInv, NeedOK, PairInv, SpaceInv, [Next]_vars
                 PROVE  NeedOK' /\ PairInv' /\ SpaceInv'
      OBVIOUS
    <2>1. CASE UNCHANGED vars
      <3>1. UNCHANGED <<data, tmp, meta, op, pc, loc, need, faults>>
        BY <2>1 DEF vars
      <3>2. Lengths' = Lengths
        BY <3>1 DEF Lengths
      <3>3. NeedOK' /\ PairInv'
        BY <3>1 DEF NeedOK, PairInv
      <3>4. TmpInv' = TmpInv /\ FitInv' = FitInv
        BY <3>1, <3>2 DEF TmpInv, FitInv
      <3>5. \A p \in Procs : RoomInv(p) => RoomInv(p)'
        BY <3>1, <3>2 DEF RoomInv, Room
      <3> QED
        BY <3>1, <3>3, <3>4, <3>5 DEF SpaceInv
    <2>2. CASE Next
      BY <2>2, NeedType, PairStep, SpaceStep
    <2> QED
      BY <2>1, <2>2
  <1>3. IInv /\ SpaceInv => SizeBounded
    BY SpaceBounds
  <1> QED
    BY <1>1, <1>2, <1>3, Invariance, PTL DEF Spec

----------------------------------------------------------------------------
(* Locks and hits *)

EvictorOps == {"evict", "sweep"}

EvictorInv == \A p \in Procs : op[p] \in EvictorOps <=> evMu = p

\* m.mu and e.mu are never held together, and whoever holds fs.mu is inside a section
\* that takes no other lock: since m.mu and e.mu are taken on entry only, a goroutine
\* inside an operation waits for at most fs.mu, and so for one that waits for none.
LockOrder ==
    /\ \A p \in Procs : ~(mgrMu = p /\ evMu = p)
    /\ \A p \in Procs : fsMu = p => pc[p] \in FsSteps /\ (mgrMu = p \/ evMu = p)
    /\ fsMu # NoOne =>
          \/ \E p \in Procs : fsMu = p /\ pc[p] \in FsSteps
          \/ \E g \in Touchers : fsMu = g /\ touch[g].st = "loaded"

\* Every step leaves e.mu with the eviction pass that took it.
LEMMA EvictorStep == ASSUME IInv, EvictorInv, Next PROVE EvictorInv'
  <1>0. /\ op \in [Procs -> Ops] /\ NoOne \notin Procs
        /\ \A p \in Procs : pc[p] = "idle" <=> op[p] = "idle"
    BY ProcsAssumption DEF IInv, TypeOK, ThreadsOK, StepInv
  <1>1. ASSUME NEW p \in Procs, Call(p) PROVE EvictorInv'
    <2>1. CASE EvictBegin(p)
      BY <1>0, <2>1 DEF EvictorInv, EvictorOps, EvictBegin, Enter
    <2>2. CASE \E k \in Keys : Exists(p, k)
      BY <2>2 DEF EvictorInv, Exists
    <2>3. CASE \/ \E k \in Keys : GetBegin(p, k) \/ DeleteBegin(p, k)
               \/ \E k \in Keys, n \in Sizes, ttl \in TTLs : PutBegin(p, k, n, ttl)
               \/ ClearBegin(p)
      BY <1>0, <2>3 DEF EvictorInv, EvictorOps, GetBegin, DeleteBegin, PutBegin, ClearBegin, Enter
    <2> QED
      BY <1>1, <2>1, <2>2, <2>3 DEF Call
  <1>2. ASSUME NEW p \in Procs, Step(p) \/ Fault(p) PROVE EvictorInv'
    <2>1. CASE UNCHANGED <<op, evMu>>
      BY <2>1 DEF EvictorInv
    <2>2. CASE \E r : Finish(p, r)
      BY <1>0, <2>2 DEF EvictorInv, EvictorOps, Finish
    <2>3. CASE \E r : AfterRemove(p, r)
      BY <2>1, <2>2, <2>3 DEF AfterRemove, Goto
    <2>4. CASE EvictSize(p)
      BY <1>0, <2>4 DEF EvictorInv, EvictorOps, EvictSize
    <2>5. CASE Step(p)
      BY <2>1, <2>2, <2>3, <2>4, <2>5
      DEF Step, GetMiss, GetHit, GetExpired, RemoveData, RemoveMeta, Clear, PutSize, MakeRoom,
          Write, Rename, Save, Scan, SweepCheck, Collect, NextVictim, SweepDone, Select,
          VictimsDone, Goto
    <2>6. CASE Fault(p)
      BY <2>1, <2>2, <2>3, <2>6
      DEF Fault, PurgeDataFails, RemoveDataFails, RemoveMetaFails, ClearFails, PutSizeFails,
          MakeRoom, WriteFails, RenameFails, SaveFails, EvictSizeFails, GetFails, GetReadFails,
          ExistsFails, SkipFails, Goto
    <2> QED
      BY <1>2, <2>5, <2>6
  <1>3. CASE \/ \E g \in Touchers : TouchStep(g) \/ TouchFault(g)
             \/ \E v \in 1..MaxPuts : Elapse(v)
    BY <1>3 DEF EvictorInv, TouchStep, TouchFault, TouchLoad, TouchSave, TouchLoadFails,
                TouchSaveFails, Elapse
  <1>4. CASE Crash
    BY <1>0, <1>4 DEF EvictorInv, EvictorOps, Crash
  <1> QED
    BY <1>1, <1>2, <1>3, <1>4 DEF Next

\* The three locks of the cache are taken in one order, so no goroutines wait for each
\* other in a circle, whatever fails and for any number of callers.
THEOREM LocksOrdered == Spec => []LockOrder
  <1>1. Init => EvictorInv
    BY ProcsAssumption DEF Init, EvictorInv, EvictorOps
  <1>2. IInv /\ EvictorInv /\ [Next]_vars => EvictorInv'
    <2> SUFFICES ASSUME IInv, EvictorInv, [Next]_vars PROVE EvictorInv'
      OBVIOUS
    <2>1. CASE UNCHANGED vars
      BY <2>1 DEF EvictorInv, vars
    <2> QED
      BY <2>1, EvictorStep
  <1>3. IInv /\ EvictorInv => LockOrder
    <2> SUFFICES ASSUME IInv, EvictorInv PROVE LockOrder
      OBVIOUS
    <2>0. ThreadsOK /\ LockInv /\ StepInv
      BY DEF IInv, TypeOK
    <2>1. \A p \in Procs : ~(mgrMu = p /\ evMu = p)
      BY <2>0 DEF LockInv, ManagerOps, EvictorInv, EvictorOps
    <2>2. ASSUME NEW p \in Procs, fsMu = p
          PROVE  pc[p] \in FsSteps /\ (mgrMu = p \/ evMu = p)
      <3>1. pc[p] \in FsSteps
        BY <2>0, <2>2 DEF LockInv
      <3>2. op[p] # "idle" /\ op[p] \in Ops
        BY <2>0, <3>1 DEF StepInv, FsSteps, ThreadsOK
      <3>3. op[p] \in ManagerOps \/ op[p] \in EvictorOps
        BY <3>2 DEF Ops, ManagerOps, EvictorOps
      <3> QED
        BY <2>0, <3>1, <3>3 DEF LockInv, EvictorInv
    <2>3. fsMu # NoOne => \/ \E p \in Procs : fsMu = p /\ pc[p] \in FsSteps
                          \/ \E g \in Touchers : fsMu = g /\ touch[g].st = "loaded"
      BY <2>0 DEF LockInv, ThreadsOK
    <2> QED
      BY <2>1, <2>2, <2>3 DEF LockOrder
  <1> QED
    BY <1>1, <1>2, <1>3, Invariance, PTL DEF Spec

HitsInv == faults = 0 => HitIsComplete

\* Only a failed read makes Manager.Get return less than the whole content.
LEMMA HitStep == ASSUME IInv, HitsInv, Next PROVE HitsInv'
  <1> SUFFICES ASSUME faults' = 0, NEW q \in Procs, res'[q].kind = "hit" PROVE res'[q].val # 0
    BY DEF HitsInv, HitIsComplete
  <1>0. /\ res \in [Procs -> Results] /\ faults = 0 /\ ~Faulty
        /\ res[q].kind = "hit" => res[q].val # 0
    BY NoFaultYet DEF IInv, TypeOK, ThreadsOK, HitsInv, HitIsComplete
  <1>1. CASE res'[q] = res[q]
    BY <1>0, <1>1
  <1>2. ASSUME NEW p \in Procs, Call(p) PROVE res'[q].val # 0
    <2>1. CASE \E k \in Keys : Exists(p, k)
      <3>1. res'[q] = res[q] \/ res'[q].kind \in {"yes", "no"}
        BY <1>0, <2>1 DEF Exists, Result
      <3> QED
        BY <1>0, <3>1
    <2>2. CASE ~\E k \in Keys : Exists(p, k)
      <3>1. res' = [res EXCEPT ![p] = NoResult]
        BY <1>2, <2>2 DEF Call, ClearBegin, EvictBegin, GetBegin, DeleteBegin, PutBegin, Enter
      <3> QED
        BY <1>0, <3>1 DEF NoResult, Result
    <2> QED
      BY <2>1, <2>2
  <1>3. ASSUME NEW p \in Procs, Step(p) PROVE res'[q].val # 0
    <2>2. CASE GetHit(p)
      <3>1. data[loc[p].key].ver # 0
        BY <2>2 DEF GetHit
      <3>2. res' = [res EXCEPT ![p] = Result("hit", loc[p].key, data[loc[p].key].ver)]
        BY <2>2 DEF GetHit, Finish
      <3> QED
        BY <1>0, <3>1, <3>2 DEF Result
    <2>3. CASE RemoveMeta(p)
      <3>1. \/ res' = res
            \/ res' = [res EXCEPT ![p] = res[p]]
            \/ res' = [res EXCEPT ![p] = Result("deleted", loc[p].cur, 0)]
        BY <2>3 DEF RemoveMeta, AfterRemove, Finish, Goto
      <3> QED
        BY <1>0, <3>1 DEF Result
    <2>4. CASE GetMiss(p) \/ GetExpired(p)
      <3>1. res' = [res EXCEPT ![p] = Result("miss", loc[p].key, 0)]
        BY <2>4 DEF GetMiss, GetExpired, Finish
      <3> QED
        BY <1>0, <3>1 DEF Result
    <2>5. CASE Clear(p) \/ Save(p) \/ SweepDone(p) \/ VictimsDone(p)
      <3>1. \/ res' = res
            \/ res' = [res EXCEPT ![p] = Result("cleared", NoKey, 0)]
            \/ res' = [res EXCEPT ![p] = Result("stored", loc[p].key, loc[p].ver)]
            \/ res' = [res EXCEPT ![p] = Result("swept", NoKey, 0)]
        BY <2>5 DEF Clear, Save, SweepDone, VictimsDone, Finish, Goto
      <3> QED
        BY <1>0, <3>1 DEF Result
    <2>6. CASE ~(\/ GetHit(p) \/ RemoveMeta(p) \/ GetMiss(p) \/ GetExpired(p)
                 \/ Clear(p) \/ Save(p) \/ SweepDone(p) \/ VictimsDone(p))
      <3>1. UNCHANGED res
        BY <1>3, <2>6 DEF Step, RemoveData, PutSize, MakeRoom, Write, Rename, EvictSize, Scan,
                          SweepCheck, Collect, NextVictim, Select, Goto
      <3> QED
        BY <1>0, <3>1
    <2> QED
      BY <2>2, <2>3, <2>4, <2>5, <2>6
  <1>4. ASSUME NEW p \in Procs PROVE ~Fault(p)
    BY <1>0 DEF Fault, PurgeDataFails, RemoveDataFails, RemoveMetaFails, ClearFails,
                PutSizeFails, WriteFails, RenameFails, SaveFails, EvictSizeFails,
                GetFails, GetReadFails, ExistsFails, SkipFails
  <1>5. CASE (\E g \in Touchers : TouchStep(g)) \/ (\E v \in 1..MaxPuts : Elapse(v))
    BY <1>1, <1>5 DEF TouchStep, TouchLoad, TouchSave, Elapse
  <1>6. CASE Crash \/ \E g \in Touchers : TouchFault(g)
    BY <1>0, <1>6 DEF Crash, TouchFault, TouchLoadFails, TouchSaveFails
  <1> QED
    BY <1>2, <1>3, <1>4, <1>5, <1>6 DEF Next

\* As long as no file-system call has failed, every hit is a whole entry: the truncated
\* hit that the read loop of Manager.Get can return takes a failed read, no interleaving
\* of Puts, evictions and purges brings it about.
THEOREM HitsWhole == Spec => [](faults = 0 => HitIsComplete)
  <1>1. Init => HitsInv
    BY DEF Init, HitsInv, HitIsComplete, NoResult, Result
  <1>2. IInv /\ HitsInv /\ [Next]_vars => HitsInv'
    <2> SUFFICES ASSUME IInv, HitsInv, [Next]_vars PROVE HitsInv'
      OBVIOUS
    <2>1. CASE UNCHANGED vars
      BY <2>1 DEF HitsInv, HitIsComplete, vars
    <2> QED
      BY <2>1, HitStep
  <1>3. HitsInv => (faults = 0 => HitIsComplete)
    BY DEF HitsInv
  <1> QED
    BY <1>1, <1>2, <1>3, Invariance, PTL DEF Spec

====
