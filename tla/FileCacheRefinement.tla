------------------------ MODULE FileCacheRefinement ------------------------
(***************************************************************************)
(* The file cache implements AbstractCache, for every value of its         *)
(* constants.  Under the invariant IInv of FileCacheProofs each step of    *)
(* FileCache is a step of AbstractCache or leaves its variables alone:     *)
(*                                                                         *)
(*   GetBegin, DeleteBegin, ClearBegin, EvictBegin   Call                  *)
(*   PutBegin                                        StartPut              *)
(*   Rename                         Apply, or a stutter while the old      *)
(*                                  metadata is missing or expired         *)
(*   Save                                            CommitPut             *)
(*   GetMiss, GetHit, GetExpired                     Read                  *)
(*   Exists                                          Probe                 *)
(*   RemoveMeta of a Delete                          Removed               *)
(*   Clear                                           Cleared               *)
(*   SweepDone, VictimsDone of a pass                Swept                 *)
(*   GetFails, GetReadFails                          ReadFails             *)
(*   ExistsFails                                     ProbeFails            *)
(*   another failing call that ends an operation     Fail                  *)
(*   Crash                                           Restart               *)
(*   any other                                       Vanish or a stutter   *)
(***************************************************************************)
EXTENDS FileCacheProofs

\* The variables of AbstractCache under the refinement mapping Abs.
Store == [k \in Keys |-> Visible(k)]

Pend == [p \in Procs |-> Pending(p)]

\* A store that keeps or loses every entry has only lost entries.
LEMMA StoreLoses ==
    ASSUME \A k \in Keys : Visible(k)' = Visible(k) \/ Visible(k)' = 0
    PROVE  Abs!Lose
  <1> DEFINE S == {k \in Keys : Visible(k)' = 0}
  <1>1. S \in SUBSET Keys
    OBVIOUS
  <1>2. Store' = [k \in Keys |-> IF k \in S THEN 0 ELSE Store[k]]
    BY DEF Store
  <1> QED
    BY <1>1, <1>2 DEF Abs!Lose, Store

\* Files that stay or go only lose entries.
LEMMA FilesLose ==
    ASSUME aged' = aged,
           \A k \in Keys : data'[k] = data[k] \/ data'[k] = NoFile,
           \A k \in Keys : meta'[k] = meta[k] \/ meta'[k] = Unreadable
    PROVE  Abs!Lose
  <1>1. ASSUME NEW k \in Keys PROVE Visible(k)' = Visible(k) \/ Visible(k)' = 0
    BY DEF Visible, Expired, NoFile, Unreadable
  <1> QED
    BY <1>1, StoreLoses

\* The store depends on the files and the elapsed TTLs alone.
LEMMA StoreKept ==
    ASSUME UNCHANGED <<data, meta, aged>>
    PROVE  Store' = Store
  BY DEF Store, Visible, Expired

\* A Put is pending until it returns.
LEMMA PendStep ==
    ASSUME IInv, NEW p \in Procs, Step(p) \/ Fault(p)
    PROVE  /\ op[p] # "put" => Pend' = Pend
           /\ op'[p] # "idle" => Pend' = Pend
           /\ op'[p] = "idle" => Pend' = [Pend EXCEPT ![p] = {}]
  <1>1. \A q \in Procs \ {p} : Pending(q)' = Pending(q)
    BY StepKeeps DEF Pending
  <1>2. op'[p] # "idle" => Pending(p)' = Pending(p)
    BY StepKeeps DEF Pending
  <1>3. op'[p] = "idle" => Pending(p)' = {}
    BY DEF Pending
  <1>4. op[p] # "put" => Pending(p) = {}
    BY DEF Pending
  <1> QED
    BY <1>1, <1>2, <1>3, <1>4 DEF Pend

\* Only faults move the fault counter.
LEMMA FaultsStep ==
    ASSUME NEW p \in Procs
    PROVE  /\ Call(p) => faults' = faults
           /\ Step(p) => faults' = faults
           /\ Fault(p) => faults' = faults + 1
  <1>1. ASSUME Call(p) PROVE faults' = faults
    BY <1>1 DEF Call, ClearBegin, EvictBegin, GetBegin, DeleteBegin, Exists, PutBegin
  <1>2. ASSUME Step(p) PROVE faults' = faults
    BY <1>2 DEF Step, GetMiss, GetHit, GetExpired, RemoveData, RemoveMeta, Clear, PutSize,
           Write, Rename, Save, EvictSize, Scan, SweepCheck, Collect, NextVictim, SweepDone,
           Select, VictimsDone
  <1>3. ASSUME Fault(p) PROVE faults' = faults + 1
    <2>1. Faulty
      BY <1>3 DEF Fault, PurgeDataFails, RemoveDataFails, RemoveMetaFails, ClearFails,
             PutSizeFails, WriteFails, RenameFails, SaveFails, EvictSizeFails, GetFails,
             GetReadFails, ExistsFails, SkipFails
    <2> QED
      BY <2>1 DEF Faulty
  <1> QED
    BY <1>1, <1>2, <1>3

\* What is lost without an answer changing is a Vanish.
LEMMA VanishStep ==
    ASSUME Abs!Lose, Pend' = Pend, res' = res, faults' = faults \/ faults' = faults + 1
    PROVE  Abs!Vanish
  BY DEF Abs!Vanish, Abs!Fault, Pend

\* An operation that returns an error is a Fail.
LEMMA FailStep ==
    ASSUME IInv, NEW p \in Procs, Fault(p), Abs!Lose, Finish(p, Error)
    PROVE  Abs!Fail(p)
  <1>1. op'[p] = "idle"
    BY DEF IInv, TypeOK, ThreadsOK, Finish
  <1>2. Pend' = [Pend EXCEPT ![p] = {}]
    BY <1>1, PendStep
  <1>3. res' = [res EXCEPT ![p] = Abs!Result("error", NoKey, 0)]
    BY DEF Finish, Error, Result, Abs!Result
  <1> QED
    BY <1>2, <1>3, FaultsStep DEF Abs!Fail, Abs!Fault, Pend

\* Starting an operation, and Exists, refine Call, StartPut and Probe.
LEMMA CallRefines ==
    ASSUME IInv, IInv', NEW p \in Procs, Call(p)
    PROVE  Abs!AbsNext
  <1>0. ThreadsOK /\ DiskOK /\ Store' = Store /\ faults' = faults
    BY StoreKept, FaultsStep DEF IInv, TypeOK, Call, ClearBegin, EvictBegin, GetBegin, DeleteBegin, Exists,
                     PutBegin, diskvars
  <1>a. op[p] = "idle" /\ Pend[p] = {} /\ \A q \in Procs \ {p} : op'[q] = op[q] /\ loc'[q] = loc[q]
    BY <1>0 DEF Call, ClearBegin, EvictBegin, GetBegin, DeleteBegin, Exists, PutBegin, Enter,
                ThreadsOK, Pend, Pending
  <1>1. ASSUME NEW o \in Ops \ {"put"}, NEW l, NEW a, Enter(p, o, l, a)
        PROVE  Abs!Call(p)
    <2>1. op'[p] # "put"
      BY <1>0, <1>1 DEF Enter, ThreadsOK
    <2>2. Pend' = Pend
      BY <1>a, <2>1 DEF Pend, Pending
    <2>3. res' = [res EXCEPT ![p] = Abs!NoResult]
      BY <1>1 DEF Enter, NoResult, Result, Abs!NoResult, Abs!Result
    <2> QED
      BY <1>0, <1>a, <2>2, <2>3 DEF Abs!Call, Store, Pend
  <1>2. ASSUME NEW k \in Keys, Exists(p, k) PROVE Abs!Probe(p)
    <2>1. Pend' = Pend
      BY <1>2 DEF Exists, Pend, Pending
    <2>2. data[k].ver \in Nat /\ Store[k] = Visible(k)
      BY <1>0 DEF DiskOK, DataFiles, Store
    <2>3. (data[k].ver # 0 /\ meta[k].created # 0 /\ ~Expired(meta[k])) <=> Store[k] # 0
      BY <2>2 DEF Visible
    <2>4. res' = [res EXCEPT ![p] = Abs!Result(IF Store[k] = 0 THEN "no" ELSE "yes", k, 0)]
      BY <1>2, <2>3 DEF Exists, Result, Abs!Result
    <2> QED
      BY <1>0, <1>a, <2>1, <2>4 DEF Abs!Probe, Store, Pend
  <1>3. ASSUME NEW k \in Keys, NEW n \in Sizes, NEW ttl \in TTLs, PutBegin(p, k, n, ttl)
        PROVE  Abs!StartPut(p)
    <2>1. op'[p] = "put" /\ loc'[p].key = k /\ loc'[p].ver = clock + 1
      BY <1>0, <1>3 DEF PutBegin, Enter, ThreadsOK, NoLoc
    <2>2. clock + 1 \in 1..MaxPuts
      BY <1>0, <1>3, BoundsAssumption DEF PutBegin, DiskOK
    <2>3. Pending(p)' = {<<k, clock + 1>>} /\ \A q \in Procs \ {p} : Pending(q)' = Pending(q)
      BY <1>a, <2>1 DEF Pending
    <2>4. Pend' = [Pend EXCEPT ![p] = {<<k, clock + 1>>}]
      BY <2>3 DEF Pend
    <2>5. res' = [res EXCEPT ![p] = Abs!NoResult]
      BY <1>3 DEF PutBegin, Enter, NoResult, Result, Abs!NoResult, Abs!Result
    <2> QED
      BY <1>0, <1>a, <2>2, <2>4, <2>5 DEF Abs!StartPut, Store, Pend
  <1>4. ASSUME Abs!Call(p) \/ Abs!Probe(p) \/ Abs!StartPut(p) PROVE Abs!AbsNext
    BY <1>4 DEF Abs!AbsNext
  <1>5. CASE \E k \in Keys : GetBegin(p, k) \/ DeleteBegin(p, k)
    BY <1>1, <1>4, <1>5 DEF GetBegin, DeleteBegin, Ops
  <1>6. CASE ClearBegin(p) \/ EvictBegin(p)
    BY <1>1, <1>4, <1>6 DEF ClearBegin, EvictBegin, Ops
  <1> QED
    BY <1>2, <1>3, <1>4, <1>5, <1>6 DEF Call

\* GetMiss, GetHit and GetExpired answer what the store holds.
LEMMA ReadStep ==
    ASSUME IInv, NEW p \in Procs, GetMiss(p) \/ GetHit(p) \/ GetExpired(p)
    PROVE  Abs!Read(p)
  <1> DEFINE k == loc[p].key
  <1>0. ThreadsOK /\ DiskOK /\ k \in Keys /\ op[p] = "get"
    BY DEF IInv, TypeOK, StepInv, GetMiss, GetHit, GetExpired, At
  <1>1. Store' = Store /\ faults' = faults
    BY StoreKept DEF GetMiss, GetHit, GetExpired, diskvars
  <1>2. Pend' = Pend /\ Pend[p] = {}
    BY <1>0, PendStep DEF Step, Pend, Pending
  <1>3. Store[k] = Visible(k) /\ data[k].ver \in Nat
    BY <1>0 DEF Store, DiskOK, DataFiles
  <1>4. res' = [res EXCEPT ![p] = Abs!Result(IF Store[k] = 0 THEN "miss" ELSE "hit", k, Store[k])]
    <2>1. CASE GetMiss(p)
      <3>1. Store[k] = 0
        BY <1>3, <2>1 DEF GetMiss, Visible
      <3> QED
        BY <2>1, <3>1 DEF GetMiss, Finish, Result, Abs!Result
    <2>2. CASE GetHit(p)
      <3>1. Store[k] = data[k].ver /\ Store[k] # 0
        BY <1>3, <2>2 DEF GetHit, Visible
      <3> QED
        BY <2>2, <3>1 DEF GetHit, Finish, Result, Abs!Result
    <2>3. CASE GetExpired(p)
      <3>1. Store[k] = 0
        BY <1>3, <2>3 DEF GetExpired, Visible
      <3> QED
        BY <2>3, <3>1 DEF GetExpired, Result, Abs!Result
    <2> QED
      BY <2>1, <2>2, <2>3
  <1> HIDE DEF k
  <1> QED
    BY <1>0, <1>1, <1>2, <1>4 DEF Abs!Read, Store, Pend

\* Removing files on behalf of anyone but a Delete is a Vanish.
LEMMA AfterRemoveRefines ==
    ASSUME IInv, NEW p \in Procs, NEW r, Step(p) \/ Fault(p), Abs!Lose, AfterRemove(p, r),
           op[p] # "delete"
    PROVE  Abs!Vanish
  <1>0. ThreadsOK
    BY DEF IInv, TypeOK
  <1>1. res' = res
    BY <1>0 DEF AfterRemove, Finish, Goto, ThreadsOK
  <1>2. Pend' = Pend
    <2>1. CASE op[p] = "put"
      <3>1. op'[p] # "idle"
        BY <2>1 DEF AfterRemove, Goto
      <3> QED
        BY <3>1, PendStep
    <2>2. CASE op[p] # "put"
      BY <2>2, PendStep
    <2> QED
      BY <2>1, <2>2
  <1> QED
    BY <1>1, <1>2, VanishStep, FaultsStep

\* The remove calls refine Removed or Vanish.
LEMMA RemoveRefines ==
    ASSUME IInv, NEW p \in Procs, RemoveData(p) \/ RemoveMeta(p)
    PROVE  Abs!AbsNext
  <1>0. ThreadsOK /\ DiskOK /\ loc[p].cur \in Keys /\ Step(p) /\ faults' = faults
    BY DEF IInv, TypeOK, StepInv, RemoveData, RemoveMeta, At, Step
  <1>1. Abs!Lose
    BY <1>0, FilesLose DEF RemoveData, RemoveMeta, DiskOK
  <1>2. CASE RemoveData(p)
    <2>1. op'[p] # "idle" /\ res' = res
      BY <1>2 DEF IInv, StepInv, RemoveData, Goto, At
    <2>2. Abs!Vanish
      BY <1>0, <1>1, <2>1, PendStep, VanishStep
    <2> QED
      BY <2>2 DEF Abs!AbsNext
  <1>3. CASE RemoveMeta(p) /\ op[p] # "delete"
    <2>1. Abs!Vanish
      BY <1>0, <1>1, <1>3, AfterRemoveRefines DEF RemoveMeta
    <2> QED
      BY <2>1 DEF Abs!AbsNext
  <1>4. CASE RemoveMeta(p) /\ op[p] = "delete"
    <2>1. Pend' = Pend /\ Pend[p] = {}
      BY <1>0, <1>4, PendStep DEF Pend, Pending
    <2>2. res' = [res EXCEPT ![p] = Abs!Result("deleted", loc[p].cur, 0)]
      BY <1>4 DEF RemoveMeta, AfterRemove, Finish, Result, Abs!Result
    <2>3. meta'[loc[p].cur] = Unreadable
      BY <1>0, <1>4 DEF RemoveMeta, DiskOK
    <2>4. ASSUME NEW k \in Keys, k = loc[p].cur PROVE Store'[k] = 0
      BY <2>3, <2>4 DEF Store, Visible, Unreadable
    <2>5. Abs!Removed(p)
      BY <1>0, <1>1, <2>1, <2>2, <2>4 DEF Abs!Removed, Store, Pend
    <2> QED
      BY <2>5 DEF Abs!AbsNext
  <1> QED
    BY <1>2, <1>3, <1>4

\* Renaming the data into place applies the Put or changes nothing visible.
LEMMA RenameRefines ==
    ASSUME IInv, NEW p \in Procs, Rename(p)
    PROVE  Abs!AbsNext \/ (Store' = Store /\ Pend' = Pend /\ UNCHANGED <<res, faults>>)
  <1> DEFINE k == loc[p].key
             v == loc[p].ver
  <1>0. ThreadsOK /\ DiskOK /\ op[p] = "put" /\ k \in Keys /\ Step(p) /\ VersionInv
    BY DEF IInv, TypeOK, StepInv, Rename, At, Step
  <1>1. v \in 1..MaxPuts
    BY <1>0, BoundsAssumption DEF VersionInv, DiskOK
  <1>2. UNCHANGED <<res, faults, op>> /\ Pend[p] = {<<k, v>>}
    BY <1>0 DEF Rename, Goto, Pend, Pending
  <1>3. Pend' = Pend
    BY <1>0, <1>2, PendStep
  <1>4. \A j \in Keys \ {k} : Store'[j] = Store[j]
    BY <1>0 DEF Rename, DiskOK, Store, Visible, Expired
  <1>5. Store'[k] = v \/ Store'[k] = Store[k]
    BY <1>0 DEF Rename, DiskOK, Store, Visible, Expired
  <1>6. Store' = [Store EXCEPT ![k] = v] \/ Store' = Store
    BY <1>0, <1>4, <1>5 DEF Store
  <1> HIDE DEF k, v
  <1>7. CASE Store' = [Store EXCEPT ![k] = v]
    <2>1. Abs!Apply(p)
      BY <1>0, <1>1, <1>2, <1>3, <1>7 DEF Abs!Apply, Store, Pend
    <2> QED
      BY <2>1 DEF Abs!AbsNext
  <1> QED
    BY <1>2, <1>3, <1>6, <1>7

\* Saving the metadata commits the Put.
LEMMA SaveRefines ==
    ASSUME IInv, NEW p \in Procs, Save(p)
    PROVE  Abs!CommitPut(p)
  <1> DEFINE k == loc[p].key
             v == loc[p].ver
  <1>0. /\ ThreadsOK /\ DiskOK /\ op[p] = "put" /\ k \in Keys /\ Step(p)
        /\ VersionInv /\ SectionInv /\ pc[p] = "save"
    BY DEF IInv, TypeOK, StepInv, Save, At, Step
  <1>a. faults' = faults
    BY DEF Save
  <1>1. v \in 1..MaxPuts /\ v # 0 /\ v \notin aged
    BY <1>0, BoundsAssumption DEF VersionInv, DiskOK
  <1>2. op'[p] = "idle" /\ Pend[p] = {<<k, v>>}
    BY <1>0 DEF Save, Finish, Pend, Pending, ThreadsOK
  <1>3. Pend' = [Pend EXCEPT ![p] = {}]
    BY <1>0, <1>2, PendStep
  <1>4. \A j \in Keys \ {k} : Store'[j] = Store[j]
    BY <1>0 DEF Save, DiskOK, Store, Visible, Expired
  <1>5. data[k] = [ver |-> v, size |-> loc[p].size] /\ meta'[k].created = v
    BY <1>0 DEF SectionInv, Save, DiskOK
  <1>6. ASSUME NEW j \in Keys, j = k PROVE Visible(j)' = v
    <2>1. data'[j].ver = v /\ aged' = aged
      BY <1>5, <1>6 DEF Save
    <2> QED
      BY <1>1, <1>5, <1>6, <2>1 DEF Visible, Expired
  <1>7. Store' = [Store EXCEPT ![k] = v]
    BY <1>0, <1>4, <1>6 DEF Store
  <1>8. res' = [res EXCEPT ![p] = Abs!Result("stored", k, v)]
    BY DEF Save, Finish, Result, Abs!Result
  <1> HIDE DEF k, v
  <1> QED
    BY <1>0, <1>a, <1>1, <1>2, <1>3, <1>7, <1>8 DEF Abs!CommitPut, Store, Pend

\* Clear empties the store.
LEMMA ClearRefines == ASSUME IInv, NEW p \in Procs, Clear(p) PROVE Abs!Cleared(p)
  <1>1. op[p] = "clear" /\ Step(p) /\ faults' = faults
    BY DEF IInv, StepInv, Clear, At, Step
  <1>2. Pend' = Pend /\ Pend[p] = {}
    BY <1>1, PendStep DEF Pend, Pending
  <1>3. Store' = [k \in Keys |-> 0]
    BY DEF Clear, Store, Visible, Unreadable
  <1>4. res' = [res EXCEPT ![p] = Abs!Result("cleared", NoKey, 0)]
    BY DEF Clear, Finish, Result, Abs!Result
  <1> QED
    BY <1>1, <1>2, <1>3, <1>4 DEF Abs!Cleared, Store, Pend

\* Every step of an operation refines the abstract cache.
LEMMA StepRefines ==
    ASSUME IInv, NEW p \in Procs, Step(p)
    PROVE  Abs!AbsNext \/ (Store' = Store /\ Pend' = Pend /\ UNCHANGED <<res, faults>>)
  <1>0. ThreadsOK /\ StepInv /\ faults' = faults
    BY FaultsStep DEF IInv, TypeOK
  <1>1. CASE GetMiss(p) \/ GetHit(p) \/ GetExpired(p)
    BY <1>1, ReadStep DEF Abs!AbsNext
  <1>2. CASE RemoveData(p) \/ RemoveMeta(p)
    BY <1>2, RemoveRefines
  <1>3. CASE Clear(p)
    BY <1>3, ClearRefines DEF Abs!AbsNext
  <1>4. CASE Rename(p)
    BY <1>4, RenameRefines
  <1>5. CASE Save(p)
    BY <1>5, SaveRefines DEF Abs!AbsNext
  <1>6. ASSUME UNCHANGED <<data, meta, aged>>, Finish(p, Result("swept", NoKey, 0)),
               op[p] # "put"
        PROVE  Abs!AbsNext
    <2>1. Pend' = Pend /\ Pend[p] = {}
      BY <1>6, PendStep DEF Pend, Pending
    <2>2. Abs!Lose
      BY <1>6, FilesLose
    <2>3. res' = [res EXCEPT ![p] = Abs!Result("swept", NoKey, 0)]
      BY <1>6 DEF Finish, Result, Abs!Result
    <2>4. Abs!Swept(p)
      BY <1>0, <2>1, <2>2, <2>3 DEF Abs!Swept, Pend
    <2> QED
      BY <2>4 DEF Abs!AbsNext
  <1>7. ASSUME UNCHANGED <<data, meta, aged, res>>, op'[p] # "idle"
        PROVE  Store' = Store /\ Pend' = Pend /\ UNCHANGED <<res, faults>>
    BY <1>0, <1>7, StoreKept, PendStep
  <1>8. CASE SweepDone(p)
    BY <1>0, <1>6, <1>8 DEF SweepDone, diskvars, StepInv, At
  <1>9. CASE VictimsDone(p)
    <2>1. CASE op[p] = "put"
      <3>1. UNCHANGED <<data, meta, aged, res>> /\ op'[p] # "idle"
        BY <1>9, <2>1 DEF VictimsDone, diskvars, Goto
      <3> QED
        BY <1>7, <3>1
    <2>2. CASE op[p] # "put"
      BY <1>6, <1>9, <2>2 DEF VictimsDone, diskvars
    <2> QED
      BY <2>1, <2>2
  <1>10. CASE PutSize(p) \/ Write(p) \/ EvictSize(p)
    <2>1. UNCHANGED <<data, meta, aged, res>> /\ op'[p] # "idle"
      BY <1>0, <1>10 DEF PutSize, Write, EvictSize, MakeRoom, Goto, diskvars, ThreadsOK, StepInv, At
    <2> QED
      BY <1>7, <2>1
  <1>11. CASE \/ Scan(p, "scan", "collect") \/ Scan(p, "sweepscan", "check") \/ Select(p)
              \/ \E k \in Keys : SweepCheck(p, k) \/ Collect(p, k) \/ NextVictim(p, k)
    <2>1. UNCHANGED <<data, meta, aged, res>> /\ op'[p] # "idle"
      BY <1>0, <1>11 DEF Scan, Select, SweepCheck, Collect, NextVictim, Goto, diskvars, StepInv, At
    <2> QED
      BY <1>7, <2>1
  <1> QED
    BY <1>1, <1>2, <1>3, <1>4, <1>5, <1>8, <1>9, <1>10, <1>11 DEF Step

\* Every failed call refines the abstract cache.
LEMMA FaultRefines ==
    ASSUME IInv, NEW p \in Procs, Fault(p)
    PROVE  Abs!AbsNext
  <1>0. ThreadsOK /\ StepInv /\ DiskOK
    BY DEF IInv, TypeOK
  <1>a. faults' = faults + 1
    BY FaultsStep
  <1>1. Abs!Fail(p) \/ Abs!Vanish \/ Abs!ReadFails(p) \/ Abs!ProbeFails(p) => Abs!AbsNext
    BY DEF Abs!AbsNext
  <1>2. CASE PurgeDataFails(p) \/ PutSizeFails(p)
    <2>1. UNCHANGED <<data, meta, aged, res>> /\ op'[p] # "idle"
      BY <1>0, <1>2 DEF PurgeDataFails, PutSizeFails, MakeRoom, Goto, diskvars
    <2>2. Abs!Lose
      BY <2>1, FilesLose
    <2> QED
      BY <1>a, <1>1, <2>1, <2>2, PendStep, VanishStep
  <1>3. CASE RemoveDataFails(p) \/ RemoveMetaFails(p)
    <2>1. Abs!Lose /\ AfterRemove(p, Error)
      BY <1>3, FilesLose DEF RemoveDataFails, RemoveMetaFails, diskvars
    <2>2. CASE op[p] = "delete"
      BY <1>1, <2>1, <2>2, FailStep DEF AfterRemove
    <2>3. CASE op[p] # "delete"
      BY <1>1, <2>1, <2>3, AfterRemoveRefines
    <2> QED
      BY <2>2, <2>3
  <1>4. CASE ClearFails(p)
    <2>1. Abs!Lose /\ Finish(p, Error)
      BY <1>0, <1>4, FilesLose DEF ClearFails
    <2> QED
      BY <1>1, <2>1, FailStep
  <1>5. CASE WriteFails(p) \/ RenameFails(p) \/ EvictSizeFails(p)
    <2>1. Abs!Lose /\ Finish(p, Error)
      BY <1>5, FilesLose DEF WriteFails, RenameFails, EvictSizeFails, diskvars
    <2> QED
      BY <1>1, <2>1, FailStep
  <1>6. CASE SaveFails(p)
    <2>1. Abs!Lose /\ Finish(p, Error)
      BY <1>0, <1>6, FilesLose DEF SaveFails, DiskOK
    <2> QED
      BY <1>1, <2>1, FailStep
  <1>7. CASE GetFails(p) \/ GetReadFails(p)
    <2> DEFINE k == loc[p].key
    <2>1. op[p] = "get" /\ k \in Keys /\ data[k].ver \in Nat
      BY <1>0, <1>7 DEF StepInv, DiskOK, DataFiles, GetFails, GetReadFails, At
    <2>2. Pend' = Pend /\ Pend[p] = {}
      BY <2>1, PendStep DEF Pend, Pending
    <2>3. Store' = Store /\ Store[k] = Visible(k)
      BY <1>7, <2>1, StoreKept DEF GetFails, GetReadFails, diskvars, Store
    <2>4. \/ res' = [res EXCEPT ![p] = Abs!Result("miss", k, 0)]
          \/ Store[k] # 0 /\ res' = [res EXCEPT ![p] = Abs!Result("hit", k, 0)]
      BY <1>7, <2>1, <2>3 DEF GetFails, GetReadFails, Finish, Visible, Result, Abs!Result
    <2> HIDE DEF k
    <2>5. Abs!ReadFails(p)
      BY <1>a, <2>1, <2>2, <2>3, <2>4 DEF Abs!ReadFails, Abs!Fault, Store, Pend
    <2> QED
      BY <1>1, <2>5
  <1>8. ASSUME NEW k \in Keys, ExistsFails(p, k) PROVE Abs!AbsNext
    <2>1. Pend' = Pend /\ Pend[p] = {} /\ Store' = Store
      BY <1>8, StoreKept DEF ExistsFails, diskvars, Pend, Pending
    <2>2. res' = [res EXCEPT ![p] = Abs!Result("no", k, 0)]
      BY <1>8 DEF ExistsFails, Result, Abs!Result
    <2>3. Abs!ProbeFails(p)
      BY <1>a, <2>1, <2>2 DEF Abs!ProbeFails, Abs!Fault, Store, Pend
    <2> QED
      BY <1>1, <2>3
  <1>9. ASSUME NEW k \in Keys, SkipFails(p, k) PROVE Abs!AbsNext
    <2>1. UNCHANGED <<data, meta, aged, res>> /\ op'[p] # "idle"
      BY <1>0, <1>9 DEF SkipFails, StepInv, diskvars
    <2>2. Abs!Lose
      BY <2>1, FilesLose
    <2> QED
      BY <1>a, <1>1, <2>1, <2>2, PendStep, VanishStep
  <1> QED
    BY <1>2, <1>3, <1>4, <1>5, <1>6, <1>7, <1>8, <1>9 DEF Fault

\* Late access-time updates, elapsed TTLs and crashes refine the abstract cache.
LEMMA EnvironmentRefines ==
    ASSUME IInv, \/ \E g \in Touchers : TouchStep(g) \/ TouchFault(g)
                 \/ \E v \in 1..MaxPuts : Elapse(v)
                 \/ Crash
    PROVE  Abs!AbsNext
  <1>0. ASSUME UNCHANGED <<op, loc, res>>, Abs!Lose, faults' = faults \/ faults' = faults + 1
        PROVE  Abs!AbsNext
    <2>1. Pend' = Pend
      BY <1>0 DEF Pend, Pending
    <2> QED
      BY <1>0, <2>1, VanishStep DEF Abs!AbsNext
  <1>1. ASSUME NEW g \in Touchers, TouchLoad(g) \/ TouchLoadFails(g) PROVE Abs!AbsNext
    BY <1>0, <1>1, FilesLose DEF TouchLoad, TouchLoadFails, Faulty, diskvars
  <1>2. ASSUME NEW g \in Touchers, TouchSave(g) \/ TouchSaveFails(g) PROVE Abs!AbsNext
    <2>1. /\ data' = data /\ aged' = aged /\ UNCHANGED <<op, loc, res>>
          /\ faults' = faults \/ faults' = faults + 1
      BY <1>2 DEF TouchSave, TouchSaveFails, Faulty
    <2>2. ASSUME NEW k \in Keys PROVE Visible(k)' = Visible(k) \/ Visible(k)' = 0
      BY <1>2, <2>1, TouchMeta DEF Visible, Expired, Unreadable
    <2> QED
      BY <1>0, <2>1, <2>2, StoreLoses
  <1>3. ASSUME NEW v \in 1..MaxPuts, Elapse(v) PROVE Abs!AbsNext
    <2>1. ASSUME NEW k \in Keys PROVE Visible(k)' = Visible(k) \/ Visible(k)' = 0
      BY <1>3 DEF Elapse, diskvars, Visible, Expired
    <2> QED
      BY <1>0, <1>3, <2>1, StoreLoses DEF Elapse
  <1>4. CASE Crash
    <2>1. Abs!Lose
      BY <1>4, FilesLose DEF Crash
    <2>2. Pend' = [p \in Procs |-> {}]
      BY <1>4 DEF Crash, Pend, Pending
    <2>3. res' = [p \in Procs |-> Abs!NoResult]
      BY <1>4 DEF Crash, NoResult, Result, Abs!NoResult, Abs!Result
    <2>4. Abs!Restart
      BY <1>4, <2>1, <2>2, <2>3 DEF Crash, Faulty, Abs!Restart, Abs!Fault, Pend
    <2> QED
      BY <2>4 DEF Abs!AbsNext
  <1> QED
    BY <1>1, <1>2, <1>3, <1>4 DEF TouchStep, TouchFault

\* The file cache implements the abstract cache: a hit returns what the key
\* holds, a version becomes visible only during its own Put, and an operation
\* that reports success has had its effect, for any number of keys, goroutines
\* and Puts and whatever fails or crashes.
THEOREM Refinement == Spec => CacheContract
  <1>1. Init => Abs!AbsInit
    <2> SUFFICES ASSUME Init PROVE Abs!AbsInit
      OBVIOUS
    <2>1. Store = [k \in Keys |-> 0] /\ Pend = [p \in Procs |-> {}]
      BY DEF Init, Store, Visible, Unreadable, Pend, Pending
    <2>2. res = [p \in Procs |-> Abs!NoResult] /\ faults = 0
      BY DEF Init, NoResult, Result, Abs!NoResult, Abs!Result
    <2> QED
      BY <2>1, <2>2 DEF Abs!AbsInit, Store, Pend
  <1>2. IInv /\ IInv' /\ [Next]_vars => [Abs!AbsNext]_(Abs!absvars)
    <2> SUFFICES ASSUME IInv, IInv', [Next]_vars
                 PROVE  Abs!AbsNext \/ (Store' = Store /\ Pend' = Pend /\ UNCHANGED <<res, faults>>)
      BY DEF Abs!absvars, Store, Pend
    <2>1. CASE UNCHANGED vars
      BY <2>1 DEF vars, Store, Visible, Expired, Pend, Pending
    <2>2. CASE Next
      BY <2>2, CallRefines, StepRefines, FaultRefines, EnvironmentRefines DEF Next
    <2> QED
      BY <2>1, <2>2
  <1> QED
    BY <1>1, <1>2, Invariance, PTL DEF Spec, CacheContract, Abs!AbsSpec

=============================================================================
