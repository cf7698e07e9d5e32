---------------------------- MODULE ContentProofs ----------------------------
(***************************************************************************)
(* Proofs about the stores of package content other than the file cache:   *)
(* S3Cache, the proxy flow in front of a cache (ProxyFlow), FileRepository *)
(* and BlobStore, for any number of keys, clients and versions.            *)
(***************************************************************************)
EXTENDS S3Cache, ProxyFlow, FileRepository, BlobStore, TLAPS

----------------------------------------------------------------------------
(* S3Cache *)

\* An access update holds metadata of an earlier Put, never newer than the stored content.
TouchInv ==
    \A x \in Touches :
       /\ touch[x] \in 0..puts \cup {NoTouch}
       /\ obj # 0 /\ touch[x] # NoTouch => touch[x] <= obj

\* Between its two requests a Put finds its own content in place.
PutInv == s3mu = "put" => obj = puts /\ ~kept

\* A reported Put that nothing overtook is left alone by all that is under way.
KeptInv ==
    (kept /\ ~overtaken /\ puts \notin lapsed) =>
       /\ obj = puts /\ objMeta = puts /\ s3mu = "none" /\ purges = 0
       /\ \A x \in Touches : touch[x] \in {NoTouch, 0, puts}

S3Inv == S3TypeOK /\ TouchInv /\ PutInv /\ S3MetaNotNewer /\ KeptInv

LEMMA S3Start == S3Init => S3Inv
  <1> SUFFICES ASSUME S3Init PROVE S3Inv
    OBVIOUS
  <1> USE S3Assumption DEF S3Init
  <1>1. kept \in BOOLEAN /\ overtaken \in BOOLEAN /\ ~kept
    OBVIOUS
  <1>2. S3TypeOK /\ TouchInv
    BY <1>1 DEF S3TypeOK, TouchInv, NoTouch
  <1>3. PutInv /\ S3MetaNotNewer /\ KeptInv
    BY <1>1 DEF PutInv, S3MetaNotNewer, KeptInv
  <1> QED
    BY <1>2, <1>3 DEF S3Inv

\* The steps of Get and of the goroutines that updateAccessTime runs in.
LEMMA ReadKeeps ==
    ASSUME S3Inv, GetExpired \/ \E x \in Touches : GetHit(x) \/ ReadMeta(x)
    PROVE  S3Inv'
  <1> USE S3Assumption DEF S3Inv, S3TypeOK, NoTouch
  <1>1. CASE GetExpired
    BY <1>1 DEF GetExpired, Expired, TouchInv, PutInv, S3MetaNotNewer, KeptInv
  <1>2. ASSUME NEW x \in Touches, GetHit(x) PROVE S3Inv'
    BY <1>2 DEF GetHit, TouchInv, PutInv, S3MetaNotNewer, KeptInv
  <1>3. ASSUME NEW x \in Touches, ReadMeta(x) PROVE S3Inv'
    BY <1>3 DEF ReadMeta, TouchInv, PutInv, S3MetaNotNewer, KeptInv
  <1> QED
    BY <1>1, <1>2, <1>3

\* The late write of an access update.
LEMMA WriteMetaKeeps ==
    ASSUME S3Inv, NEW x \in Touches, WriteMeta(x) PROVE S3Inv'
  <1> USE S3Assumption DEF S3Inv, S3TypeOK, NoTouch, WriteMeta
  <1>1. touch[x] \in 1..puts
    BY DEF TouchInv
  <1>2. S3TypeOK' /\ TouchInv' /\ PutInv'
    BY <1>1 DEF TouchInv, PutInv
  <1>3. S3MetaNotNewer'
    BY <1>1 DEF TouchInv, S3MetaNotNewer
  <1>4. KeptInv'
    BY <1>1 DEF KeptInv
  <1> QED
    BY <1>2, <1>3, <1>4

\* Put, Delete and Clear, their failures and the death of the process.
LEMMA WriteKeeps ==
    ASSUME S3Inv,
           \/ PutObject \/ PutMetadata \/ DeleteObject \/ ClearObject \/ DeleteMetadata
           \/ SecondFails \/ PurgeFails \/ S3Crash \/ \E v \in 1..MaxPuts : AgeOut(v)
    PROVE  S3Inv'
  <1> USE S3Assumption DEF S3Inv, S3TypeOK, NoTouch
  <1>1. CASE PutObject
    <2>1. ~kept' /\ kept' \in BOOLEAN
      BY <1>1 DEF PutObject
    <2>2. S3TypeOK' /\ TouchInv'
      BY <1>1, <2>1 DEF PutObject, TouchInv
    <2>3. PutInv' /\ S3MetaNotNewer' /\ KeptInv'
      BY <1>1, <2>1 DEF PutObject, PutInv, S3MetaNotNewer, KeptInv
    <2> QED
      BY <2>2, <2>3
  <1>2. CASE PutMetadata
    <2>0. kept' \in BOOLEAN /\ overtaken' \in BOOLEAN
      BY <1>2, Zenon DEF PutMetadata
    <2>1. S3TypeOK' /\ TouchInv' /\ PutInv' /\ S3MetaNotNewer'
      BY <1>2, <2>0 DEF PutMetadata, TouchInv, PutInv, S3MetaNotNewer
    <2>2. ASSUME ~overtaken' PROVE purges = 0 /\ \A x \in Touches : touch[x] \in {NoTouch, 0}
      <3>1. ~(purges > 0 \/ \E x \in Touches : touch[x] \in 1..MaxPuts)
        BY <1>2, <2>2, Zenon DEF PutMetadata
      <3> QED
        BY <3>1
    <2>3. KeptInv'
      BY <1>2, <2>2 DEF PutMetadata, PutInv, KeptInv
    <2> QED
      BY <2>1, <2>3
  <1>3. CASE DeleteObject \/ ClearObject
    <2>0. /\ obj' \in {obj, 0} /\ s3mu' = "delete"
          /\ UNCHANGED <<objMeta, puts, lapsed, touch, overtaken>>
      BY <1>3 DEF DeleteObject, ClearObject
    <2>1. (~kept' /\ purges' = purges) \/ (kept' = kept /\ purges > 0 /\ purges' = purges - 1)
      BY <1>3 DEF DeleteObject, ClearObject
    <2>2. kept' \in BOOLEAN
      BY <1>3 DEF DeleteObject, ClearObject
    <2>3. S3TypeOK' /\ TouchInv'
      BY <2>0, <2>1, <2>2 DEF TouchInv
    <2>4. PutInv' /\ S3MetaNotNewer' /\ KeptInv'
      BY <1>3, <2>1 DEF DeleteObject, ClearObject, PutInv, S3MetaNotNewer, KeptInv
    <2> QED
      BY <2>3, <2>4
  <1>4. CASE DeleteMetadata
    BY <1>4 DEF DeleteMetadata, TouchInv, PutInv, S3MetaNotNewer, KeptInv
  <1>5. CASE SecondFails
    BY <1>5 DEF SecondFails, TouchInv, PutInv, S3MetaNotNewer, KeptInv
  <1>6. CASE PurgeFails
    BY <1>6 DEF PurgeFails, TouchInv, PutInv, S3MetaNotNewer, KeptInv
  <1>7. CASE S3Crash
    BY <1>7 DEF S3Crash, TouchInv, PutInv, S3MetaNotNewer, KeptInv
  <1>8. ASSUME NEW v \in 1..MaxPuts, AgeOut(v) PROVE S3Inv'
    BY <1>8 DEF AgeOut, TouchInv, PutInv, S3MetaNotNewer, KeptInv
  <1> QED
    BY <1>1, <1>2, <1>3, <1>4, <1>5, <1>6, <1>7, <1>8

\* S3Inv is an invariant: it holds at the start and every step, a late purge or access update
\* included, keeps it.
THEOREM S3Invariance == S3Spec => []S3Inv
  <1>1. S3Inv /\ [S3Next]_s3Vars => S3Inv'
    <2> SUFFICES ASSUME S3Inv, [S3Next]_s3Vars PROVE S3Inv'
      OBVIOUS
    <2>1. CASE S3Next
      BY <2>1, ReadKeeps, WriteMetaKeeps, WriteKeeps DEF S3Next
    <2>2. CASE UNCHANGED s3Vars
      BY <2>2 DEF s3Vars, S3Inv, S3TypeOK, TouchInv, PutInv, S3MetaNotNewer, KeptInv
    <2> QED
      BY <2>1, <2>2
  <1> QED
    BY <1>1, S3Start, PTL DEF S3Spec

\* Content in S3 never lies under the metadata of a newer Put.
THEOREM S3NeverNewer == S3Spec => []S3MetaNotNewer
  <1>1. S3Inv => S3MetaNotNewer
    BY DEF S3Inv
  <1> QED
    BY <1>1, S3Invariance, PTL

\* A reported Put stays readable until it expires or is removed, unless an older purge or
\* access update was on its way when Put returned.
THEOREM S3PutSticks == S3Spec => []S3EntryKept
  <1>1. S3Inv => S3EntryKept
    BY DEF S3Inv, S3TypeOK, KeptInv, S3EntryKept
  <1> QED
    BY <1>1, S3Invariance, PTL

----------------------------------------------------------------------------
(* ProxyFlow *)

\* Nobody knows a version that the upstream has not published.
PublishedInv == purgedAt <= upstream /\ cached <= upstream /\ \A r \in Requests : body[r] <= upstream

\* What is being read or waits to be stored was sent after the last Invalidate, or was noted
\* by it.
WaitingInv ==
    \A r \in Requests :
        request[r] \in {"reading", "store"} => body[r] >= purgedAt \/ body[r] \in inFlight

FlowInv == FlowTypeOK /\ PublishedInv /\ WaitingInv /\ StaleOnlyFromFlight

LEMMA FlowStart == FlowInit => FlowInv
  BY FlowAssumption
  DEF FlowInit, FlowInv, FlowTypeOK, PublishedInv, WaitingInv, StaleOnlyFromFlight

\* A request keeps the invariant wherever it is and whoever else is under way.
LEMMA RequestKeeps ==
    ASSUME FlowInv, NEW r \in Requests,
           \/ Arrive(r) \/ Hit(r) \/ Miss(r) \/ GetPackage(r) \/ FetchUpstream(r)
           \/ FetchFails(r) \/ cacheUpstreamResponse(r) \/ NotStored(r)
    PROVE  FlowInv'
  <1> USE FlowAssumption DEF FlowInv, FlowTypeOK, GoTo
  <1>1. CASE Arrive(r)
    BY <1>1 DEF Arrive, PublishedInv, WaitingInv, StaleOnlyFromFlight
  <1>2. CASE Hit(r)
    BY <1>2 DEF Hit, PublishedInv, WaitingInv, StaleOnlyFromFlight
  <1>3. CASE Miss(r) \/ NotStored(r)
    BY <1>3 DEF Miss, NotStored, PublishedInv, WaitingInv, StaleOnlyFromFlight
  <1>4. CASE GetPackage(r)
    BY <1>4 DEF GetPackage, PublishedInv, WaitingInv, StaleOnlyFromFlight
  <1>5. CASE FetchUpstream(r)
    BY <1>5 DEF FetchUpstream, PublishedInv, WaitingInv, StaleOnlyFromFlight
  <1>6. CASE cacheUpstreamResponse(r)
    BY <1>6 DEF cacheUpstreamResponse, PublishedInv, WaitingInv, StaleOnlyFromFlight
  <1>7. CASE FetchFails(r)
    <2>1. PublishedInv' /\ WaitingInv'
      BY <1>7 DEF FetchFails, PublishedInv, WaitingInv
    <2>2. FlowTypeOK' /\ StaleOnlyFromFlight'
      BY <1>7 DEF FetchFails, StaleOnlyFromFlight
    <2> QED
      BY <2>1, <2>2
  <1> QED
    BY <1>1, <1>2, <1>3, <1>4, <1>5, <1>6, <1>7

\* So do the upstream, an invalidation and the cache's own removals.
LEMMA OtherKeeps == ASSUME FlowInv, Publish \/ Invalidate \/ Drop PROVE FlowInv'
  <1> USE FlowAssumption DEF FlowInv, FlowTypeOK
  <1>1. CASE Publish
    BY <1>1 DEF Publish, PublishedInv, WaitingInv, StaleOnlyFromFlight
  <1>2. CASE Invalidate
    BY <1>2 DEF Invalidate, UnderWay, PublishedInv, WaitingInv, StaleOnlyFromFlight
  <1>3. CASE Drop
    BY <1>3 DEF Drop, PublishedInv, WaitingInv, StaleOnlyFromFlight
  <1> QED
    BY <1>1, <1>2, <1>3

\* FlowInv is an invariant of HandleProxyRequest and its storing goroutines.
THEOREM FlowInvariance == FlowSpec => []FlowInv
  <1>1. FlowInv /\ [FlowNext]_flowVars => FlowInv'
    <2> SUFFICES ASSUME FlowInv, [FlowNext]_flowVars PROVE FlowInv'
      OBVIOUS
    <2>1. CASE FlowNext
      BY <2>1, RequestKeeps, OtherKeeps DEF FlowNext
    <2>2. CASE UNCHANGED flowVars
      BY <2>2 DEF flowVars, FlowInv, FlowTypeOK, PublishedInv, WaitingInv, StaleOnlyFromFlight
    <2> QED
      BY <2>1, <2>2
  <1> QED
    BY <1>1, FlowStart, PTL DEF FlowSpec

\* After an invalidation an older version is cached only by a request that had been sent it
\* and had not stored it yet: no number of other requests in progress brings it back.
THEOREM FlowStale == FlowSpec => []StaleOnlyFromFlight
  <1>1. FlowInv => StaleOnlyFromFlight
    BY DEF FlowInv
  <1> QED
    BY <1>1, FlowInvariance, PTL

----------------------------------------------------------------------------
(* FileRepository *)

\* Metadata describes Puts that have happened.
CountInv == \A k \in RepoKeys : meta[k] <= writes /\ index.meta[k] <= writes

\* metadata.json never promises a newer file than there is, so a restart is harmless.
IndexInv == \A k \in RepoKeys : file[k] # 0 => index.meta[k] <= file[k]

\* The file a Put is about to describe is its own.
MovedInv == \A k \in RepoKeys : step = Doing("put", {k}) => file[k] = writes

\* A reported removal leaves no file, but for the ones that Clear passes over.
GoneInv == \A k \in removed \ Kept : file[k] = 0

RepoInv == RepoTypeOK /\ CountInv /\ FileNotOlder /\ IndexInv /\ MovedInv /\ GoneInv

LEMMA RepoStart == RepoInit => RepoInv
  BY RepoAssumption
  DEF RepoInit, RepoInv, RepoTypeOK, CountInv, FileNotOlder, IndexInv, MovedInv, GoneInv,
      Nothing, Unlocked, Doing

\* Dropping entries of a map keeps its type and makes nothing newer.
LEMMA WithoutKeeps ==
    ASSUME NEW f \in [RepoKeys -> 0..MaxWrites], NEW S
    PROVE  /\ Without(f, S) \in [RepoKeys -> 0..MaxWrites]
           /\ \A k \in RepoKeys : Without(f, S)[k] \in {0, f[k]}
           /\ \A k \in RepoKeys : k \in S => Without(f, S)[k] = 0
  BY RepoAssumption DEF Without

\* The steps of Put.
LEMMA PutKeeps ==
    ASSUME RepoInv, NEW k \in RepoKeys, Put(k) \/ Describe(k)
    PROVE  RepoInv'
  <1> USE RepoAssumption DEF RepoInv, RepoTypeOK, Unlocked, Doing
  <1>1. CASE Put(k)
    <2>1. RepoTypeOK' /\ CountInv'
      BY <1>1 DEF Put, CountInv
    <2>2. FileNotOlder' /\ IndexInv'
      BY <1>1 DEF Put, CountInv, FileNotOlder, IndexInv
    <2>3. MovedInv' /\ GoneInv'
      BY <1>1 DEF Put, MovedInv, GoneInv
    <2> QED
      BY <2>1, <2>2, <2>3
  <1>2. CASE Describe(k)
    <2>1. RepoTypeOK' /\ CountInv'
      BY <1>2 DEF Describe, CountInv
    <2>2. FileNotOlder' /\ IndexInv'
      BY <1>2 DEF Describe, FileNotOlder, IndexInv, MovedInv
    <2>3. MovedInv' /\ GoneInv'
      BY <1>2 DEF Describe, MovedInv, GoneInv
    <2> QED
      BY <2>1, <2>2, <2>3
  <1> QED
    BY <1>1, <1>2

\* Any step that only drops files and metadata, and notes as removed only keys whose files it
\* has dropped or passes over.
LEMMA RemovalKeeps ==
    ASSUME RepoInv,
           file' \in [RepoKeys -> 0..MaxWrites], meta' \in [RepoKeys -> 0..MaxWrites],
           \A k \in RepoKeys : file'[k] \in {0, file[k]} /\ meta'[k] \in {0, meta[k]},
           step' \in {Unlocked, Doing("save", {})},
           removed' \subseteq RepoKeys,
           \A k \in removed' \ (removed \cup Kept) : file'[k] = 0,
           UNCHANGED <<index, writes, overdue>>, mishaps' \in 0..MaxMishaps
    PROVE  RepoInv'
  <1> USE RepoAssumption DEF RepoInv, RepoTypeOK, Unlocked, Doing
  <1>1. RepoTypeOK' /\ CountInv'
    BY DEF CountInv
  <1>2. FileNotOlder' /\ IndexInv'
    BY DEF FileNotOlder, IndexInv
  <1>3. MovedInv' /\ GoneInv'
    BY DEF MovedInv, GoneInv
  <1> QED
    BY <1>1, <1>2, <1>3

\* Delete, Clear, cleanup and their failures are such steps.
LEMMA RemovingKeeps ==
    ASSUME RepoInv, Clear \/ ClearFails \/ cleanup \/ \E k \in RepoKeys : Delete(k)
    PROVE  RepoInv'
  <1> USE RepoAssumption
  <1>0. RepoTypeOK
    BY DEF RepoInv
  <1>1. ASSUME NEW k \in RepoKeys, Delete(k) PROVE RepoInv'
    BY <1>0, <1>1, RemovalKeeps DEF Delete, RepoTypeOK
  <1>2. CASE Clear
    <2>1. /\ file' = Without(file, RepoKeys \ Kept) /\ meta' = Nothing
          /\ step' = Doing("save", {}) /\ removed' = RepoKeys
          /\ UNCHANGED <<index, writes, overdue, mishaps>>
      BY <1>2 DEF Clear
    <2>2. /\ file' \in [RepoKeys -> 0..MaxWrites] /\ \A k \in RepoKeys : file'[k] \in {0, file[k]}
          /\ \A k \in RepoKeys \ Kept : file'[k] = 0
      BY <1>0, <2>1, WithoutKeeps DEF RepoTypeOK
    <2>3. meta' \in [RepoKeys -> 0..MaxWrites] /\ \A k \in RepoKeys : meta'[k] \in {0, meta[k]}
      BY <2>1 DEF Nothing
    <2> QED
      BY <1>0, <2>1, <2>2, <2>3, RemovalKeeps DEF RepoTypeOK
  <1>3. CASE ClearFails
    <2>1. PICK S \in SUBSET (RepoKeys \ Kept) : file' = Without(file, S)
      BY <1>3 DEF ClearFails
    <2>2. /\ file' \in [RepoKeys -> 0..MaxWrites] /\ \A k \in RepoKeys : file'[k] \in {0, file[k]}
      BY <1>0, <2>1, WithoutKeeps DEF RepoTypeOK
    <2>3. /\ UNCHANGED <<meta, index, step, writes, overdue, removed>> /\ step = Unlocked
          /\ mishaps' \in 0..MaxMishaps
      BY <1>0, <1>3 DEF ClearFails, Mishap, RepoTypeOK
    <2> QED
      BY <1>0, <2>2, <2>3, RemovalKeeps DEF RepoTypeOK
  <1>4. CASE cleanup
    <2>1. PICK S, E : file' = Without(file, S) /\ meta' = Without(meta, E)
      BY <1>4 DEF cleanup
    <2>2. /\ file' \in [RepoKeys -> 0..MaxWrites] /\ \A k \in RepoKeys : file'[k] \in {0, file[k]}
          /\ meta' \in [RepoKeys -> 0..MaxWrites] /\ \A k \in RepoKeys : meta'[k] \in {0, meta[k]}
      BY <1>0, <2>1, WithoutKeeps DEF RepoTypeOK
    <2>3. /\ step' = Doing("save", {}) /\ UNCHANGED <<index, writes, overdue, removed>>
          /\ mishaps' \in 0..MaxMishaps
      BY <1>0, <1>4 DEF cleanup, Mishap, RepoTypeOK
    <2> QED
      BY <1>0, <2>2, <2>3, RemovalKeeps DEF RepoTypeOK
  <1> QED
    BY <1>1, <1>2, <1>3, <1>4

\* Saving the metadata, the passage of time, refusals and restarts.
LEMMA SavingKeeps ==
    ASSUME RepoInv,
           Refused \/ Truncate \/ Saved \/ SaveFails \/ Reopen \/ \E v \in 1..MaxWrites : Lapse(v)
    PROVE  RepoInv'
  <1> USE RepoAssumption DEF RepoInv, RepoTypeOK, Unlocked, Doing
  <1>1. CASE Refused
    BY <1>1 DEF Refused, Mishap, CountInv, FileNotOlder, IndexInv, MovedInv, GoneInv
  <1>2. CASE Truncate
    BY <1>2 DEF Truncate, Nothing, CountInv, FileNotOlder, IndexInv, MovedInv, GoneInv
  <1>3. CASE Saved
    BY <1>3 DEF Saved, CountInv, FileNotOlder, IndexInv, MovedInv, GoneInv
  <1>4. CASE SaveFails
    BY <1>4 DEF SaveFails, Mishap, CountInv, FileNotOlder, IndexInv, MovedInv, GoneInv
  <1>5. CASE Reopen
    BY <1>5 DEF Reopen, Mishap, CountInv, FileNotOlder, IndexInv, MovedInv, GoneInv
  <1>6. ASSUME NEW v \in 1..MaxWrites, Lapse(v) PROVE RepoInv'
    BY <1>6 DEF Lapse, CountInv, FileNotOlder, IndexInv, MovedInv, GoneInv
  <1> QED
    BY <1>1, <1>2, <1>3, <1>4, <1>5, <1>6

\* RepoInv is an invariant of the file repository, whatever fails and wherever it crashes.
THEOREM RepoInvariance == RepoSpec => []RepoInv
  <1>1. RepoInv /\ [RepoNext]_repoVars => RepoInv'
    <2> SUFFICES ASSUME RepoInv, [RepoNext]_repoVars PROVE RepoInv'
      OBVIOUS
    <2>1. CASE RepoNext
      BY <2>1, PutKeeps, RemovingKeeps, SavingKeeps DEF RepoNext
    <2>2. CASE UNCHANGED repoVars
      BY <2>2 DEF repoVars, RepoInv, RepoTypeOK, CountInv, FileNotOlder, IndexInv, MovedInv, GoneInv
    <2> QED
      BY <2>1, <2>2
  <1> QED
    BY <1>1, RepoStart, PTL DEF RepoSpec

\* No file is older than the metadata kept for it, in memory and after any restart.
THEOREM RepoNeverOlder == RepoSpec => []FileNotOlder
  <1>1. RepoInv => FileNotOlder
    BY DEF RepoInv
  <1> QED
    BY <1>1, RepoInvariance, PTL

\* A key whose removal was reported is not served again before its next Put.
THEOREM RepoRemovalSticks == RepoSpec => []RemovalSticks
  <1>1. RepoInv => RemovalSticks
    BY DEF RepoInv, GoneInv, RemovalSticks, Served
  <1> QED
    BY <1>1, RepoInvariance, PTL

----------------------------------------------------------------------------
(* BlobStore *)

\* Only a copying upload has the file open; one that has not begun has sent nothing.
OpenInv ==
    \A u \in Uploads :
       /\ fd[u] # "none" => up[u] = "copy"
       /\ up[u] \in {"stat", "create"} => sent[u] = 0

\* Every chunk that a file lacks is still to be written by an upload that has the file open.
Pending(f, name) ==
    \A chunks \in f : \A n \in Whole :
       n \in chunks \/ \E u \in Uploads : fd[u] = name /\ sent[u] < n

PendingInv == ~broken => Pending(tmpFile, "tmp") /\ Pending(blobFile, "blob")

BlobInv == BlobTypeOK /\ OpenInv /\ PendingInv /\ StoredIsPresent

LEMMA BlobStart == BlobInit => BlobInv
  <1> SUFFICES ASSUME BlobInit PROVE BlobInv
    OBVIOUS
  <1> USE BlobAssumption DEF BlobInit
  <1>1. BlobTypeOK
    <2>1. broken \in BOOLEAN
      OBVIOUS
    <2> QED
      BY <2>1 DEF BlobTypeOK
  <1>3. OpenInv
    BY DEF OpenInv
  <1>2. PendingInv /\ StoredIsPresent
    BY DEF PendingInv, Pending, StoredIsPresent
  <1> QED
    BY <1>1, <1>2, <1>3 DEF BlobInv

\* Steps that touch no file.
LEMMA QuietKeeps ==
    ASSUME BlobInv, NEW u \in Uploads, Deduplicate(u) \/ Missing(u) \/ RenameMissing(u)
    PROVE  BlobInv'
  <1> USE BlobAssumption DEF BlobInv, BlobTypeOK, To
  <1>1. BlobTypeOK' /\ OpenInv' /\ StoredIsPresent'
    BY DEF Deduplicate, Missing, RenameMissing, OpenInv, StoredIsPresent
  <1>2. PendingInv'
    BY DEF Deduplicate, Missing, RenameMissing, PendingInv, Pending
  <1> QED
    BY <1>1, <1>2

\* os.Create: the creator owes all chunks to the file it has emptied.
LEMMA CreateKeeps == ASSUME BlobInv, NEW u \in Uploads, Create(u) PROVE BlobInv'
  <1> USE BlobAssumption DEF BlobInv, BlobTypeOK, To, Create, Whole
  <1>1. BlobTypeOK' /\ OpenInv' /\ StoredIsPresent'
    BY DEF OpenInv, StoredIsPresent
  <1>2. fd[u] = "none" /\ sent[u] = 0
    BY DEF OpenInv
  <1>3. Pending(tmpFile, "tmp")'
    BY <1>2 DEF Pending
  <1>4. Pending(blobFile, "blob") => Pending(blobFile, "blob")'
    BY <1>2 DEF Pending
  <1> QED
    BY <1>1, <1>3, <1>4 DEF PendingInv

\* A chunk added to a file is a file again.
LEMMA AddType ==
    \A n \in Whole : \A f : f \subseteq SUBSET Whole =>
       Add(f, n) \subseteq SUBSET Whole /\ (f # {} => Add(f, n) # {})
  <1> SUFFICES ASSUME NEW n \in Whole, NEW f, f \subseteq SUBSET Whole
               PROVE  Add(f, n) \subseteq SUBSET Whole /\ (f # {} => Add(f, n) # {})
    OBVIOUS
  <1>1. Add(f, n) \subseteq SUBSET Whole
    BY DEF Add
  <1>2. ASSUME NEW c \in f PROVE c \cup {n} \in Add(f, n)
    BY DEF Add
  <1> QED
    BY <1>1, <1>2

\* A chunk is written to wherever the file is by now.
LEMMA CopyKeeps == ASSUME BlobInv, NEW u \in Uploads, Copy(u) PROVE BlobInv'
  <1> USE BlobAssumption DEF BlobInv, BlobTypeOK, Copy, Whole
  <1> DEFINE n == sent[u] + 1
  <1>1. n \in 1..Chunks /\ sent' = [sent EXCEPT ![u] = n] /\ sent'[u] = n
    OBVIOUS
  <1> HIDE DEF n
  <1>2. /\ Add(tmpFile, n) \subseteq SUBSET Whole /\ Add(blobFile, n) \subseteq SUBSET Whole
        /\ blobFile # {} => Add(blobFile, n) # {}
    <2>1. n \in Whole /\ tmpFile \subseteq SUBSET Whole /\ blobFile \subseteq SUBSET Whole
      BY <1>1
    <2> HIDE DEF Whole
    <2> QED
      BY <2>1, AddType, Zenon
  <1>3. /\ tmpFile' \in {tmpFile, Add(tmpFile, n)} /\ blobFile' \in {blobFile, Add(blobFile, n)}
        /\ UNCHANGED <<up, fd, broken, stored>>
    BY <1>1
  <1>4. BlobTypeOK'
    <2>1. tmpFile' \subseteq SUBSET Whole /\ blobFile' \subseteq SUBSET Whole
      BY <1>2, <1>3
    <2>2. sent' \in [Uploads -> 0..Chunks]
      BY <1>1
    <2> QED
      BY <1>3, <2>1, <2>2
  <1>5. OpenInv' /\ StoredIsPresent'
    BY <1>1, <1>2, <1>3 DEF OpenInv, StoredIsPresent
  <1>6. ASSUME NEW name, NEW m \in 1..Chunks, NEW w \in Uploads, fd[w] = name, sent[w] < m
        PROVE  (fd[u] = name /\ m = n) \/ \E v \in Uploads : fd'[v] = name /\ sent'[v] < m
    BY <1>1, <1>6 DEF n
  <1>7. Pending(tmpFile, "tmp") => Pending(tmpFile, "tmp")'
    <2> SUFFICES ASSUME Pending(tmpFile, "tmp"), NEW d \in tmpFile', NEW m \in 1..Chunks
                 PROVE  m \in d \/ \E v \in Uploads : fd'[v] = "tmp" /\ sent'[v] < m
      BY DEF Pending
    <2>1. PICK c \in tmpFile : d = IF fd[u] = "tmp" THEN c \cup {n} ELSE c
      BY <1>1 DEF Add
    <2>2. m \in c \/ \E w \in Uploads : fd[w] = "tmp" /\ sent[w] < m
      BY DEF Pending
    <2> QED
      BY <1>6, <2>1, <2>2
  <1>8. Pending(blobFile, "blob") => Pending(blobFile, "blob")'
    <2> SUFFICES ASSUME Pending(blobFile, "blob"), NEW d \in blobFile', NEW m \in 1..Chunks
                 PROVE  m \in d \/ \E v \in Uploads : fd'[v] = "blob" /\ sent'[v] < m
      BY DEF Pending
    <2>1. PICK c \in blobFile : d = IF fd[u] = "blob" THEN c \cup {n} ELSE c
      BY <1>1 DEF Add
    <2>2. m \in c \/ \E w \in Uploads : fd[w] = "blob" /\ sent[w] < m
      BY DEF Pending
    <2> QED
      BY <1>6, <2>1, <2>2
  <1> QED
    BY <1>3, <1>4, <1>5, <1>7, <1>8 DEF PendingInv

\* The upload closes the file, having written all of it or reporting an error.
LEMMA CloseKeeps == ASSUME BlobInv, NEW u \in Uploads, Close(u) \/ CopyFails(u) PROVE BlobInv'
  <1> USE BlobAssumption DEF BlobInv, BlobTypeOK, To, Whole
  <1>1. BlobTypeOK' /\ OpenInv' /\ StoredIsPresent'
    BY DEF Close, CopyFails, OpenInv, StoredIsPresent
  <1>2. CASE Close(u)
    <2>1. ASSUME NEW w \in Uploads, NEW m \in 1..Chunks, sent[w] < m PROVE fd'[w] = fd[w]
      BY <1>2, <2>1 DEF Close
    <2>2. Pending(tmpFile, "tmp") => Pending(tmpFile, "tmp")'
      BY <1>2, <2>1 DEF Close, Pending
    <2>3. Pending(blobFile, "blob") => Pending(blobFile, "blob")'
      BY <1>2, <2>1 DEF Close, Pending
    <2> QED
      BY <1>1, <1>2, <2>2, <2>3 DEF Close, PendingInv
  <1>3. CASE CopyFails(u)
    BY <1>1, <1>3 DEF CopyFails, PendingInv
  <1> QED
    BY <1>2, <1>3

\* Renaming and removing: descriptors follow the file.
LEMMA MoveKeeps ==
    ASSUME BlobInv, DeleteBlob \/ \E u \in Uploads : BlobRename(u) \/ Cleanup(u)
    PROVE  BlobInv'
  <1> USE BlobAssumption DEF BlobInv, BlobTypeOK, To, Follow
  <1>1. ASSUME NEW u \in Uploads, BlobRename(u) PROVE BlobInv'
    <2>1. BlobTypeOK' /\ OpenInv' /\ StoredIsPresent'
      BY <1>1 DEF BlobRename, OpenInv, StoredIsPresent
    <2>2. Pending(tmpFile, "tmp") => Pending(blobFile, "blob")' /\ Pending(tmpFile, "tmp")'
      BY <1>1 DEF BlobRename, Pending
    <2> QED
      BY <1>1, <2>1, <2>2 DEF BlobRename, PendingInv
  <1>2. ASSUME NEW u \in Uploads, Cleanup(u) PROVE BlobInv'
    <2>1. BlobTypeOK' /\ OpenInv' /\ StoredIsPresent'
      BY <1>2 DEF Cleanup, OpenInv, StoredIsPresent
    <2>2. Pending(blobFile, "blob") => Pending(blobFile, "blob")' /\ Pending(tmpFile, "tmp")'
      BY <1>2 DEF Cleanup, Pending
    <2> QED
      BY <1>2, <2>1, <2>2 DEF Cleanup, PendingInv
  <1>3. CASE DeleteBlob
    <2>1. BlobTypeOK' /\ OpenInv' /\ StoredIsPresent'
      BY <1>3 DEF DeleteBlob, OpenInv, StoredIsPresent
    <2>2. Pending(tmpFile, "tmp") => Pending(blobFile, "blob")' /\ Pending(tmpFile, "tmp")'
      BY <1>3 DEF DeleteBlob, Pending
    <2> QED
      BY <1>3, <2>1, <2>2 DEF DeleteBlob, PendingInv
  <1> QED
    BY <1>1, <1>2, <1>3

LEMMA CrashKeeps == ASSUME BlobInv, BlobCrash PROVE BlobInv'
  BY BlobAssumption
  DEF BlobInv, BlobTypeOK, BlobCrash, OpenInv, PendingInv, StoredIsPresent

\* BlobInv is an invariant of LocalCAS under any number of uploads, deletions and crashes.
THEOREM BlobInvariance == BlobSpec => []BlobInv
  <1>1. BlobInv /\ [BlobNext]_blobVars => BlobInv'
    <2> SUFFICES ASSUME BlobInv, [BlobNext]_blobVars PROVE BlobInv'
      OBVIOUS
    <2>1. CASE BlobNext
      BY <2>1, QuietKeeps, CreateKeeps, CopyKeeps, CloseKeeps, MoveKeeps, CrashKeeps DEF BlobNext
    <2>2. CASE UNCHANGED blobVars
      BY <2>2 DEF blobVars, BlobInv, BlobTypeOK, OpenInv, PendingInv, Pending, StoredIsPresent
    <2> QED
      BY <2>1, <2>2
  <1> QED
    BY <1>1, BlobStart, PTL DEF BlobSpec

\* Uploads that write through one temporary name leave the whole blob once none is copying,
\* unless one was cut off or failed.
THEOREM BlobWhole == BlobSpec => []BlobWholeAtRest
  <1>1. BlobInv => BlobWholeAtRest
    <2> SUFFICES ASSUME BlobInv, ~broken, \A u \in Uploads : fd[u] = "none", NEW chunks \in blobFile
                 PROVE  chunks = Whole
      BY DEF BlobWholeAtRest
    <2>1. Pending(blobFile, "blob")
      BY DEF BlobInv, PendingInv
    <2>2. Whole \subseteq chunks
      BY <2>1 DEF Pending
    <2> QED
      BY <2>2 DEF BlobInv, BlobTypeOK
  <1> QED
    BY <1>1, BlobInvariance, PTL

\* A reported upload leaves a blob until the next deletion.
THEOREM BlobPresent == BlobSpec => []StoredIsPresent
  <1>1. BlobInv => StoredIsPresent
    BY DEF BlobInv
  <1> QED
    BY <1>1, BlobInvariance, PTL

=============================================================================
