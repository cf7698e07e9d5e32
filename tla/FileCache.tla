----------------------------- MODULE FileCache -----------------------------
(***************************************************************************)
(* The on-disk cache: cache/manager.go (Manager), cache/filesystem.go      *)
(* (FileSystemBackend) and cache/eviction.go (CacheEvictor), at the grain  *)
(* of their three locks and of their file-system calls.                    *)
(*                                                                         *)
(*   m.mu  (mgrMu)  held by Manager.Get, Put, Delete and Clear from their  *)
(*                  first to their last step, not by Exists nor by the     *)
(*                  eviction passes;                                       *)
(*   e.mu  (evMu)   held by an eviction pass (the eviction loop's tick or  *)
(*                  Manager.ForceEviction), not by the eviction that Put   *)
(*                  runs itself;                                           *)
(*   fs.mu (fsMu)   taken and released inside each backend call.  A call   *)
(*                  under RLock is one step that needs fsMu free, since no *)
(*                  writer can run meanwhile; a call under Lock is split   *)
(*                  into its file-system calls.                            *)
(*                                                                         *)
(* Every completed hit spawns a goroutine (updateAccessTime) that rewrites *)
(* the entry's metadata later.  File-system calls may fail and the process *)
(* may crash and restart between any two of them, MaxFaults times in all.  *)
(*                                                                         *)
(* Abstractions.  The content of an entry is the number (version) of the   *)
(* Put that wrote it.  Time is a counter of Puts: CreatedAt is the version *)
(* and AccessedAt the counter, so that accesses between two Puts tie and   *)
(* the eviction order between them is left open; that a TTL has elapsed is *)
(* an environment step (Elapse) on a version whose TTL is positive.        *)
(* Metadata that is absent and metadata that does not parse are treated    *)
(* alike by the code and are one value here (Unreadable).                  *)
(***************************************************************************)
EXTENDS Integers, FiniteSets, FiniteSetsExt

CONSTANTS Keys,        \* cache keys (relative paths)
          Procs,       \* goroutines calling the Manager or its evictor
          Touchers,    \* slots for pending updateAccessTime goroutines
          Sizes,       \* lengths of the data passed to Put
          TTLs,        \* TTL arguments of Put; 0 asks for the default
          DefaultTTL,  \* CacheOptions.DefaultTTL
          MaxSize,     \* CacheOptions.MaxSize, 0 for no limit
          MaxPuts,     \* bound: number of Puts
          MaxFaults,   \* bound: number of failed file-system calls and crashes
          NoKey, NoOne

ASSUME KeysAssumption == IsFiniteSet(Keys) /\ NoKey \notin Keys
ASSUME ProcsAssumption == NoOne \notin Procs \cup Touchers /\ Procs \cap Touchers = {}
ASSUME SizesAssumption == Sizes \subseteq Nat
ASSUME TTLAssumption == TTLs \subseteq Nat /\ DefaultTTL \in Nat
ASSUME BoundsAssumption == MaxSize \in Nat /\ MaxPuts \in Nat /\ MaxFaults \in Nat

VARIABLES
    data,    \* data[k]: the data file of k; version 0 when there is no file
    tmp,     \* tmp[k]: the length of the file k.tmp, 0 when there is none
    meta,    \* meta[k]: the file k.meta, Unreadable when it cannot be loaded
    aged,    \* versions whose TTL has elapsed
    clock,   \* number of Puts begun
    mgrMu, evMu, fsMu,   \* holders of the three locks
    op,      \* op[p]: the operation p is in, "idle" between operations
    pc,      \* pc[p]: the next step of p
    loc,     \* loc[p]: p's arguments and local variables
    need,    \* need[p]: the space p's eviction has to free
    touch,   \* touch[g]: the state of an updateAccessTime goroutine
    res,     \* res[p]: what p's last completed operation returned
    faults   \* failed file-system calls and crashes so far

diskvars == <<data, tmp, meta>>
vars == <<data, tmp, meta, aged, clock, mgrMu, evMu, fsMu, op, pc, loc, need, touch, res, faults>>

----------------------------------------------------------------------------
(* Files *)

NoFile == [ver |-> 0, size |-> 0]

Unreadable == [created |-> 0, size |-> 0, ttl |-> 0, accessed |-> 0]

\* meta.TTL > 0 && time.Since(meta.CreatedAt) > meta.TTL
Expired(m) == m.ttl > 0 /\ m.created \in aged

\* What Get and Exists find under k: the version it would serve, 0 for none.
Visible(k) ==
    IF meta[k].created # 0 /\ ~Expired(meta[k]) THEN data[k].ver ELSE 0

\* FileSystemBackend.Size walks everything but *.meta, left-over *.tmp included.
Size == MapThenSumSet(LAMBDA k : data[k].size + tmp[k], Keys)

----------------------------------------------------------------------------
(* Threads *)

Ops == {"idle", "get", "put", "delete", "clear", "evict", "sweep"}

PCs == {"idle", "lookup", "size", "scan", "collect", "victims", "sweepscan",
        "check", "rmdata", "rmmeta", "write", "rename", "save", "clear"}

NoLoc == [key |-> NoKey, ver |-> 0, size |-> 0, ttl |-> 0,
          cur |-> NoKey, todo |-> {}, found |-> {}]

IdleTouch == [st |-> "idle", key |-> NoKey, meta |-> Unreadable]

Result(kind, k, v) == [kind |-> kind, key |-> k, val |-> v]

NoResult == Result("none", NoKey, 0)

Init ==
    /\ data = [k \in Keys |-> NoFile]
    /\ tmp = [k \in Keys |-> 0]
    /\ meta = [k \in Keys |-> Unreadable]
    /\ aged = {}
    /\ clock = 0
    /\ mgrMu = NoOne /\ evMu = NoOne /\ fsMu = NoOne
    /\ op = [p \in Procs |-> "idle"]
    /\ pc = [p \in Procs |-> "idle"]
    /\ loc = [p \in Procs |-> NoLoc]
    /\ need = [p \in Procs |-> 0]
    /\ touch = [g \in Touchers |-> IdleTouch]
    /\ res = [p \in Procs |-> NoResult]
    /\ faults = 0

----------------------------------------------------------------------------
(* Starting and finishing an operation *)

Enter(p, o, l, args) ==
    /\ op[p] = "idle"
    /\ op' = [op EXCEPT ![p] = o]
    /\ pc' = [pc EXCEPT ![p] = l]
    /\ loc' = [loc EXCEPT ![p] = args]
    /\ res' = [res EXCEPT ![p] = NoResult]
    /\ UNCHANGED need

At(p, l) == pc[p] = l

Goto(p, l) == pc' = [pc EXCEPT ![p] = l] /\ UNCHANGED <<op, need, res, mgrMu, evMu>>

\* The deferred Unlock of the lock the operation holds, and its return value.
Finish(p, r) ==
    /\ op' = [op EXCEPT ![p] = "idle"]
    /\ pc' = [pc EXCEPT ![p] = "idle"]
    /\ loc' = [loc EXCEPT ![p] = NoLoc]
    /\ need' = [need EXCEPT ![p] = 0]
    /\ res' = [res EXCEPT ![p] = r]
    /\ mgrMu' = IF mgrMu = p THEN NoOne ELSE mgrMu
    /\ evMu' = IF evMu = p THEN NoOne ELSE evMu

Error == Result("error", NoKey, 0)

Faulty == faults < MaxFaults /\ faults' = faults + 1

----------------------------------------------------------------------------
(* Manager.Get *)

\* Mutant: Get without m.mu, as Exists is.
GetBeginUnlocked(p, k) ==
    /\ Enter(p, "get", "lookup", [NoLoc EXCEPT !.key = k])
    /\ UNCHANGED <<diskvars, aged, clock, mgrMu, evMu, fsMu, touch, faults>>

GetBegin(p, k) ==
    /\ mgrMu = NoOne /\ mgrMu' = p
    /\ Enter(p, "get", "lookup", [NoLoc EXCEPT !.key = k])
    /\ UNCHANGED <<diskvars, aged, clock, evMu, fsMu, touch, faults>>

\* No readable metadata, or no data file under metadata that is still valid.
GetMiss(p) ==
    /\ At(p, "lookup") /\ fsMu = NoOne
    /\ LET k == loc[p].key IN
          /\ \/ meta[k].created = 0
             \/ ~Expired(meta[k]) /\ data[k].ver = 0
          /\ Finish(p, Result("miss", k, 0))
    /\ UNCHANGED <<diskvars, aged, clock, fsMu, touch, faults>>

\* go fs.updateAccessTime(key)
SpawnTouch(k) ==
    \E g \in Touchers :
        /\ touch[g].st = "idle"
        /\ touch' = [touch EXCEPT ![g] = [st |-> "spawned", key |-> k, meta |-> Unreadable]]

\* The file is open: its content is fixed whatever happens to its name.
GetHit(p) ==
    /\ At(p, "lookup") /\ fsMu = NoOne
    /\ LET k == loc[p].key IN
          /\ meta[k].created # 0 /\ ~Expired(meta[k]) /\ data[k].ver # 0
          /\ Finish(p, Result("hit", k, data[k].ver))
          /\ SpawnTouch(k)
    /\ UNCHANGED <<diskvars, aged, clock, fsMu, faults>>

\* A failing read ends Manager.Get's loop as the end of the file does: what was
\* read until then is a hit (version 0, no Put's content).
GetReadFails(p) ==
    /\ At(p, "lookup") /\ fsMu = NoOne /\ Faulty
    /\ LET k == loc[p].key IN
          /\ meta[k].created # 0 /\ ~Expired(meta[k]) /\ data[k].ver # 0
          /\ Finish(p, Result("hit", k, 0))
          /\ SpawnTouch(k)
    /\ UNCHANGED <<diskvars, aged, clock, fsMu>>

\* The metadata or the data file cannot be opened: a miss.
GetFails(p) ==
    /\ At(p, "lookup") /\ fsMu = NoOne /\ Faulty
    /\ Finish(p, Result("miss", loc[p].key, 0))
    /\ UNCHANGED <<diskvars, aged, clock, fsMu, touch>>

\* Expired: RUnlock, then (another step, under Lock) remove both files.
GetExpired(p) ==
    /\ At(p, "lookup") /\ fsMu = NoOne
    /\ LET k == loc[p].key IN
          /\ meta[k].created # 0 /\ Expired(meta[k])
          /\ loc' = [loc EXCEPT ![p].cur = k]
          /\ res' = [res EXCEPT ![p] = Result("miss", k, 0)]
    /\ pc' = [pc EXCEPT ![p] = "rmdata"]
    /\ UNCHANGED <<diskvars, aged, clock, op, mgrMu, evMu, fsMu, need, touch, faults>>

----------------------------------------------------------------------------
(* Removing an entry: FileSystemBackend.Delete and the purge inside Get *)

\* Where a caller continues once its remove calls are over.
AfterRemove(p, r) ==
    \/ /\ op[p] = "get"
       /\ Finish(p, res[p])
    \/ /\ op[p] = "delete"
       /\ Finish(p, r)
    \/ /\ op[p] \in {"put", "evict"}
       /\ Goto(p, "victims")
       /\ loc' = [loc EXCEPT ![p].cur = NoKey]
    \/ /\ op[p] = "sweep"
       /\ Goto(p, "check")
       /\ loc' = [loc EXCEPT ![p].cur = NoKey]

RemoveData(p) ==
    /\ At(p, "rmdata") /\ fsMu = NoOne
    /\ fsMu' = p
    /\ data' = [data EXCEPT ![loc[p].cur] = NoFile]
    /\ Goto(p, "rmmeta")
    /\ UNCHANGED <<tmp, meta, aged, clock, loc, touch, faults>>

\* The purge inside Get logs a failed os.Remove and goes on to the metadata.
PurgeDataFails(p) ==
    /\ At(p, "rmdata") /\ fsMu = NoOne /\ op[p] = "get" /\ Faulty
    /\ fsMu' = p
    /\ Goto(p, "rmmeta")
    /\ UNCHANGED <<diskvars, aged, clock, loc, touch>>

\* Delete returns at the first failed os.Remove, the metadata untouched.
RemoveDataFails(p) ==
    /\ At(p, "rmdata") /\ fsMu = NoOne /\ op[p] # "get" /\ Faulty
    /\ AfterRemove(p, Error)
    /\ UNCHANGED <<diskvars, aged, clock, fsMu, touch>>

\* Mutant: Delete returns once the data file is gone.
RemoveMetaSkipped(p) ==
    /\ At(p, "rmmeta")
    /\ fsMu' = NoOne
    /\ AfterRemove(p, Result("deleted", loc[p].cur, 0))
    /\ UNCHANGED <<diskvars, aged, clock, touch, faults>>

RemoveMeta(p) ==
    /\ At(p, "rmmeta")
    /\ fsMu' = NoOne
    /\ meta' = [meta EXCEPT ![loc[p].cur] = Unreadable]
    /\ AfterRemove(p, Result("deleted", loc[p].cur, 0))
    /\ UNCHANGED <<data, tmp, aged, clock, touch, faults>>

RemoveMetaFails(p) ==
    /\ At(p, "rmmeta") /\ Faulty
    /\ fsMu' = NoOne
    /\ AfterRemove(p, Error)
    /\ UNCHANGED <<diskvars, aged, clock, touch>>

DeleteBegin(p, k) ==
    /\ mgrMu = NoOne /\ mgrMu' = p
    /\ Enter(p, "delete", "rmdata", [NoLoc EXCEPT !.key = k, !.cur = k])
    /\ UNCHANGED <<diskvars, aged, clock, evMu, fsMu, touch, faults>>

----------------------------------------------------------------------------
(* Manager.Exists, without m.mu, and Manager.Clear *)

Exists(p, k) ==
    /\ op[p] = "idle" /\ fsMu = NoOne
    /\ LET found == data[k].ver # 0 /\ meta[k].created # 0 /\ ~Expired(meta[k])
       IN  res' = [res EXCEPT ![p] = Result(IF found THEN "yes" ELSE "no", k, 0)]
    /\ UNCHANGED <<diskvars, aged, clock, mgrMu, evMu, fsMu, op, pc, loc, need, touch, faults>>

\* os.Stat or the read of the metadata fails.
ExistsFails(p, k) ==
    /\ op[p] = "idle" /\ fsMu = NoOne /\ Faulty
    /\ res' = [res EXCEPT ![p] = Result("no", k, 0)]
    /\ UNCHANGED <<diskvars, aged, clock, mgrMu, evMu, fsMu, op, pc, loc, need, touch>>

ClearBegin(p) ==
    /\ mgrMu = NoOne /\ mgrMu' = p
    /\ Enter(p, "clear", "clear", NoLoc)
    /\ UNCHANGED <<diskvars, aged, clock, evMu, fsMu, touch, faults>>

Clear(p) ==
    /\ At(p, "clear") /\ fsMu = NoOne
    /\ data' = [k \in Keys |-> NoFile]
    /\ tmp' = [k \in Keys |-> 0]
    /\ meta' = [k \in Keys |-> Unreadable]
    /\ Finish(p, Result("cleared", NoKey, 0))
    /\ UNCHANGED <<aged, clock, fsMu, touch, faults>>

\* os.RemoveAll gave up after removing some of the files.
ClearFails(p) ==
    /\ At(p, "clear") /\ fsMu = NoOne /\ Faulty
    /\ \E D, T, M \in SUBSET Keys :
          /\ data' = [k \in Keys |-> IF k \in D THEN NoFile ELSE data[k]]
          /\ tmp' = [k \in Keys |-> IF k \in T THEN 0 ELSE tmp[k]]
          /\ meta' = [k \in Keys |-> IF k \in M THEN Unreadable ELSE meta[k]]
    /\ Finish(p, Error)
    /\ UNCHANGED <<aged, clock, fsMu, touch>>

----------------------------------------------------------------------------
(* Manager.Put *)

\* Mutant: the TTL argument taken as time already spent.
PutBeginNegativeTTL(p, k, n, ttl) ==
    /\ clock < MaxPuts
    /\ mgrMu = NoOne /\ mgrMu' = p
    /\ clock' = clock + 1
    /\ Enter(p, "put", "size",
             [NoLoc EXCEPT !.key = k, !.ver = clock + 1, !.size = n, !.ttl = 0 - ttl])
    /\ UNCHANGED <<diskvars, aged, evMu, fsMu, touch, faults>>

PutBegin(p, k, n, ttl) ==
    /\ clock < MaxPuts
    /\ mgrMu = NoOne /\ mgrMu' = p
    /\ clock' = clock + 1
    /\ Enter(p, "put", "size",
             [NoLoc EXCEPT !.key = k, !.ver = clock + 1, !.size = n,
                           !.ttl = IF ttl = 0 THEN DefaultTTL ELSE ttl])
    /\ UNCHANGED <<diskvars, aged, evMu, fsMu, touch, faults>>

\* Mutant: currentSize > MaxSize, the incoming data not counted.
MakeRoomForOld(p, current) ==
    LET requiredSpace == current - MaxSize IN
    \/ /\ MaxSize > 0 /\ requiredSpace > 0
       /\ need' = [need EXCEPT ![p] = requiredSpace]
       /\ pc' = [pc EXCEPT ![p] = "scan"]
       /\ UNCHANGED <<op, loc, res, mgrMu, evMu>>
    \/ /\ MaxSize = 0 \/ requiredSpace <= 0
       /\ Goto(p, "write")
       /\ UNCHANGED loc

\* MaxSize > 0 && currentSize + len(data) > MaxSize: make room first.
MakeRoom(p, current) ==
    LET requiredSpace == current + loc[p].size - MaxSize IN
    \/ /\ MaxSize > 0 /\ requiredSpace > 0
       /\ need' = [need EXCEPT ![p] = requiredSpace]
       /\ pc' = [pc EXCEPT ![p] = "scan"]
       /\ UNCHANGED <<op, loc, res, mgrMu, evMu>>
    \/ /\ MaxSize = 0 \/ requiredSpace <= 0
       /\ Goto(p, "write")
       /\ UNCHANGED loc

PutSize(p) ==
    /\ At(p, "size") /\ op[p] = "put" /\ fsMu = NoOne
    /\ MakeRoom(p, Size)
    /\ UNCHANGED <<diskvars, aged, clock, fsMu, touch, faults>>

\* A failed Size is logged and counts as an empty cache.
PutSizeFails(p) ==
    /\ At(p, "size") /\ op[p] = "put" /\ fsMu = NoOne /\ Faulty
    /\ MakeRoom(p, 0)
    /\ UNCHANGED <<diskvars, aged, clock, fsMu, touch>>

Write(p) ==
    /\ At(p, "write") /\ fsMu = NoOne
    /\ fsMu' = p
    /\ tmp' = [tmp EXCEPT ![loc[p].key] = loc[p].size]
    /\ Goto(p, "rename")
    /\ UNCHANGED <<data, meta, aged, clock, loc, touch, faults>>

\* MkdirAll, Create, Copy or Close fails; so may the removal of the temporary file.
WriteFails(p) ==
    /\ At(p, "write") /\ fsMu = NoOne /\ Faulty
    /\ \E n \in {0, tmp[loc[p].key], loc[p].size} :
          tmp' = [tmp EXCEPT ![loc[p].key] = n]
    /\ Finish(p, Error)
    /\ UNCHANGED <<data, meta, aged, clock, fsMu, touch>>

Rename(p) ==
    /\ At(p, "rename")
    /\ data' = [data EXCEPT ![loc[p].key] = [ver |-> loc[p].ver, size |-> loc[p].size]]
    /\ tmp' = [tmp EXCEPT ![loc[p].key] = 0]
    /\ Goto(p, "save")
    /\ UNCHANGED <<meta, aged, clock, fsMu, loc, touch, faults>>

RenameFails(p) ==
    /\ At(p, "rename") /\ Faulty
    /\ fsMu' = NoOne
    /\ \E n \in {0, loc[p].size} : tmp' = [tmp EXCEPT ![loc[p].key] = n]
    /\ Finish(p, Error)
    /\ UNCHANGED <<data, meta, aged, clock, touch>>

Save(p) ==
    /\ At(p, "save")
    /\ fsMu' = NoOne
    /\ meta' = [meta EXCEPT ![loc[p].key] =
                   [created |-> loc[p].ver, size |-> loc[p].size,
                    ttl |-> loc[p].ttl, accessed |-> clock]]
    /\ Finish(p, Result("stored", loc[p].key, loc[p].ver))
    /\ UNCHANGED <<data, tmp, aged, clock, touch, faults>>

\* Mutant: a failed saveMetadata is logged and Put reports success.
SaveFailsSilently(p) ==
    /\ At(p, "save") /\ Faulty
    /\ fsMu' = NoOne
    /\ \E m \in {meta[loc[p].key], Unreadable} : meta' = [meta EXCEPT ![loc[p].key] = m]
    /\ Finish(p, Result("stored", loc[p].key, loc[p].ver))
    /\ UNCHANGED <<data, tmp, aged, clock, touch>>

\* os.WriteFile truncates before it writes: the old metadata survives or is lost.
SaveFails(p) ==
    /\ At(p, "save") /\ Faulty
    /\ fsMu' = NoOne
    /\ \E m \in {meta[loc[p].key], Unreadable} : meta' = [meta EXCEPT ![loc[p].key] = m]
    /\ Finish(p, Error)
    /\ UNCHANGED <<data, tmp, aged, clock, touch>>

----------------------------------------------------------------------------
(* CacheEvictor *)

EvictBegin(p) ==
    /\ evMu = NoOne /\ evMu' = p
    /\ Enter(p, "evict", "size", NoLoc)
    /\ UNCHANGED <<diskvars, aged, clock, mgrMu, fsMu, touch, faults>>

\* performEviction: within the limit only expired entries go, beyond it (or
\* without one) the least recently used go until 90% of the limit is left.
EvictSize(p) ==
    /\ At(p, "size") /\ op[p] = "evict" /\ fsMu = NoOne
    /\ \/ /\ MaxSize > 0 /\ Size <= MaxSize
          /\ op' = [op EXCEPT ![p] = "sweep"]
          /\ pc' = [pc EXCEPT ![p] = "sweepscan"]
          /\ UNCHANGED need
       \/ /\ MaxSize = 0 \/ Size > MaxSize
          /\ need' = [need EXCEPT ![p] = Size - (MaxSize * 9) \div 10]
          /\ pc' = [pc EXCEPT ![p] = "scan"]
          /\ UNCHANGED op
    /\ UNCHANGED <<diskvars, aged, clock, mgrMu, evMu, fsMu, loc, touch, res, faults>>

EvictSizeFails(p) ==
    /\ At(p, "size") /\ op[p] = "evict" /\ fsMu = NoOne /\ Faulty
    /\ Finish(p, Error)
    /\ UNCHANGED <<diskvars, aged, clock, fsMu, touch>>

\* scanCacheKeys walks the directory without fs.mu.
Scan(p, from, to) ==
    /\ At(p, from)
    /\ loc' = [loc EXCEPT ![p].todo = {k \in Keys : data[k].ver # 0}]
    /\ Goto(p, to)
    /\ UNCHANGED <<diskvars, aged, clock, fsMu, touch, faults>>

\* evictExpiredFromFileSystem: the metadata is read under RLock, the entry is
\* deleted in a later step, under Lock.
SweepCheck(p, k) ==
    /\ At(p, "check") /\ fsMu = NoOne /\ k \in loc[p].todo
    /\ \/ /\ meta[k].created # 0 /\ Expired(meta[k])
          /\ loc' = [loc EXCEPT ![p].todo = @ \ {k}, ![p].cur = k]
          /\ Goto(p, "rmdata")
       \/ /\ meta[k].created = 0 \/ ~Expired(meta[k])
          /\ loc' = [loc EXCEPT ![p].todo = @ \ {k}]
          /\ Goto(p, "check")
    /\ UNCHANGED <<diskvars, aged, clock, fsMu, touch, faults>>

\* A key whose file the scan or whose metadata GetMetadata fails to read is passed over.
SkipFails(p, k) ==
    /\ pc[p] \in {"check", "collect"} /\ fsMu = NoOne /\ k \in loc[p].todo /\ Faulty
    /\ loc' = [loc EXCEPT ![p].todo = @ \ {k}]
    /\ UNCHANGED <<diskvars, aged, clock, mgrMu, evMu, fsMu, op, pc, need, touch, res>>

SweepDone(p) ==
    /\ At(p, "check") /\ loc[p].todo = {}
    /\ Finish(p, Result("swept", NoKey, 0))
    /\ UNCHANGED <<diskvars, aged, clock, fsMu, touch, faults>>

\* collectAllMetadata: entries whose metadata cannot be read are skipped.
Collect(p, k) ==
    /\ At(p, "collect") /\ fsMu = NoOne /\ k \in loc[p].todo
    /\ loc' = [loc EXCEPT ![p].todo = @ \ {k},
                          ![p].found = IF meta[k].created = 0 THEN @
                                       ELSE @ \cup {[key |-> k, size |-> meta[k].size,
                                                     accessed |-> meta[k].accessed]}]
    /\ Goto(p, "collect")
    /\ UNCHANGED <<diskvars, aged, clock, fsMu, touch, faults>>

SizeOf(items) == MapThenSumSet(LAMBDA i : i.size, items)

\* LRUEvictionPolicy.SelectEvictionCandidates pops the heap (oldest access
\* first) while freedSpace < requiredSpace: every result it can have, ties
\* between equal access times being broken either way.
SelectEvictionCandidates(items, requiredSpace) ==
    {C \in SUBSET items :
        /\ \A i \in C, j \in items \ C : i.accessed <= j.accessed
        /\ C = items \/ SizeOf(C) >= requiredSpace
        /\ C = {} \/ \E last \in C :
              /\ \A i \in C : i.accessed <= last.accessed
              /\ SizeOf(C \ {last}) < requiredSpace}

Select(p) ==
    /\ At(p, "collect") /\ loc[p].todo = {}
    /\ \E C \in SelectEvictionCandidates(loc[p].found, need[p]) :
          loc' = [loc EXCEPT ![p].todo = {i.key : i \in C}, ![p].found = {}]
    /\ Goto(p, "victims")
    /\ UNCHANGED <<diskvars, aged, clock, fsMu, touch, faults>>

\* Mutant: a victim stays on the list, to be tried again until space is freed.
NextVictimAgain(p, k) ==
    /\ At(p, "victims") /\ k \in loc[p].todo
    /\ loc' = [loc EXCEPT ![p].cur = k]
    /\ Goto(p, "rmdata")
    /\ UNCHANGED <<diskvars, aged, clock, fsMu, touch, faults>>

NextVictim(p, k) ==
    /\ At(p, "victims") /\ k \in loc[p].todo
    /\ loc' = [loc EXCEPT ![p].todo = @ \ {k}, ![p].cur = k]
    /\ Goto(p, "rmdata")
    /\ UNCHANGED <<diskvars, aged, clock, fsMu, touch, faults>>

VictimsDone(p) ==
    /\ At(p, "victims") /\ loc[p].todo = {}
    /\ \/ op[p] = "put" /\ Goto(p, "write") /\ UNCHANGED loc
       \/ op[p] = "evict" /\ Finish(p, Result("swept", NoKey, 0))
    /\ UNCHANGED <<diskvars, aged, clock, fsMu, touch, faults>>

----------------------------------------------------------------------------
(* updateAccessTime, the goroutine a hit leaves behind *)

TouchLoad(g) ==
    /\ touch[g].st = "spawned" /\ fsMu = NoOne
    /\ \/ /\ meta[touch[g].key].created # 0
          /\ fsMu' = g
          /\ touch' = [touch EXCEPT ![g].st = "loaded", ![g].meta = meta[touch[g].key]]
       \/ /\ meta[touch[g].key].created = 0
          /\ touch' = [touch EXCEPT ![g] = IdleTouch]
          /\ UNCHANGED fsMu
    /\ UNCHANGED <<diskvars, aged, clock, mgrMu, evMu, op, pc, loc, need, res, faults>>

\* Mutant: updateAccessTime renews CreatedAt as well (a sliding TTL).
TouchSaveRenewing(g) ==
    /\ touch[g].st = "loaded"
    /\ fsMu' = NoOne
    /\ meta' = [meta EXCEPT ![touch[g].key] =
                   [touch[g].meta EXCEPT !.accessed = clock, !.created = clock]]
    /\ touch' = [touch EXCEPT ![g] = IdleTouch]
    /\ UNCHANGED <<data, tmp, aged, clock, mgrMu, evMu, op, pc, loc, need, res, faults>>

TouchSave(g) ==
    /\ touch[g].st = "loaded"
    /\ fsMu' = NoOne
    /\ meta' = [meta EXCEPT ![touch[g].key] = [touch[g].meta EXCEPT !.accessed = clock]]
    /\ touch' = [touch EXCEPT ![g] = IdleTouch]
    /\ UNCHANGED <<data, tmp, aged, clock, mgrMu, evMu, op, pc, loc, need, res, faults>>

TouchLoadFails(g) ==
    /\ touch[g].st = "spawned" /\ fsMu = NoOne /\ Faulty
    /\ touch' = [touch EXCEPT ![g] = IdleTouch]
    /\ UNCHANGED <<diskvars, aged, clock, mgrMu, evMu, fsMu, op, pc, loc, need, res>>

TouchSaveFails(g) ==
    /\ touch[g].st = "loaded" /\ Faulty
    /\ fsMu' = NoOne
    /\ \E m \in {meta[touch[g].key], Unreadable} :
          meta' = [meta EXCEPT ![touch[g].key] = m]
    /\ touch' = [touch EXCEPT ![g] = IdleTouch]
    /\ UNCHANGED <<data, tmp, aged, clock, mgrMu, evMu, op, pc, loc, need, res>>

----------------------------------------------------------------------------
(* The environment *)

Elapse(v) ==
    /\ v \notin aged
    /\ \E k \in Keys : meta[k].created = v /\ meta[k].ttl > 0
    /\ aged' = aged \cup {v}
    /\ UNCHANGED <<diskvars, clock, mgrMu, evMu, fsMu, op, pc, loc, need, touch, res, faults>>

\* Keys whose metadata is being rewritten, so that a crash may truncate it.
BeingSaved ==
    {loc[p].key : p \in {q \in Procs : pc[q] = "save"}}
    \cup {touch[g].key : g \in {h \in Touchers : touch[h].st = "loaded"}}

\* The process dies and starts again on the files it left; nothing is cleaned up.
\* Dying inside Write or Clear leaves what WriteFails or ClearFails then Crash leave.
Crash ==
    /\ Faulty
    /\ \E S \in SUBSET BeingSaved :
          meta' = [k \in Keys |-> IF k \in S THEN Unreadable ELSE meta[k]]
    /\ mgrMu' = NoOne /\ evMu' = NoOne /\ fsMu' = NoOne
    /\ op' = [p \in Procs |-> "idle"]
    /\ pc' = [p \in Procs |-> "idle"]
    /\ loc' = [p \in Procs |-> NoLoc]
    /\ need' = [p \in Procs |-> 0]
    /\ touch' = [g \in Touchers |-> IdleTouch]
    /\ res' = [p \in Procs |-> NoResult]
    /\ UNCHANGED <<data, tmp, aged, clock>>

----------------------------------------------------------------------------

Call(p) ==
    \/ \E k \in Keys : GetBegin(p, k) \/ DeleteBegin(p, k) \/ Exists(p, k)
    \/ \E k \in Keys, n \in Sizes, ttl \in TTLs : PutBegin(p, k, n, ttl)
    \/ ClearBegin(p)
    \/ EvictBegin(p)

Step(p) ==
    \/ GetMiss(p) \/ GetHit(p) \/ GetExpired(p)
    \/ RemoveData(p) \/ RemoveMeta(p)
    \/ Clear(p)
    \/ PutSize(p) \/ Write(p) \/ Rename(p) \/ Save(p)
    \/ EvictSize(p)
    \/ Scan(p, "scan", "collect") \/ Scan(p, "sweepscan", "check")
    \/ \E k \in Keys : SweepCheck(p, k) \/ Collect(p, k) \/ NextVictim(p, k)
    \/ SweepDone(p) \/ Select(p) \/ VictimsDone(p)

Fault(p) ==
    \/ GetReadFails(p) \/ GetFails(p)
    \/ \E k \in Keys : ExistsFails(p, k) \/ SkipFails(p, k)
    \/ PurgeDataFails(p) \/ RemoveDataFails(p) \/ RemoveMetaFails(p)
    \/ ClearFails(p)
    \/ PutSizeFails(p) \/ WriteFails(p) \/ RenameFails(p) \/ SaveFails(p)
    \/ EvictSizeFails(p)

TouchStep(g) == TouchLoad(g) \/ TouchSave(g)

TouchFault(g) == TouchLoadFails(g) \/ TouchSaveFails(g)

Next ==
    \/ \E p \in Procs : Call(p) \/ Step(p) \/ Fault(p)
    \/ \E g \in Touchers : TouchStep(g) \/ TouchFault(g)
    \/ \E v \in 1..MaxPuts : Elapse(v)
    \/ Crash

Spec == Init /\ [][Next]_vars

\* Go schedules every goroutine, and its mutexes hand over in order once a
\* waiter has starved, so a step that is enabled again and again is taken.
Fairness ==
    /\ \A p \in Procs : SF_vars(Step(p))
    /\ \A g \in Touchers : SF_vars(TouchStep(g))

FairSpec == Spec /\ Fairness

----------------------------------------------------------------------------
(* Properties *)

DataFiles == [ver : Nat, size : Nat]

Metadata == [created : Nat, size : Nat, ttl : Nat, accessed : Nat]

Items == [key : Keys, size : Nat, accessed : Nat]

Kinds == {"none", "hit", "miss", "yes", "no", "stored", "deleted", "cleared",
          "swept", "error"}

Locals == [key : Keys \cup {NoKey}, ver : Nat, size : Nat, ttl : Nat,
           cur : Keys \cup {NoKey}, todo : SUBSET Keys, found : SUBSET Items]

Touches == [st : {"idle", "spawned", "loaded"}, key : Keys \cup {NoKey}, meta : Metadata]

Results == [kind : Kinds, key : Keys \cup {NoKey}, val : Nat]

DiskOK ==
    /\ data \in [Keys -> DataFiles]
    /\ tmp \in [Keys -> Nat]
    /\ meta \in [Keys -> Metadata]
    /\ aged \subseteq Nat
    /\ clock \in Nat
    /\ faults \in Nat

ThreadsOK ==
    /\ mgrMu \in Procs \cup {NoOne}
    /\ evMu \in Procs \cup {NoOne}
    /\ fsMu \in Procs \cup Touchers \cup {NoOne}
    /\ op \in [Procs -> Ops]
    /\ pc \in [Procs -> PCs]
    /\ loc \in [Procs -> Locals]
    /\ touch \in [Touchers -> Touches]
    /\ res \in [Procs -> Results]

\* Every variable has its type: files carry versions and lengths, each lock has
\* at most one holder, each goroutine is at a known step of a known operation
\* (the state of Manager, FileSystemBackend and CacheEvictor).
TypeOK == DiskOK /\ ThreadsOK

\* The expired branch of FileSystemBackend.Get gives up its read lock before it
\* takes the write lock to remove the files; what it removes there is never a
\* live entry, because no Put can slip in while Manager.Get holds m.mu.
PurgeOnlyExpired ==
    \A p \in Procs :
        op[p] = "get" /\ pc[p] \in {"rmdata", "rmmeta"} => Visible(loc[p].cur) = 0

\* Without faults, whenever nobody is writing, the metadata of each entry is that
\* of the very Put whose data file lies next to it: neither an asynchronous
\* updateAccessTime nor an eviction pairs metadata with other data, brings it
\* back without its data or leaves data without it.
MetadataDescribesData ==
    faults = 0 /\ fsMu = NoOne =>
        \A k \in Keys : meta[k].created = data[k].ver /\ meta[k].size = data[k].size

\* Whatever fails and wherever the process crashes, readable metadata is never
\* newer than the data it lies next to: Put renames the data into place before
\* it saves the metadata, so old content is never given a new lease of life.
MetadataNotNewer ==
    \A k \in Keys : data[k].ver # 0 => meta[k].created <= data[k].ver

\* Without faults the files of the cache fit in MaxSize, whatever eviction passes
\* run beside Put, unless a single entry larger than MaxSize is all there is
\* (Manager.Put makes room before it writes).
SizeBounded ==
    faults = 0 /\ MaxSize > 0 =>
        \/ Size <= MaxSize
        \/ Cardinality({k \in Keys : data[k].ver # 0})
              + Cardinality({k \in Keys : tmp[k] > 0}) <= 1

\* The sweep of an eviction pass that is within the size limit deletes only
\* entries that are expired when it deletes them (eviction.go:128, "check only
\* items whose TTL has expired").
SweepOnlyExpired ==
    \A p \in Procs : op[p] = "sweep" /\ pc[p] = "rmdata" => Visible(loc[p].cur) = 0

\* A hit is the whole content of an entry (manager.go:47, "read the data with
\* io.ReadAll", which reports a failed read instead of its partial result).
HitIsComplete == \A p \in Procs : res[p].kind = "hit" => res[p].val # 0

\* Every operation that has started returns: no combination of m.mu, e.mu and
\* fs.mu, of failed calls and of pending updateAccessTime goroutines blocks it.
OperationsReturn == \A p \in Procs : op[p] # "idle" ~> op[p] = "idle"

(* What callers of the cache may rely on, see AbstractCache. *)
Pending(p) == IF op[p] = "put" THEN {<<loc[p].key, loc[p].ver>>} ELSE {}

Abs == INSTANCE AbstractCache
         WITH Vals <- 1..MaxPuts,
              store <- [k \in Keys |-> Visible(k)],
              pend <- [p \in Procs |-> Pending(p)]

\* Manager over FileSystemBackend, with concurrent evictions, late access-time
\* updates, failing calls and crashes, implements the abstract cache.
CacheContract == Abs!AbsSpec

=============================================================================
