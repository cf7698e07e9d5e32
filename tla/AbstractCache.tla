--------------------------- MODULE AbstractCache ---------------------------
(***************************************************************************)
(* What the cache package promises its callers (CacheBackend and Manager,  *)
(* cache/interface.go and cache/manager.go): a map from keys to values in  *)
(* which an entry may disappear at any moment (TTL, eviction, a crash, a   *)
(* failed write), but                                                      *)
(*   - a read that hits returns the value the key holds at that moment;    *)
(*   - a value appears under a key only while a Put of that very value     *)
(*     under that very key is in progress: what was overwritten, deleted,  *)
(*     evicted or expired never comes back;                                *)
(*   - a Put that reports success has made its value visible, a Delete or  *)
(*     a Clear that reports success has made its keys invisible.           *)
(* Values are version numbers, 0 standing for "no visible entry".          *)
(***************************************************************************)
EXTENDS Naturals

CONSTANTS Keys,     \* cache keys
          Vals,     \* versions, 0 not among them
          Procs,    \* goroutines that call the cache
          NoKey     \* the key of a result that is about no key

VARIABLES store,    \* store[k]: the visible version of k, 0 when there is none
          pend,     \* pend[p]: {<<k, v>>} while p is inside Put(k, v), else {}
          res,      \* res[p]: what p's last completed operation answered
          faults    \* number of failed file-system calls and crashes

absvars == <<store, pend, res, faults>>

Result(kind, k, v) == [kind |-> kind, key |-> k, val |-> v]

NoResult == Result("none", NoKey, 0)

AbsInit ==
    /\ store = [k \in Keys |-> 0]
    /\ pend = [p \in Procs |-> {}]
    /\ res = [p \in Procs |-> NoResult]
    /\ faults = 0

Fault == faults' = faults + 1

\* Entries may be lost at any time, whoever loses them.
Lose == \E S \in SUBSET Keys :
            store' = [k \in Keys |-> IF k \in S THEN 0 ELSE store[k]]

\* p calls an operation; its previous answer is no longer of interest.
Call(p) ==
    /\ pend[p] = {}
    /\ res' = [res EXCEPT ![p] = NoResult]
    /\ UNCHANGED <<store, pend, faults>>

StartPut(p) ==
    /\ pend[p] = {}
    /\ \E k \in Keys, v \in Vals : pend' = [pend EXCEPT ![p] = {<<k, v>>}]
    /\ res' = [res EXCEPT ![p] = NoResult]
    /\ UNCHANGED <<store, faults>>

\* The value of a Put in progress becomes visible before Put returns.
Apply(p) ==
    /\ \E k \in Keys, v \in Vals :
            /\ pend[p] = {<<k, v>>}
            /\ store' = [store EXCEPT ![k] = v]
    /\ UNCHANGED <<pend, res, faults>>

CommitPut(p) ==
    \E k \in Keys, v \in Vals :
        /\ pend[p] = {<<k, v>>}
        /\ store' = [store EXCEPT ![k] = v]
        /\ pend' = [pend EXCEPT ![p] = {}]
        /\ res' = [res EXCEPT ![p] = Result("stored", k, v)]
        /\ UNCHANGED faults

\* Put, Delete, Clear or an eviction pass returns an error.
Fail(p) ==
    /\ Fault
    /\ Lose
    /\ pend' = [pend EXCEPT ![p] = {}]
    /\ res' = [res EXCEPT ![p] = Result("error", NoKey, 0)]

Read(p) ==
    /\ pend[p] = {}
    /\ \E k \in Keys :
          res' = [res EXCEPT ![p] =
                     Result(IF store[k] = 0 THEN "miss" ELSE "hit", k, store[k])]
    /\ UNCHANGED <<store, pend, faults>>

\* A read that fails is a miss, or a hit on what had been read until then (0).
ReadFails(p) ==
    /\ Fault
    /\ pend[p] = {}
    /\ \E k \in Keys :
          \/ res' = [res EXCEPT ![p] = Result("miss", k, 0)]
          \/ store[k] # 0 /\ res' = [res EXCEPT ![p] = Result("hit", k, 0)]
    /\ UNCHANGED <<store, pend>>

Probe(p) ==
    /\ pend[p] = {}
    /\ \E k \in Keys :
          res' = [res EXCEPT ![p] = Result(IF store[k] = 0 THEN "no" ELSE "yes", k, 0)]
    /\ UNCHANGED <<store, pend, faults>>

ProbeFails(p) ==
    /\ Fault
    /\ pend[p] = {}
    /\ \E k \in Keys : res' = [res EXCEPT ![p] = Result("no", k, 0)]
    /\ UNCHANGED <<store, pend>>

Removed(p) ==
    /\ pend[p] = {}
    /\ Lose
    /\ \E k \in Keys :
          /\ store'[k] = 0
          /\ res' = [res EXCEPT ![p] = Result("deleted", k, 0)]
    /\ UNCHANGED <<pend, faults>>

Cleared(p) ==
    /\ pend[p] = {}
    /\ store' = [k \in Keys |-> 0]
    /\ res' = [res EXCEPT ![p] = Result("cleared", NoKey, 0)]
    /\ UNCHANGED <<pend, faults>>

\* An eviction pass ends: it promises nothing about any particular key.
Swept(p) ==
    /\ pend[p] = {}
    /\ Lose
    /\ res' = [res EXCEPT ![p] = Result("swept", NoKey, 0)]
    /\ UNCHANGED <<pend, faults>>

\* TTL expiry, evictions and failures in the background.
Vanish == Lose /\ (Fault \/ UNCHANGED faults) /\ UNCHANGED <<pend, res>>

Restart ==
    /\ Fault
    /\ Lose
    /\ pend' = [p \in Procs |-> {}]
    /\ res' = [p \in Procs |-> NoResult]

AbsNext ==
    \/ \E p \in Procs :
          \/ Call(p) \/ StartPut(p) \/ Apply(p) \/ CommitPut(p) \/ Fail(p)
          \/ Read(p) \/ ReadFails(p) \/ Probe(p) \/ ProbeFails(p)
          \/ Removed(p) \/ Cleared(p) \/ Swept(p)
    \/ Vanish
    \/ Restart

AbsSpec == AbsInit /\ [][AbsNext]_absvars

=============================================================================
