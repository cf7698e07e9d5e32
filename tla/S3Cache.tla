------------------------------ MODULE S3Cache ------------------------------
(***************************************************************************)
(* cache/s3.go: one key of the S3 backend, an object and a metadata object *)
(* beside it.  s.mu is held by Put, Delete and Clear across their two      *)
(* requests; the purge that Get starts for an expired entry takes it       *)
(* later, in a goroutine, and updateAccessTime never takes it.             *)
(*                                                                         *)
(* A content is the number of the Put that wrote it, and metadata is the   *)
(* number of the Put that it describes (CreatedAt and TTL are its).        *)
(***************************************************************************)
EXTENDS Naturals

CONSTANTS MaxPuts,     \* bound on Puts
          Eternal,     \* Puts with TTL 0, which never expire
          Touches,     \* goroutines in updateAccessTime at a time
          MaxPurges    \* bound on purge goroutines at a time

ASSUME S3Assumption == MaxPuts \in Nat /\ Eternal \subseteq 1..MaxPuts /\ MaxPurges \in Nat

VARIABLES
    obj, objMeta,   \* the Put whose content, and whose metadata, is stored; 0 is none
    s3mu,           \* what s.mu is held for: none, put, delete
    puts,           \* number of Puts so far
    lapsed,         \* Puts whose TTL has passed
    purges,         \* purge goroutines that wait
    touch,          \* touch[x]: MaxPuts + 1 is idle, 0 started, else the metadata it has read
    kept,           \* the last Put was reported and no Delete or Clear came after it
    overtaken       \* when it was reported, a purge or an older access update was under way

s3Vars == <<obj, objMeta, s3mu, puts, lapsed, purges, touch, kept, overtaken>>

NoTouch == MaxPuts + 1

S3TypeOK ==
    /\ obj \in 0..puts /\ objMeta \in 0..puts /\ puts \in 0..MaxPuts
    /\ s3mu \in {"none", "put", "delete"}
    /\ lapsed \subseteq 1..puts /\ purges \in 0..MaxPurges
    /\ touch \in [Touches -> 0..(MaxPuts + 1)]
    /\ kept \in BOOLEAN /\ overtaken \in BOOLEAN

S3Init ==
    /\ obj = 0 /\ objMeta = 0 /\ s3mu = "none" /\ puts = 0 /\ lapsed = {} /\ purges = 0
    /\ touch = [x \in Touches |-> NoTouch] /\ kept = FALSE /\ overtaken = FALSE

----------------------------------------------------------------------------
(* Get and what it starts *)

\* Mutant: TTL 0 is taken for "expires at once".
ExpiredAtZero(v) == v \in lapsed \cup Eternal

Expired(v) == v \in lapsed

GetExpired ==
    /\ s3mu = "none" /\ objMeta # 0 /\ Expired(objMeta) /\ purges < MaxPurges
    /\ purges' = purges + 1
    /\ UNCHANGED <<obj, objMeta, s3mu, puts, lapsed, touch, kept, overtaken>>

GetHit(x) ==
    /\ s3mu = "none" /\ objMeta # 0 /\ ~Expired(objMeta) /\ obj # 0
    /\ touch[x] = NoTouch /\ touch' = [touch EXCEPT ![x] = 0]
    /\ UNCHANGED <<obj, objMeta, s3mu, puts, lapsed, purges, kept, overtaken>>

\* updateAccessTime reads the metadata; there may be none any more.
ReadMeta(x) ==
    /\ touch[x] = 0
    /\ touch' = [touch EXCEPT ![x] = IF objMeta = 0 THEN NoTouch ELSE objMeta]
    /\ UNCHANGED <<obj, objMeta, s3mu, puts, lapsed, purges, kept, overtaken>>

\* It writes back what it has read, whatever happened since; or that fails.
WriteMeta(x) ==
    /\ touch[x] \in 1..MaxPuts
    /\ touch' = [touch EXCEPT ![x] = NoTouch]
    /\ objMeta' \in {objMeta, touch[x]}
    /\ UNCHANGED <<obj, s3mu, puts, lapsed, purges, kept, overtaken>>

----------------------------------------------------------------------------
(* Put, Delete, Clear *)

\* Mutant: the error of PutObject is not looked at.
PutObjectUnchecked ==
    /\ s3mu = "none" /\ puts < MaxPuts
    /\ s3mu' = "put" /\ puts' = puts + 1
    /\ obj' \in {obj, puts'} /\ kept' = FALSE
    /\ UNCHANGED <<objMeta, lapsed, purges, touch, overtaken>>

PutObject ==
    /\ s3mu = "none" /\ puts < MaxPuts
    /\ s3mu' = "put" /\ puts' = puts + 1
    /\ obj' = puts' /\ kept' = FALSE
    /\ UNCHANGED <<objMeta, lapsed, purges, touch, overtaken>>

PutMetadata ==
    /\ s3mu = "put" /\ s3mu' = "none"
    /\ objMeta' = puts /\ kept' = TRUE
    /\ overtaken' = (purges > 0 \/ \E x \in Touches : touch[x] \in 1..MaxPuts)
    /\ UNCHANGED <<obj, puts, lapsed, purges, touch>>

\* The first request of Delete; the purge goroutine calls Delete too.
DeleteObject ==
    /\ s3mu = "none" /\ s3mu' = "delete"
    /\ obj' = 0
    /\ \/ kept' = FALSE /\ UNCHANGED purges
       \/ purges > 0 /\ purges' = purges - 1 /\ UNCHANGED kept
    /\ UNCHANGED <<objMeta, puts, lapsed, touch, overtaken>>

\* Clear deletes what it has listed in batches, the object before its metadata.  The error
\* of a single object is in the answer, which is not looked at.
ClearObject ==
    /\ s3mu = "none" /\ s3mu' = "delete"
    /\ obj' \in {obj, 0} /\ kept' = FALSE
    /\ UNCHANGED <<objMeta, puts, lapsed, purges, touch, overtaken>>

DeleteMetadata ==
    /\ s3mu = "delete" /\ s3mu' = "none"
    /\ objMeta' = 0
    /\ UNCHANGED <<obj, puts, lapsed, purges, touch, kept, overtaken>>

SecondFails ==
    /\ s3mu # "none" /\ s3mu' = "none"
    /\ UNCHANGED <<obj, objMeta, puts, lapsed, purges, touch, kept, overtaken>>

\* The first request of a purge fails; nobody hears of it.
PurgeFails ==
    /\ s3mu = "none" /\ purges > 0 /\ purges' = purges - 1
    /\ UNCHANGED <<obj, objMeta, s3mu, puts, lapsed, touch, kept, overtaken>>

\* The process dies and takes its goroutines with it.
S3Crash ==
    /\ s3mu' = "none" /\ purges' = 0 /\ touch' = [x \in Touches |-> NoTouch]
    /\ UNCHANGED <<obj, objMeta, puts, lapsed, kept, overtaken>>

AgeOut(v) ==
    /\ v \in 1..puts \ (lapsed \cup Eternal) /\ lapsed' = lapsed \cup {v}
    /\ UNCHANGED <<obj, objMeta, s3mu, puts, purges, touch, kept, overtaken>>

S3Next ==
    \/ GetExpired \/ PutObject \/ PutMetadata \/ DeleteObject \/ ClearObject \/ DeleteMetadata
    \/ SecondFails \/ PurgeFails \/ S3Crash
    \/ \E x \in Touches : GetHit(x) \/ ReadMeta(x) \/ WriteMeta(x)
    \/ \E v \in 1..MaxPuts : AgeOut(v)

S3Spec == S3Init /\ [][S3Next]_s3Vars

----------------------------------------------------------------------------
(* Properties *)

\* The metadata never describes a newer Put than the stored content, whatever failed, died or
\* was written back late: no content lives on under the fresh TTL of a Put that came to nothing.
S3MetaNotNewer == obj # 0 => objMeta <= obj

\* A reported Put stays readable with its own metadata until it expires or is removed, unless
\* a purge of the entry before it, or an access update of that entry, was still on its way.
S3EntryKept == (kept /\ puts \notin lapsed) => overtaken \/ (obj = puts /\ objMeta = puts)

=============================================================================
