----------------------------- MODULE AuthProofs -----------------------------
(***************************************************************************)
(* Proofs about ApiKeyStore and AuditLog, for any number of keys, saving   *)
(* goroutines, events and cleanups, and any limits.                        *)
(***************************************************************************)
EXTENDS ApiKeyStore, AuditLog, FiniteSetTheorems, TLAPS

----------------------------------------------------------------------------
(* ApiKeyStore *)

KeySets(ids) == [has : SUBSET ids, off : SUBSET ids]

SaveStates(ids) ==
    [pc : {"idle", "encode", "write", "rename"}, todo : SUBSET ids, snap : KeySets(ids),
     fd : {"none", "tmp", "disk", "gone"}]

Files(ids) == [state : {"absent", "empty", "whole", "garbled"}, keys : KeySets(ids)]

\* Nothing refers to a key that was not issued, and a saver that rests holds nothing.
KeyTypes ==
    /\ keys \in KeySets(issued) /\ disk \in Files(issued) /\ tmp \in Files(issued)
    /\ save \in [Savers -> SaveStates(issued)]
    /\ op \in [name : {"none", "generate", "revoke", "other"}, key : SUBSET issued]
    /\ acked \subseteq issued
    /\ \A x \in Savers : save[x].pc = "idle" => save[x].todo = {} /\ save[x].snap = NoKeys

\* The keys that x will have written as active, when no more are revoked meanwhile.
Held(x) == Active(save[x].snap) \cup (save[x].todo \ keys.off)

\* Everything that may become the set of active keys, now or after some saves and a restart.
Places == {Active(keys), Active(disk.keys), Active(tmp.keys)} \cup {Held(x) : x \in Savers}

Quota(S) == IsFiniteSet(S) /\ Cardinality(S) <= MaxKeysPerUser

QuotaInv == \A S \in Places : Quota(S)

\* A reported revocation has reached every place.
AckedInv == \A k \in acked \ racy : \A S \in Places : k \notin S

\* One that is being saved has reached the map and all savers, and storagePath.tmp once Holder
\* has opened it: only storagePath may still have the key as active.
PendingRevoke ==
    op.name = "revoke" =>
       \A k \in op.key \ racy :
          /\ k \notin Active(keys)
          /\ \A x \in Savers : k \notin Held(x)
          /\ save[Holder].pc \in {"write", "rename"} => k \notin Active(tmp.keys)

KeyInv == KeyTypes /\ QuotaInv /\ AckedInv /\ PendingRevoke

\* S holds nothing that was not in one place before the step.
Covered(S) == S = {} \/ \E T \in Places : S \subseteq T

\* A step that brings no key to a place it was in nowhere.
Flow ==
    /\ Covered(Active(keys)') /\ Covered(Active(disk.keys)') /\ Covered(Active(tmp.keys)')
    /\ \A x \in Savers : Covered(Held(x)')

LEMMA QuotaShrinks == \A S, T : Quota(T) /\ S \subseteq T => Quota(S)
  <1> SUFFICES ASSUME NEW S, NEW T, Quota(T), S \subseteq T PROVE Quota(S)
    OBVIOUS
  <1>1. IsFiniteSet(S) /\ Cardinality(S) <= Cardinality(T)
    BY FS_Subset DEF Quota
  <1>2. Cardinality(S) \in Nat /\ Cardinality(T) \in Nat
    BY <1>1, FS_CardinalityType DEF Quota
  <1> QED
    BY <1>1, <1>2, ApiKeysAssumption DEF Quota

LEMMA QuotaEmpty == Quota({})
  BY FS_EmptySet, ApiKeysAssumption DEF Quota

\* What is in one of the places of the next state was in one before.
LEMMA FlowPlaces == ASSUME Flow PROVE \A S \in Places' : Covered(S)
  BY Zenon DEF Flow, Places

LEMMA FlowQuota == ASSUME QuotaInv, Flow PROVE QuotaInv'
  <1> SUFFICES ASSUME NEW S \in Places' PROVE Quota(S)
    BY Zenon DEF QuotaInv, Quota
  <1>1. Covered(S)
    BY FlowPlaces
  <1> QED
    BY <1>1, QuotaShrinks, QuotaEmpty, Zenon DEF Covered, QuotaInv

LEMMA FlowAcked ==
    ASSUME AckedInv, Flow, acked' \subseteq acked, racy \subseteq racy'
    PROVE  AckedInv'
  <1> SUFFICES ASSUME NEW k \in acked' \ racy', NEW S \in Places' PROVE k \notin S
    BY Zenon DEF AckedInv
  <1>1. Covered(S) /\ k \in acked \ racy
    BY FlowPlaces
  <1> QED
    BY <1>1 DEF Covered, AckedInv

\* The places, one by one.
LEMMA PlacesHold ==
    /\ Active(keys) \in Places /\ Active(disk.keys) \in Places /\ Active(tmp.keys) \in Places
    /\ \A x \in Savers : Held(x) \in Places
  BY DEF Places

LEMMA KeysStart == KeysInit => KeyInv
  <1> SUFFICES ASSUME KeysInit PROVE KeyInv
    OBVIOUS
  <1>1. KeyTypes
    BY DEF KeysInit, KeyTypes, KeySets, SaveStates, Files, NoKeys, NoFile, File, Resting, NoOp
  <1>2. \A S \in Places : S = {}
    BY DEF KeysInit, Places, Held, Active, NoKeys, NoFile, File, Resting
  <1>3. QuotaInv
    BY <1>2, QuotaEmpty DEF QuotaInv
  <1>4. AckedInv
    BY <1>2 DEF AckedInv
  <1>5. PendingRevoke
    BY DEF KeysInit, PendingRevoke, NoOp
  <1> QED
    BY <1>1, <1>3, <1>4, <1>5 DEF KeyInv

\* saveKeys begins: what x will write is what is active in the map.
LEMMA MarshalHolds ==
    ASSUME KeyTypes, NEW x \in Savers, NEW ks, ks.off = keys'.off, ks.has = keys'.has,
           save' = [save EXCEPT ![x] = Marshal(x, ks)], keys.off \subseteq keys'.off
    PROVE  /\ Held(x)' = Active(keys)'
           /\ \A y \in Savers \ {x} : save'[y] = save[y] /\ Held(y)' \subseteq Held(y)
           /\ save'[x] = [pc |-> "encode", todo |-> ks.has, snap |-> NoKeys, fd |-> "none"]
  <1>1. save'[x] = [pc |-> "encode", todo |-> ks.has, snap |-> NoKeys, fd |-> "none"]
    BY DEF KeyTypes, Marshal, Resting
  <1>2. \A y \in Savers \ {x} : save'[y] = save[y]
    BY DEF KeyTypes
  <1>3. Held(x)' = Active(keys)'
    BY <1>1 DEF Held, Active, NoKeys
  <1>4. \A y \in Savers \ {x} : Held(y)' \subseteq Held(y)
    BY <1>2 DEF Held
  <1> QED
    BY <1>1, <1>2, <1>3, <1>4

\* GenerateAPIKey: only a key that was never issued comes to the places, within the quota.
LEMMA GenerateKeeps == ASSUME KeyInv, NEW k \in KeyIds, GenerateAPIKey(k) PROVE KeyInv'
  <1> USE DEF KeyInv
  <1>1. /\ k \notin issued /\ ~(Cardinality(Active(keys)) >= MaxKeysPerUser)
        /\ keys' = [keys EXCEPT !.has = @ \cup {k}] /\ issued' = issued \cup {k}
        /\ op' = [name |-> "generate", key |-> {k}]
        /\ save' = [save EXCEPT ![Holder] = Marshal(Holder, keys')]
        /\ UNCHANGED <<disk, tmp, acked, racy>>
    BY DEF GenerateAPIKey
  <1>h. Holder \in Savers
    BY DEF Savers
  <1>2. keys'.has = keys.has \cup {k} /\ keys'.off = keys.off /\ keys' \in KeySets(issued')
    BY <1>1 DEF KeyTypes, KeySets
  <1>3. /\ Held(Holder)' = Active(keys)'
        /\ \A y \in Savers \ {Holder} : save'[y] = save[y] /\ Held(y)' \subseteq Held(y)
        /\ save'[Holder] = [pc |-> "encode", todo |-> keys'.has, snap |-> NoKeys, fd |-> "none"]
    BY <1>1, <1>2, <1>h, MarshalHolds
  <1>4. KeyTypes'
    <2>1. KeySets(issued) \subseteq KeySets(issued')
      BY <1>1 DEF KeySets
    <2>2. disk' \in Files(issued') /\ tmp' \in Files(issued')
      BY <1>1, <2>1 DEF KeyTypes, Files
    <2>3. SaveStates(issued) \subseteq SaveStates(issued')
      BY <1>1, <2>1 DEF SaveStates
    <2>4. save'[Holder] \in SaveStates(issued')
      BY <1>2, <1>3 DEF SaveStates, KeySets, NoKeys
    <2>5. save' \in [Savers -> SaveStates(issued')]
      BY <1>1, <1>3, <2>3, <2>4, <1>h DEF KeyTypes
    <2>6. op' \in [name : {"none", "generate", "revoke", "other"}, key : SUBSET issued']
          /\ acked' \subseteq issued'
      BY <1>1 DEF KeyTypes
    <2>7. \A x \in Savers : save'[x].pc = "idle" => save'[x].todo = {} /\ save'[x].snap = NoKeys
      BY <1>3 DEF KeyTypes
    <2> QED
      BY <1>2, <2>2, <2>5, <2>6, <2>7 DEF KeyTypes
  <1>5. Active(keys)' \subseteq Active(keys) \cup {k}
    BY <1>2 DEF Active
  <1>6. \A S \in Places' : Covered(S) \/ S \subseteq Active(keys) \cup {k}
    <2>1. Active(disk.keys)' = Active(disk.keys) /\ Active(tmp.keys)' = Active(tmp.keys)
      BY <1>1 DEF Active
    <2>2. Covered(Active(disk.keys)') /\ Covered(Active(tmp.keys)')
      BY <2>1, PlacesHold DEF Covered
    <2>3. \A x \in Savers : Covered(Held(x)') \/ Held(x)' \subseteq Active(keys) \cup {k}
      BY <1>3, <1>5, PlacesHold DEF Covered
    <2> QED
      BY <1>5, <2>2, <2>3, Zenon DEF Places
  <1>7. QuotaInv'
    <2>1. Quota(Active(keys) \cup {k})
      <3>1. IsFiniteSet(Active(keys))
        BY PlacesHold DEF QuotaInv, Quota
      <3>2. Cardinality(Active(keys)) \in Nat
        BY <3>1, FS_CardinalityType
      <3>3. /\ IsFiniteSet(Active(keys) \cup {k})
            /\ \/ Cardinality(Active(keys) \cup {k}) = Cardinality(Active(keys)) + 1
               \/ Cardinality(Active(keys) \cup {k}) = Cardinality(Active(keys))
        BY <3>1, FS_AddElement
      <3> QED
        BY <1>1, <3>2, <3>3, ApiKeysAssumption DEF Quota
    <2> SUFFICES ASSUME NEW S \in Places' PROVE Quota(S)
      BY Zenon DEF QuotaInv, Quota
    <2>2. CASE S \subseteq Active(keys) \cup {k}
      BY <2>1, <2>2, QuotaShrinks
    <2>3. CASE Covered(S)
      BY <2>3, QuotaShrinks, QuotaEmpty, Zenon DEF Covered, QuotaInv
    <2> QED
      BY <1>6, <2>2, <2>3
  <1>8. AckedInv'
    <2> SUFFICES ASSUME NEW j \in acked \ racy, NEW S \in Places' PROVE j \notin S
      BY <1>1, Zenon DEF AckedInv
    <2>1. j # k /\ j \notin Active(keys)
      BY <1>1, PlacesHold DEF KeyTypes, AckedInv
    <2>2. Covered(S) => j \notin S
      BY DEF Covered, AckedInv
    <2> QED
      BY <1>6, <2>1, <2>2
  <1>9. PendingRevoke'
    BY <1>1 DEF PendingRevoke
  <1> QED
    BY <1>4, <1>7, <1>8, <1>9

\* RevokeAPIKey, cleanupExpiredKeys, UpdateAPIKey and RecordAPIKeyUsage: x begins to save the map,
\* in which keys have become inactive or gone.
LEMMA BeginSave ==
    ASSUME KeyInv, NEW x \in Savers,
           keys' \in KeySets(issued), keys'.has \subseteq keys.has, keys.off \subseteq keys'.off,
           save' = [save EXCEPT ![x] = Marshal(x, keys')],
           op' \in [name : {"none", "generate", "revoke", "other"}, key : SUBSET issued],
           UNCHANGED <<issued, disk, tmp, acked>>
    PROVE  /\ KeyTypes' /\ Flow
           /\ Held(x)' = Active(keys)' /\ Active(keys)' \subseteq Active(keys)
           /\ \A y \in Savers \ {x} : save'[y] = save[y] /\ Held(y)' \subseteq Held(y)
           /\ save'[x].pc = "encode"
  <1> USE DEF KeyInv
  <1>3. /\ Held(x)' = Active(keys)'
        /\ \A y \in Savers \ {x} : save'[y] = save[y] /\ Held(y)' \subseteq Held(y)
        /\ save'[x] = [pc |-> "encode", todo |-> keys'.has, snap |-> NoKeys, fd |-> "none"]
    BY MarshalHolds
  <1>4. KeyTypes'
    <2>1. save'[x] \in SaveStates(issued)
      BY <1>3 DEF SaveStates, KeySets, NoKeys
    <2>2. save' \in [Savers -> SaveStates(issued)]
      BY <1>3, <2>1 DEF KeyTypes
    <2>3. \A y \in Savers : save'[y].pc = "idle" => save'[y].todo = {} /\ save'[y].snap = NoKeys
      BY <1>3 DEF KeyTypes
    <2> QED
      BY <2>2, <2>3 DEF KeyTypes
  <1>5. Active(keys)' \subseteq Active(keys)
    BY DEF Active
  <1>6. Flow
    <2>1. Active(disk.keys)' = Active(disk.keys) /\ Active(tmp.keys)' = Active(tmp.keys)
      BY DEF Active
    <2>2. Covered(Active(disk.keys)') /\ Covered(Active(tmp.keys)') /\ Covered(Active(keys)')
      BY <2>1, <1>5, PlacesHold DEF Covered
    <2>3. \A y \in Savers : Covered(Held(y)')
      BY <1>3, <1>5, PlacesHold DEF Covered
    <2> QED
      BY <2>2, <2>3 DEF Flow
  <1> QED
    BY <1>3, <1>4, <1>5, <1>6

LEMMA RevokeKeeps == ASSUME KeyInv, NEW k \in KeyIds, RevokeAPIKey(k) PROVE KeyInv'
  <1> USE DEF KeyInv
  <1>h. Holder \in Savers
    BY DEF Savers
  <1>1. /\ k \in keys.has /\ keys' = [keys EXCEPT !.off = @ \cup {k}]
        /\ op' = [name |-> "revoke", key |-> {k}]
        /\ save' = [save EXCEPT ![Holder] = Marshal(Holder, keys')]
        /\ racy' = (IF Busy THEN racy \cup {k} ELSE racy)
        /\ UNCHANGED <<issued, disk, tmp, acked>>
    BY DEF RevokeAPIKey
  <1>2. /\ keys' \in KeySets(issued) /\ keys'.has = keys.has /\ keys'.off = keys.off \cup {k}
        /\ k \in issued
    BY <1>1 DEF KeyTypes, KeySets
  <1>3. op' \in [name : {"none", "generate", "revoke", "other"}, key : SUBSET issued]
    BY <1>1, <1>2
  <1>4. /\ KeyTypes' /\ Flow
        /\ Held(Holder)' = Active(keys)' /\ Active(keys)' \subseteq Active(keys)
        /\ \A y \in Savers \ {Holder} : save'[y] = save[y] /\ Held(y)' \subseteq Held(y)
        /\ save'[Holder].pc = "encode"
    BY <1>h, <1>1, <1>2, <1>3, BeginSave
  <1>5. QuotaInv'
    BY <1>4, FlowQuota
  <1>6. AckedInv'
    BY <1>1, <1>4, FlowAcked
  <1>7. PendingRevoke'
    <2> SUFFICES ASSUME k \notin racy'
                 PROVE  k \notin Active(keys)' /\ \A x \in Savers : k \notin Held(x)'
      BY <1>1, <1>4 DEF PendingRevoke
    <2>1. k \notin Active(keys)'
      BY <1>2 DEF Active
    <2>2. \A g \in Loggers : save[g].pc = "idle"
      BY <1>1 DEF Busy, Saving
    <2>3. \A g \in Savers \ {Holder} : save[g].todo = {} /\ save[g].snap = NoKeys
      BY <2>2 DEF KeyTypes, Savers
    <2>4. \A g \in Savers \ {Holder} : Held(g) = {}
      BY <2>3 DEF Held, Active, NoKeys
    <2> QED
      BY <1>4, <2>1, <2>4
  <1> QED
    BY <1>4, <1>5, <1>6, <1>7

LEMMA HolderKeeps ==
    ASSUME KeyInv, UpdateAPIKey \/ \E gone \in SUBSET KeyIds : cleanupExpiredKeys(gone)
    PROVE  KeyInv'
  <1> USE DEF KeyInv
  <1>h. Holder \in Savers
    BY DEF Savers
  <1>1. /\ op' = [name |-> "other", key |-> {}] /\ UNCHANGED <<issued, disk, tmp, acked, racy>>
        /\ save' = [save EXCEPT ![Holder] = Marshal(Holder, keys')]
    BY DEF UpdateAPIKey, cleanupExpiredKeys
  <1>2. keys' \in KeySets(issued) /\ keys'.has \subseteq keys.has /\ keys'.off = keys.off
    <2>1. CASE UpdateAPIKey
      BY <2>1 DEF UpdateAPIKey, KeyTypes
    <2>2. ASSUME NEW gone \in SUBSET KeyIds, cleanupExpiredKeys(gone)
          PROVE  keys' \in KeySets(issued) /\ keys'.has \subseteq keys.has /\ keys'.off = keys.off
      BY <2>2 DEF cleanupExpiredKeys, KeyTypes, KeySets
    <2> QED
      BY <2>1, <2>2
  <1>3. op' \in [name : {"none", "generate", "revoke", "other"}, key : SUBSET issued]
    BY <1>1
  <1>4. KeyTypes' /\ Flow
    BY <1>h, <1>1, <1>2, <1>3, BeginSave
  <1>5. QuotaInv' /\ AckedInv'
    BY <1>1, <1>4, FlowQuota, FlowAcked
  <1>6. PendingRevoke'
    BY <1>1 DEF PendingRevoke
  <1> QED
    BY <1>4, <1>5, <1>6

LEMMA UsageKeeps == ASSUME KeyInv, NEW g \in Loggers, RecordAPIKeyUsage(g) PROVE KeyInv'
  <1> USE DEF KeyInv
  <1>h. g \in Savers /\ Holder \in Savers /\ g # Holder
    BY ApiKeysAssumption DEF Savers
  <1>1. /\ UNCHANGED <<keys, issued, disk, tmp, op, acked, racy>>
        /\ save' = [save EXCEPT ![g] = Marshal(g, keys')]
    BY DEF RecordAPIKeyUsage
  <1>2. /\ keys' \in KeySets(issued)
        /\ op' \in [name : {"none", "generate", "revoke", "other"}, key : SUBSET issued]
    BY <1>1 DEF KeyTypes
  <1>4. /\ KeyTypes' /\ Flow
        /\ Held(g)' = Active(keys)' /\ Active(keys)' \subseteq Active(keys)
        /\ \A y \in Savers \ {g} : save'[y] = save[y] /\ Held(y)' \subseteq Held(y)
    BY <1>h, <1>1, <1>2, BeginSave
  <1>5. QuotaInv' /\ AckedInv'
    BY <1>1, <1>4, FlowQuota, FlowAcked
  <1>6. PendingRevoke'
    <2> SUFFICES ASSUME op.name = "revoke", NEW k \in op.key \ racy
                 PROVE  /\ k \notin Active(keys)'
                        /\ \A x \in Savers : k \notin Held(x)'
                        /\ save'[Holder].pc \in {"write", "rename"} => k \notin Active(tmp.keys)'
      BY <1>1 DEF PendingRevoke
    <2>1. /\ k \notin Active(keys) /\ \A x \in Savers : k \notin Held(x)
          /\ save[Holder].pc \in {"write", "rename"} => k \notin Active(tmp.keys)
      BY DEF PendingRevoke
    <2>2. Active(tmp.keys)' = Active(tmp.keys) /\ save'[Holder] = save[Holder]
      BY <1>1, <1>4, <1>h DEF Active
    <2> QED
      BY <1>4, <2>1, <2>2
  <1> QED
    BY <1>4, <1>5, <1>6

\* A step of x inside saveKeys, seen from the other savers.
LEMMA EncodeKeeps ==
    ASSUME KeyInv, NEW x \in Savers, NEW k \in KeyIds, Encode(x, k)
    PROVE  KeyInv'
  <1> USE DEF KeyInv
  <1>1. /\ save[x].pc = "encode" /\ k \in save[x].todo
        /\ save' = [save EXCEPT ![x].todo = @ \ {k},
                                ![x].snap = [has |-> @.has \cup {k},
                                             off |-> @.off \cup ({k} \cap keys.off)]]
        /\ UNCHANGED <<keys, issued, disk, tmp, op, acked, racy>>
    BY DEF Encode
  <1>2. /\ save'[x] = [pc |-> "encode", todo |-> save[x].todo \ {k},
                       snap |-> [has |-> save[x].snap.has \cup {k},
                                 off |-> save[x].snap.off \cup ({k} \cap keys.off)],
                       fd |-> save[x].fd]
        /\ \A y \in Savers \ {x} : save'[y] = save[y]
    BY <1>1 DEF KeyTypes, SaveStates
  <1>3. save'[x] \in SaveStates(issued)
    BY <1>1, <1>2 DEF KeyTypes, SaveStates, KeySets
  <1>4. KeyTypes'
    <2>1. save' \in [Savers -> SaveStates(issued)]
      BY <1>1, <1>2, <1>3 DEF KeyTypes
    <2>2. \A y \in Savers : save'[y].pc = "idle" => save'[y].todo = {} /\ save'[y].snap = NoKeys
      BY <1>2 DEF KeyTypes
    <2> QED
      BY <1>1, <2>1, <2>2 DEF KeyTypes
  <1>5. \A y \in Savers : Held(y)' \subseteq Held(y)
    <2>1. Held(x)' \subseteq Held(x)
      <3> DEFINE s == save[x].snap
      <3>1. /\ save'[x].todo = save[x].todo \ {k}
            /\ Active(save'[x].snap) = (s.has \cup {k}) \ (s.off \cup ({k} \cap keys.off))
        BY <1>2 DEF Active
      <3>2. Held(x)' = Active(save'[x].snap) \cup ((save[x].todo \ {k}) \ keys.off)
        BY <1>1, <3>1 DEF Held
      <3>3. Held(x) = (s.has \ s.off) \cup (save[x].todo \ keys.off)
        BY DEF Held, Active
      <3> QED
        BY <1>1, <3>1, <3>2, <3>3
    <2>2. \A y \in Savers \ {x} : Held(y)' = Held(y)
      BY <1>1, <1>2 DEF Held, Active
    <2> QED
      BY <2>1, <2>2
  <1>6. UNCHANGED <<Active(keys), Active(disk.keys), Active(tmp.keys)>>
    BY <1>1 DEF Active
  <1>7. Flow
    BY <1>5, <1>6, PlacesHold DEF Flow, Covered
  <1>8. QuotaInv' /\ AckedInv'
    BY <1>1, <1>7, FlowQuota, FlowAcked
  <1>9. PendingRevoke'
    <2>0. save'[x].pc = "encode" /\ save[x].pc = "encode" /\ Holder \in Savers
      BY <1>2 DEF Encode, Savers
    <2>1. save'[Holder].pc = save[Holder].pc
      BY <1>2, <2>0
    <2> SUFFICES ASSUME op.name = "revoke", NEW j \in op.key \ racy
                 PROVE  /\ j \notin Active(keys)'
                        /\ \A y \in Savers : j \notin Held(y)'
                        /\ save'[Holder].pc \in {"write", "rename"} => j \notin Active(tmp.keys)'
      BY <1>1 DEF PendingRevoke
    <2>2. /\ j \notin Active(keys) /\ \A y \in Savers : j \notin Held(y)
          /\ save[Holder].pc \in {"write", "rename"} => j \notin Active(tmp.keys)
      BY DEF PendingRevoke
    <2> QED
      BY <1>5, <1>6, <2>1, <2>2
  <1> QED
    BY <1>4, <1>8, <1>9

LEMMA OpenKeeps == ASSUME KeyInv, NEW x \in Savers, KeysOpen(x) PROVE KeyInv'
  <1> USE DEF KeyInv
  <1>1. /\ save[x].pc = "encode" /\ tmp' = File("empty", NoKeys)
        /\ save' = [save EXCEPT ![x].pc = "write", ![x].fd = "tmp"]
        /\ UNCHANGED <<keys, issued, disk, op, acked, racy>>
    BY DEF KeysOpen
  <1>2. /\ save'[x] = [pc |-> "write", todo |-> save[x].todo, snap |-> save[x].snap, fd |-> "tmp"]
        /\ \A y \in Savers \ {x} : save'[y] = save[y]
    BY <1>1 DEF KeyTypes, SaveStates
  <1>3. save'[x] \in SaveStates(issued)
    BY <1>1, <1>2 DEF KeyTypes, SaveStates
  <1>t. tmp' \in Files(issued) /\ Active(tmp.keys)' = {}
    BY <1>1 DEF Files, File, NoKeys, KeySets, Active
  <1>4. KeyTypes'
    <2>1. save' \in [Savers -> SaveStates(issued)]
      BY <1>1, <1>2, <1>3 DEF KeyTypes
    <2>2. \A y \in Savers : save'[y].pc = "idle" => save'[y].todo = {} /\ save'[y].snap = NoKeys
      BY <1>2 DEF KeyTypes
    <2> QED
      BY <1>1, <1>t, <2>1, <2>2 DEF KeyTypes
  <1>5. \A y \in Savers : Held(y)' = Held(y)
    <2>1. \A y \in Savers : save'[y].todo = save[y].todo /\ save'[y].snap = save[y].snap
      BY <1>2
    <2> QED
      BY <1>1, <2>1 DEF Held, Active
  <1>6. UNCHANGED <<Active(keys), Active(disk.keys)>>
    BY <1>1 DEF Active
  <1>7. Flow
    BY <1>5, <1>6, <1>t, PlacesHold DEF Flow, Covered
  <1>8. QuotaInv' /\ AckedInv'
    BY <1>1, <1>7, FlowQuota, FlowAcked
  <1>9. PendingRevoke'
    BY <1>1, <1>5, <1>6, <1>t DEF PendingRevoke
  <1> QED
    BY <1>4, <1>8, <1>9

\* What a write leaves behind is what was read from the map, or does not parse.
LEMMA OverHolds ==
    ASSUME NEW ids, NEW old, NEW ks \in KeySets(ids), NEW f \in Over(old, ks)
    PROVE  f \in Files(ids) /\ Active(f.keys) \subseteq Active(ks)
  <1>1. f = File("whole", ks) \/ f = File("garbled", NoKeys)
    BY DEF Over
  <1> QED
    BY <1>1 DEF File, Files, NoKeys, KeySets, Active

LEMMA WriteFileKeeps == ASSUME KeyInv, NEW x \in Savers, KeysWrite(x) PROVE KeyInv'
  <1> USE DEF KeyInv
  <1>1. /\ save[x].pc = "write" /\ save' = [save EXCEPT ![x].pc = "rename", ![x].fd = "none"]
        /\ UNCHANGED <<keys, issued, op, acked, racy>>
    BY DEF KeysWrite
  <1>2. /\ save'[x] = [pc |-> "rename", todo |-> save[x].todo, snap |-> save[x].snap, fd |-> "none"]
        /\ \A y \in Savers \ {x} : save'[y] = save[y]
    BY <1>1 DEF KeyTypes, SaveStates
  <1>3. save'[x] \in SaveStates(issued) /\ save[x].snap \in KeySets(issued)
    BY <1>1, <1>2 DEF KeyTypes, SaveStates
  <1>s. Active(save[x].snap) \subseteq Held(x)
    BY DEF Held
  <1>d. disk' = disk \/ (disk' \in Files(issued) /\ Active(disk'.keys) \subseteq Held(x))
    BY <1>3, <1>s, OverHolds DEF KeysWrite
  <1>t. tmp' = tmp \/ (tmp' \in Files(issued) /\ Active(tmp'.keys) \subseteq Held(x))
    BY <1>3, <1>s, OverHolds DEF KeysWrite
  <1>4. KeyTypes'
    <2>1. save' \in [Savers -> SaveStates(issued)]
      BY <1>1, <1>2, <1>3 DEF KeyTypes
    <2>2. \A y \in Savers : save'[y].pc = "idle" => save'[y].todo = {} /\ save'[y].snap = NoKeys
      BY <1>2 DEF KeyTypes
    <2> QED
      BY <1>1, <1>d, <1>t, <2>1, <2>2 DEF KeyTypes
  <1>5. \A y \in Savers : Held(y)' = Held(y)
    <2>1. \A y \in Savers : save'[y].todo = save[y].todo /\ save'[y].snap = save[y].snap
      BY <1>2
    <2> QED
      BY <1>1, <2>1 DEF Held, Active
  <1>6. UNCHANGED Active(keys)
    BY <1>1 DEF Active
  <1>7. Flow
    <2>1. Covered(Active(disk.keys)') /\ Covered(Active(tmp.keys)')
      BY <1>d, <1>t, PlacesHold DEF Covered
    <2> QED
      BY <1>5, <1>6, <2>1, PlacesHold DEF Flow, Covered
  <1>8. QuotaInv' /\ AckedInv'
    BY <1>1, <1>7, FlowQuota, FlowAcked
  <1>9. PendingRevoke'
    <2> SUFFICES ASSUME op.name = "revoke", NEW k \in op.key \ racy,
                        save'[Holder].pc \in {"write", "rename"}
                 PROVE  k \notin Active(tmp.keys)'
      BY <1>1, <1>5, <1>6 DEF PendingRevoke
    <2>1. save[Holder].pc \in {"write", "rename"}
      BY <1>1, <1>2 DEF Savers
    <2>2. k \notin Active(tmp.keys) /\ k \notin Held(x)
      BY <2>1 DEF PendingRevoke
    <2> QED
      BY <1>t, <2>2
  <1> QED
    BY <1>4, <1>8, <1>9

\* How saveKeys returns to its caller.
LEMMA EndedHolds ==
    ASSUME KeyTypes, NEW x \in Savers, NEW ok \in BOOLEAN, Ended(x, ok)
    PROVE  /\ keys' \in KeySets(issued) /\ keys'.has \subseteq keys.has /\ keys'.off = keys.off
           /\ op' \in [name : {"none", "generate", "revoke", "other"}, key : SUBSET issued]
           /\ acked' \subseteq issued
           /\ x # Holder => op' = op /\ keys' = keys
           /\ x = Holder => op'.name = "none"
           /\ acked' = acked \/ (ok /\ x = Holder /\ op.name = "revoke" /\ acked' = acked \cup op.key)
  <1>1. CASE x # Holder
    BY <1>1 DEF Ended, KeyTypes
  <1>2. CASE x = Holder
    BY <1>2 DEF Ended, KeyTypes, KeySets, NoOp
  <1> QED
    BY <1>1, <1>2

\* saveKeys ends: x rests, and descriptors of the others may have moved with their file.
LEMMA EndSave ==
    ASSUME KeyInv, NEW x \in Savers, NEW ok \in BOOLEAN, Ended(x, ok), issued' = issued,
           save'[x] = Resting, save' \in [Savers -> SaveStates(issued)],
           \A y \in Savers \ {x} : /\ save'[y].pc = save[y].pc
                                   /\ save'[y].todo = save[y].todo
                                   /\ save'[y].snap = save[y].snap,
           disk' \in Files(issued), tmp' \in Files(issued)
    PROVE  /\ KeyTypes' /\ \A y \in Savers : Held(y)' \subseteq Held(y)
           /\ Active(keys)' \subseteq Active(keys)
           /\ Covered(Active(keys)') /\ \A y \in Savers : Covered(Held(y)')
  <1> USE DEF KeyInv
  <1>e. /\ keys' \in KeySets(issued) /\ keys'.has \subseteq keys.has /\ keys'.off = keys.off
        /\ op' \in [name : {"none", "generate", "revoke", "other"}, key : SUBSET issued]
        /\ acked' \subseteq issued
    BY EndedHolds
  <1>1. save'[x].todo = {} /\ save'[x].snap = NoKeys
    BY DEF Resting
  <1>2. KeyTypes'
    <2>1. \A y \in Savers : save'[y].pc = "idle" => save'[y].todo = {} /\ save'[y].snap = NoKeys
      BY <1>1 DEF KeyTypes
    <2> QED
      BY <1>e, <2>1 DEF KeyTypes
  <1>3. \A y \in Savers : Held(y)' \subseteq Held(y)
    <2>1. Held(x)' = {}
      BY <1>1 DEF Held, Active, NoKeys
    <2> QED
      BY <1>e, <2>1 DEF Held
  <1>4. Active(keys)' \subseteq Active(keys)
    BY <1>e DEF Active
  <1> QED
    BY <1>2, <1>3, <1>4, PlacesHold DEF Covered

\* A failed save: nothing new in a file, and no revocation is reported.
LEMMA FailedSaveKeeps ==
    ASSUME KeyInv, NEW x \in Savers, WriteFails(x) \/ RenameFails(x)
    PROVE  KeyInv'
  <1> USE DEF KeyInv
  <1>1. Ended(x, FALSE) /\ UNCHANGED <<issued, racy>>
    BY DEF WriteFails, RenameFails
  <1>2. /\ save'[x] = Resting /\ save' \in [Savers -> SaveStates(issued)]
        /\ \A y \in Savers \ {x} : /\ save'[y].pc = save[y].pc
                                   /\ save'[y].todo = save[y].todo
                                   /\ save'[y].snap = save[y].snap
    <2>r. Resting \in SaveStates(issued)
      BY DEF Resting, SaveStates, KeySets, NoKeys
    <2>1. CASE WriteFails(x)
      BY <2>r, <2>1 DEF WriteFails, KeyTypes
    <2>2. CASE RenameFails(x)
      <3>1. save' = Moved(x, "gone")
        BY <2>2 DEF RenameFails
      <3> QED
        BY <2>r, <3>1 DEF Moved, KeyTypes, SaveStates
    <2> QED
      BY <2>1, <2>2
  <1>g. \A f \in {File("garbled", NoKeys), NoFile} : f \in Files(issued) /\ Active(f.keys) = {}
    BY DEF File, NoFile, NoKeys, Files, KeySets, Active
  <1>3. /\ disk' = disk \/ (disk' \in Files(issued) /\ Active(disk'.keys) = {})
        /\ tmp' = tmp \/ (tmp' \in Files(issued) /\ Active(tmp'.keys) = {})
    BY <1>g DEF WriteFails, RenameFails
  <1>4. /\ KeyTypes' /\ \A y \in Savers : Held(y)' \subseteq Held(y)
        /\ Active(keys)' \subseteq Active(keys)
        /\ Covered(Active(keys)') /\ \A y \in Savers : Covered(Held(y)')
    BY <1>1, <1>2, <1>3, EndSave DEF KeyTypes
  <1>5. Flow
    <2>1. Covered(Active(disk.keys)') /\ Covered(Active(tmp.keys)')
      BY <1>3, PlacesHold DEF Covered
    <2> QED
      BY <1>4, <2>1 DEF Flow
  <1>6. /\ acked' = acked /\ (x # Holder => op' = op) /\ (x = Holder => op'.name = "none")
    BY <1>1, EndedHolds
  <1>7. QuotaInv' /\ AckedInv'
    BY <1>1, <1>5, <1>6, FlowQuota, FlowAcked
  <1>8. PendingRevoke'
    <2> SUFFICES ASSUME x # Holder, op.name = "revoke", NEW k \in op.key \ racy
                 PROVE  /\ k \notin Active(keys)'
                        /\ \A y \in Savers : k \notin Held(y)'
                        /\ save'[Holder].pc \in {"write", "rename"} => k \notin Active(tmp.keys)'
      BY <1>1, <1>6 DEF PendingRevoke
    <2>1. /\ k \notin Active(keys) /\ \A y \in Savers : k \notin Held(y)
          /\ save[Holder].pc \in {"write", "rename"} => k \notin Active(tmp.keys)
      BY DEF PendingRevoke
    <2>2. save'[Holder].pc = save[Holder].pc
      BY <1>2 DEF Savers
    <2> QED
      BY <1>3, <1>4, <2>1, <2>2
  <1> QED
    BY <1>4, <1>7, <1>8

\* The rename: with it Holder's revocation reaches the last place, and is reported.
LEMMA RenameKeeps == ASSUME KeyInv, NEW x \in Savers, KeysRename(x) PROVE KeyInv'
  <1> USE DEF KeyInv
  <1>1. /\ Ended(x, TRUE) /\ UNCHANGED <<issued, racy>> /\ disk' = tmp /\ tmp' = NoFile
        /\ save[x].pc = "rename"
    BY DEF KeysRename
  <1>2. /\ save'[x] = Resting /\ save' \in [Savers -> SaveStates(issued)]
        /\ \A y \in Savers \ {x} : /\ save'[y].pc = save[y].pc
                                   /\ save'[y].todo = save[y].todo
                                   /\ save'[y].snap = save[y].snap
    <2>r. Resting \in SaveStates(issued)
      BY DEF Resting, SaveStates, KeySets, NoKeys
    <2>1. save' = Moved(x, "disk")
      BY DEF KeysRename
    <2> QED
      BY <2>r, <2>1 DEF Moved, KeyTypes, SaveStates
  <1>3. NoFile \in Files(issued) /\ Active(NoFile.keys) = {}
    BY DEF File, NoFile, NoKeys, Files, KeySets, Active
  <1>4. /\ KeyTypes' /\ \A y \in Savers : Held(y)' \subseteq Held(y)
        /\ Active(keys)' \subseteq Active(keys)
        /\ Covered(Active(keys)') /\ \A y \in Savers : Covered(Held(y)')
    BY <1>1, <1>2, <1>3, EndSave DEF KeyTypes
  <1>d. Active(disk.keys)' = Active(tmp.keys) /\ Active(tmp.keys)' = {}
    BY <1>1, <1>3
  <1>5. Flow
    BY <1>4, <1>d, PlacesHold DEF Flow, Covered
  <1>6. /\ acked' = acked \/ (x = Holder /\ op.name = "revoke" /\ acked' = acked \cup op.key)
        /\ (x # Holder => op' = op) /\ (x = Holder => op'.name = "none")
    BY <1>1, EndedHolds
  <1>7. QuotaInv'
    BY <1>5, FlowQuota
  <1>8. AckedInv'
    <2>1. CASE acked' = acked
      BY <1>1, <1>5, <2>1, FlowAcked
    <2>2. CASE x = Holder /\ op.name = "revoke" /\ acked' = acked \cup op.key
      <3> SUFFICES ASSUME NEW k \in acked' \ racy, NEW S \in Places' PROVE k \notin S
        BY <1>1, Zenon DEF AckedInv
      <3>1. CASE k \in acked
        <4>1. Covered(S)
          BY <1>5, FlowPlaces
        <4> QED
          BY <3>1, <4>1 DEF Covered, AckedInv
      <3>2. CASE k \in op.key
        <4>1. /\ k \notin Active(keys) /\ \A y \in Savers : k \notin Held(y)
              /\ k \notin Active(tmp.keys)
          BY <1>1, <2>2, <3>2 DEF PendingRevoke
        <4>2. /\ k \notin Active(keys)' /\ \A y \in Savers : k \notin Held(y)'
              /\ k \notin Active(disk.keys)' /\ k \notin Active(tmp.keys)'
          BY <4>1, <1>4, <1>d
        <4> QED
          BY <4>2, Zenon DEF Places
      <3> QED
        BY <2>2, <3>1, <3>2
    <2> QED
      BY <1>6, <2>1, <2>2
  <1>9. PendingRevoke'
    <2> SUFFICES ASSUME x # Holder, op.name = "revoke", NEW k \in op.key \ racy
                 PROVE  k \notin Active(keys)' /\ \A y \in Savers : k \notin Held(y)'
      BY <1>1, <1>6, <1>d DEF PendingRevoke
    <2>1. k \notin Active(keys) /\ \A y \in Savers : k \notin Held(y)
      BY DEF PendingRevoke
    <2> QED
      BY <1>4, <2>1
  <1> QED
    BY <1>4, <1>7, <1>8, <1>9

\* A restart: the map is what was in the file.
LEMMA RestartKeeps == ASSUME KeyInv, Restart PROVE KeyInv'
  <1> USE DEF KeyInv
  <1>1. /\ keys' = disk.keys /\ save' = [x \in Savers |-> Resting] /\ op' = NoOp
        /\ UNCHANGED <<issued, disk, tmp, acked, racy>>
    BY DEF Restart
  <1>2. KeyTypes'
    <2>1. Resting \in SaveStates(issued) /\ Resting.todo = {} /\ Resting.snap = NoKeys
      BY DEF Resting, SaveStates, KeySets, NoKeys
    <2>2. NoOp \in [name : {"none", "generate", "revoke", "other"}, key : SUBSET issued]
      BY DEF NoOp
    <2>3. disk.keys \in KeySets(issued)
      BY DEF KeyTypes, Files
    <2> QED
      BY <1>1, <2>1, <2>2, <2>3 DEF KeyTypes
  <1>3. Flow
    <2>1. \A x \in Savers : Held(x)' = {}
      BY <1>1 DEF Held, Active, Resting, NoKeys
    <2>2. /\ Active(keys)' = Active(disk.keys) /\ Active(disk.keys)' = Active(disk.keys)
          /\ Active(tmp.keys)' = Active(tmp.keys)
      BY <1>1 DEF Active
    <2> QED
      BY <2>1, <2>2, PlacesHold DEF Flow, Covered
  <1>4. QuotaInv' /\ AckedInv'
    BY <1>1, <1>3, FlowQuota, FlowAcked
  <1>5. PendingRevoke'
    BY <1>1 DEF PendingRevoke, NoOp
  <1> QED
    BY <1>2, <1>4, <1>5

\* KeyInv is an invariant of the key manager and its file.
THEOREM KeysInvariance == KeysSpec => []KeyInv
  <1>1. KeyInv /\ [KeysNext]_keyVars => KeyInv'
    <2> SUFFICES ASSUME KeyInv, [KeysNext]_keyVars PROVE KeyInv'
      OBVIOUS
    <2>1. CASE KeysNext
      BY <2>1, GenerateKeeps, RevokeKeeps, HolderKeeps, UsageKeeps, EncodeKeeps, OpenKeeps,
         WriteFileKeeps, FailedSaveKeeps, RenameKeeps, RestartKeeps
      DEF KeysNext
    <2>2. CASE UNCHANGED keyVars
      BY <2>2 DEF keyVars, KeyInv, KeyTypes, QuotaInv, AckedInv, PendingRevoke, Places, Held, Active
    <2> QED
      BY <2>1, <2>2
  <1> QED
    BY <1>1, KeysStart, PTL DEF KeysSpec

\* A user never has more active keys than MaxKeysPerUser, whatever the racing savers leave in the
\* file and whenever the process restarts from it.
THEOREM KeysQuota == KeysSpec => []KeyQuotaHeld
  <1>1. KeyInv => KeyQuotaHeld
    BY PlacesHold DEF KeyInv, QuotaInv, Quota, KeyQuotaHeld
  <1> QED
    BY <1>1, KeysInvariance, PTL

\* A key whose revocation was reported never works again, unless a usage goroutine was saving
\* when it was revoked.
THEOREM KeysRevoked == KeysSpec => []RevocationSticks
  <1>1. KeyInv => RevocationSticks
    BY PlacesHold DEF KeyInv, AckedInv, RevocationSticks
  <1> QED
    BY <1>1, KeysInvariance, PTL

----------------------------------------------------------------------------
(* AuditLog: Close *)

\* The worker ends only after the context is cancelled and it has found the buffer empty.
DrainInv ==
    /\ worker # "running" => closing # "open"
    /\ worker = "done" => buffer \subseteq late
    /\ closing = "closed" => worker = "done"

\* The steps of rotation, cleanup and clock touch none of it.
LEMMA DrainUnchanged ==
    ASSUME DrainInv, UNCHANGED <<buffer, late, worker, closing>>
    PROVE  DrainInv'
  BY DEF DrainInv

\* DrainInv is an invariant of the audit log.
THEOREM DrainInvariance == AuditSpec => []DrainInv
  <1>1. AuditInit => DrainInv
    BY DEF AuditInit, DrainInv
  <1>2. DrainInv /\ [AuditNext]_auditVars => DrainInv'
    <2> SUFFICES ASSUME DrainInv, [AuditNext]_auditVars PROVE DrainInv'
      OBVIOUS
    <2> USE DEF eventVars, closeVars
    <2>1. ASSUME NEW e \in AuditEvents, writeEvent(e) PROVE DrainInv'
      BY <2>1 DEF writeEvent, DrainInv
    <2>2. ASSUME NEW e \in AuditEvents, writeEventToFile(e) \/ WriteFailed(e) PROVE DrainInv'
      BY <2>2 DEF writeEventToFile, WriteFailed, DrainInv
    <2>3. ASSUME NEW g \in Sweepers,
                 \/ rotateLogFile(g) \/ ListFiles(g) \/ Maintain(g)
                 \/ \E t \in 1..MaxSeconds : RemoveFile(g, t)
          PROVE  DrainInv'
      BY <2>3, DrainUnchanged DEF rotateLogFile, ListFiles, Maintain, RemoveFile
    <2>4. CASE RotationFails \/ Second \/ Expire \/ UNCHANGED auditVars
      BY <2>4, DrainUnchanged DEF RotationFails, Second, Expire, auditVars
    <2>5. CASE Cancel \/ StopRunning \/ Drained \/ CloseFile
      BY <2>5 DEF Cancel, StopRunning, Drained, CloseFile, DrainInv
    <2> QED
      BY <2>1, <2>2, <2>3, <2>4, <2>5 DEF AuditNext
  <1> QED
    BY <1>1, <1>2, PTL DEF AuditSpec

\* After Close only events that were logged while it closed are left in the buffer.
THEOREM AuditDrains == AuditSpec => []CloseDrains
  <1>1. DrainInv => CloseDrains
    BY DEF DrainInv, CloseDrains
  <1> QED
    BY <1>1, DrainInvariance, PTL

----------------------------------------------------------------------------
(* AuditLog: what is kept *)

ClockInv ==
    /\ second \in Nat \ {0} /\ expired \in Nat
    /\ rotated \subseteq 1..second /\ DOMAIN archive \subseteq rotated

\* An event is in one place: not logged yet, in the buffer, or written.
PlaceInv ==
    /\ log \subseteq DOMAIN wrote
    /\ unlogged \cap buffer = {} /\ unlogged \cap DOMAIN wrote = {} /\ buffer \cap DOMAIN wrote = {}

\* The file of second t may be removed.
MayGo(t) == t \in 1..expired \/ Cardinality({x \in rotated : x > t}) >= MaxFiles

\* A list of files to remove stays a list of files that may be removed.
SweepInv ==
    /\ sweep \in [Sweepers -> SUBSET Nat]
    /\ \A g \in Sweepers : \A t \in sweep[g] \ {0} : MayGo(t)

KeptInv ==
    \A e \in DOMAIN wrote \ log :
       /\ wrote[e] \in rotated
       /\ \/ wrote[e] \in DOMAIN archive /\ e \in archive[wrote[e]]
          \/ wrote[e] \in clash
          \/ MayGo(wrote[e])

AuditInv == ClockInv /\ PlaceInv /\ SweepInv /\ KeptInv

\* More rotations and a later expiry never take back that a file may be removed.
LEMMA MayGoStays ==
    ASSUME ClockInv, NEW t \in Nat, MayGo(t),
           rotated \subseteq rotated', rotated' \subseteq 1..second,
           expired' \in Nat, expired' >= expired
    PROVE  MayGo(t)'
  <1> DEFINE A == {x \in rotated : x > t}
             B == {x \in rotated' : x > t}
  <1>1. IsFiniteSet(rotated')
    <2>1. IsFiniteSet(1..second)
      BY FS_Interval DEF ClockInv
    <2> QED
      BY <2>1, FS_Subset
  <1>2. IsFiniteSet(B)
    BY <1>1, FS_Subset
  <1>3. IsFiniteSet(A) /\ Cardinality(A) <= Cardinality(B)
    BY <1>2, FS_Subset
  <1>4. Cardinality(A) \in Nat /\ Cardinality(B) \in Nat
    BY <1>2, <1>3, FS_CardinalityType
  <1>5. CASE t \in 1..expired
    BY <1>5 DEF MayGo, ClockInv
  <1>6. CASE Cardinality(A) >= MaxFiles
    <2>1. Cardinality(B) >= MaxFiles
      BY <1>3, <1>4, <1>6, AuditAssumption
    <2> QED
      BY <2>1 DEF MayGo
  <1> QED
    BY <1>5, <1>6 DEF MayGo

\* A rotated file is named by a second.
LEMMA RotatedNat == ASSUME ClockInv PROVE \A t \in rotated : t \in Nat
  <1>1. \A t \in 1..second : t \in Nat
    BY DEF ClockInv
  <1> QED
    BY <1>1 DEF ClockInv

LEMMA AuditStart == AuditInit => AuditInv
  <1> SUFFICES ASSUME AuditInit PROVE AuditInv
    OBVIOUS
  <1>1. ClockInv /\ PlaceInv
    BY DEF AuditInit, ClockInv, PlaceInv
  <1>2. SweepInv /\ KeptInv
    BY DEF AuditInit, SweepInv, KeptInv
  <1> QED
    BY <1>1, <1>2 DEF AuditInv

\* writeEvent and the failing write: nothing that is written is concerned.
LEMMA EventKeeps ==
    ASSUME AuditInv, NEW e \in AuditEvents, writeEvent(e) \/ WriteFailed(e)
    PROVE  AuditInv'
  <1> USE DEF AuditInv
  <1>1. UNCHANGED <<log, second, expired, archive, sweep, rotated, clash, wrote>>
    BY DEF writeEvent, WriteFailed, logVars, clockVars, archiveVars, historyVars
  <1>2. PlaceInv'
    BY <1>1 DEF writeEvent, WriteFailed, PlaceInv, eventVars
  <1>3. ClockInv' /\ SweepInv' /\ KeptInv'
    BY <1>1 DEF ClockInv, SweepInv, KeptInv, MayGo
  <1> QED
    BY <1>2, <1>3

LEMMA WriteKeeps ==
    ASSUME AuditInv, NEW e \in AuditEvents, writeEventToFile(e)
    PROVE  AuditInv'
  <1> USE DEF AuditInv
  <1>1. /\ UNCHANGED <<unlogged, second, expired, archive, sweep, rotated, clash>>
        /\ e \in buffer /\ buffer' = buffer \ {e} /\ log' = log \union {e}
        /\ wrote' = [x \in DOMAIN wrote \union {e} |-> IF x = e THEN 0 ELSE wrote[x]]
    BY DEF writeEventToFile, clockVars, archiveVars
  <1>2. PlaceInv'
    BY <1>1 DEF PlaceInv
  <1>3. ClockInv' /\ SweepInv'
    BY <1>1 DEF ClockInv, SweepInv, MayGo
  <1>4. KeptInv'
    BY <1>1 DEF KeptInv, MayGo
  <1> QED
    BY <1>2, <1>3, <1>4

\* A rotation: the log becomes the file of this second, whatever was there before.
LEMMA RotateKeeps == ASSUME AuditInv, NEW g \in Sweepers, rotateLogFile(g) PROVE AuditInv'
  <1> USE DEF AuditInv
  <1>1. /\ UNCHANGED <<unlogged, buffer, second, expired>>
        /\ archive' = Archived(second) /\ log' = {}
        /\ rotated' = rotated \union {second}
        /\ clash' = IF second \in rotated THEN clash \union {second} ELSE clash
        /\ wrote' = [e \in DOMAIN wrote |-> IF e \in log THEN second ELSE wrote[e]]
    BY DEF rotateLogFile, eventVars, clockVars
  <1>2. /\ DOMAIN archive' = DOMAIN archive \union {second} /\ archive'[second] = log
        /\ \A x \in DOMAIN archive \ {second} : archive'[x] = archive[x]
    BY <1>1 DEF Archived
  <1>3. ClockInv'
    BY <1>1, <1>2 DEF ClockInv
  <1>4. PlaceInv'
    BY <1>1 DEF PlaceInv
  <1>5. \A t \in Nat : MayGo(t) => MayGo(t)'
    BY <1>1, <1>3, MayGoStays DEF ClockInv
  <1>6. SweepInv'
    <2>1. \A h \in Sweepers : sweep'[h] = sweep[h] \/ sweep'[h] = {0}
      BY DEF rotateLogFile, SweepInv
    <2>2. sweep' \in [Sweepers -> SUBSET Nat]
      BY DEF rotateLogFile, SweepInv
    <2> QED
      BY <1>5, <2>1, <2>2 DEF SweepInv
  <1>7. KeptInv'
    <2> SUFFICES ASSUME NEW e \in DOMAIN wrote
                 PROVE  /\ wrote'[e] \in rotated'
                        /\ \/ wrote'[e] \in DOMAIN archive' /\ e \in archive'[wrote'[e]]
                           \/ wrote'[e] \in clash'
                           \/ MayGo(wrote[e])'
      BY <1>1 DEF KeptInv, MayGo
    <2>1. CASE e \in log
      BY <2>1, <1>1, <1>2
    <2>2. CASE e \notin log
      <3>1. wrote'[e] = wrote[e] /\ wrote[e] \in rotated /\ wrote[e] \in Nat
        BY <2>2, <1>1, RotatedNat DEF KeptInv
      <3>2. CASE wrote[e] = second
        BY <3>1, <3>2, <1>1
      <3>3. CASE wrote[e] # second
        BY <2>2, <3>1, <3>3, <1>1, <1>2, <1>5 DEF KeptInv
      <3> QED
        BY <3>2, <3>3
    <2> QED
      BY <2>1, <2>2
  <1> QED
    BY <1>3, <1>4, <1>6, <1>7

\* The lists of files to remove, and the removal.
LEMMA CleanupKeeps ==
    ASSUME AuditInv, NEW g \in Sweepers,
           ListFiles(g) \/ Maintain(g) \/ \E t \in 1..MaxSeconds : RemoveFile(g, t)
    PROVE  AuditInv'
  <1> USE DEF AuditInv
  <1>1. UNCHANGED <<unlogged, buffer, log, second, expired, rotated, clash, wrote>>
    BY DEF ListFiles, Maintain, RemoveFile, eventVars, logVars, clockVars, historyVars
  <1>2. PlaceInv'
    BY <1>1 DEF PlaceInv
  <1>3. \A t : MayGo(t)' <=> MayGo(t)
    BY <1>1 DEF MayGo
  <1>4. CASE ListFiles(g)
    <2>1. UNCHANGED archive /\ sweep' = [sweep EXCEPT ![g] = Oldest(MaxFiles) \union PastRetention]
      BY <1>4 DEF ListFiles
    <2>2. \A t \in Oldest(MaxFiles) \union PastRetention : t \in Nat /\ MayGo(t)
      <3>1. \A t \in PastRetention : t \in Nat /\ MayGo(t)
        <4>1. \A t \in PastRetention : t \in Nat /\ t \in 1..expired
          <5>1. \A t \in DOMAIN archive : t \in 1..second
            BY DEF ClockInv
          <5> QED
            BY <5>1 DEF PastRetention, ClockInv
        <4> QED
          BY <4>1 DEF MayGo
      <3>2. ASSUME NEW t \in Oldest(MaxFiles) PROVE t \in Nat /\ MayGo(t)
        <4> DEFINE A == {x \in DOMAIN archive : x > t}
                   B == {x \in rotated : x > t}
        <4>0. t \in Nat /\ Cardinality(A) >= MaxFiles
          <5>1. t \in DOMAIN archive /\ Cardinality(A) >= MaxFiles
            BY <3>2 DEF Oldest
          <5>2. t \in 1..second
            BY <5>1 DEF ClockInv
          <5> QED
            BY <5>1, <5>2
        <4>1. IsFiniteSet(1..second)
          BY FS_Interval DEF ClockInv
        <4>2. IsFiniteSet(B)
          BY <4>1, FS_Subset DEF ClockInv
        <4>3. A \subseteq B
          BY DEF ClockInv
        <4> HIDE DEF A, B
        <4>4. IsFiniteSet(A) /\ Cardinality(A) <= Cardinality(B)
          BY <4>2, <4>3, FS_Subset
        <4>5. Cardinality(A) \in Nat /\ Cardinality(B) \in Nat
          BY <4>2, <4>4, FS_CardinalityType
        <4>6. Cardinality(B) >= MaxFiles
          BY <4>0, <4>4, <4>5, AuditAssumption
        <4> QED
          BY <4>0, <4>6 DEF B, MayGo
      <3> QED
        BY <3>1, <3>2
    <2>3. SweepInv'
      BY <1>3, <2>1, <2>2 DEF SweepInv
    <2>4. ClockInv' /\ KeptInv'
      BY <1>1, <1>3, <2>1 DEF ClockInv, KeptInv
    <2> QED
      BY <1>2, <2>3, <2>4
  <1>5. CASE Maintain(g)
    <2>1. UNCHANGED archive /\ sweep' = [sweep EXCEPT ![g] = {0}]
      BY <1>5 DEF Maintain
    <2>2. SweepInv'
      BY <1>3, <2>1 DEF SweepInv
    <2>3. ClockInv' /\ KeptInv'
      BY <1>1, <1>3, <2>1 DEF ClockInv, KeptInv
    <2> QED
      BY <1>2, <2>2, <2>3
  <1>6. ASSUME NEW t \in 1..MaxSeconds, RemoveFile(g, t) PROVE AuditInv'
    <2>1. /\ t \in sweep[g] \ {0} /\ sweep' = [sweep EXCEPT ![g] = @ \ {t}]
          /\ archive' = [x \in DOMAIN archive \ {t} |-> archive[x]]
      BY <1>6 DEF RemoveFile
    <2>2. MayGo(t)
      BY <2>1 DEF SweepInv
    <2>3. SweepInv'
      <3>1. sweep' \in [Sweepers -> SUBSET Nat]
        BY <2>1 DEF SweepInv
      <3>2. \A h \in Sweepers : sweep'[h] \subseteq sweep[h]
        BY <2>1 DEF SweepInv
      <3> QED
        BY <1>3, <3>1, <3>2 DEF SweepInv
    <2>4. ClockInv'
      BY <1>1, <2>1 DEF ClockInv
    <2>5. KeptInv'
      <3> SUFFICES ASSUME NEW e \in DOMAIN wrote \ log
                   PROVE  /\ wrote[e] \in rotated
                          /\ \/ wrote[e] \in DOMAIN archive' /\ e \in archive'[wrote[e]]
                             \/ wrote[e] \in clash
                             \/ MayGo(wrote[e])
        BY <1>1, <1>3 DEF KeptInv
      <3>1. CASE wrote[e] = t
        BY <3>1, <2>2 DEF KeptInv
      <3>2. CASE wrote[e] # t
        BY <3>2, <2>1 DEF KeptInv
      <3> QED
        BY <3>1, <3>2
    <2> QED
      BY <1>2, <2>3, <2>4, <2>5
  <1> QED
    BY <1>4, <1>5, <1>6

\* Time passes.
LEMMA ClockKeeps == ASSUME AuditInv, Second \/ Expire PROVE AuditInv'
  <1> USE DEF AuditInv
  <1>1. UNCHANGED <<unlogged, buffer, log, archive, sweep, rotated, clash, wrote>>
    BY DEF Second, Expire, eventVars, logVars, archiveVars, historyVars
  <1>2. PlaceInv'
    BY <1>1 DEF PlaceInv
  <1>3. ClockInv' /\ expired' \in Nat /\ expired' >= expired
    BY <1>1 DEF Second, Expire, ClockInv
  <1>4. \A t \in Nat : MayGo(t) => MayGo(t)'
    BY <1>1, <1>3, MayGoStays DEF ClockInv
  <1>5. SweepInv'
    BY <1>1, <1>4 DEF SweepInv
  <1>6. KeptInv'
    <2>1. \A e \in DOMAIN wrote \ log : wrote[e] \in Nat
      BY RotatedNat DEF KeptInv
    <2> QED
      BY <1>1, <1>4, <2>1 DEF KeptInv
  <1> QED
    BY <1>2, <1>3, <1>5, <1>6

\* The steps of Close, a failing rotation and a step of something else.
LEMMA RestKeeps ==
    ASSUME AuditInv,
           RotationFails \/ Cancel \/ StopRunning \/ Drained \/ CloseFile \/ UNCHANGED auditVars
    PROVE  AuditInv'
  <1>1. UNCHANGED <<unlogged, buffer, log, second, expired, archive, sweep, rotated, clash, wrote>>
    BY DEF RotationFails, Cancel, StopRunning, Drained, CloseFile, auditVars,
           eventVars, logVars, clockVars, archiveVars, historyVars
  <1> QED
    BY <1>1 DEF AuditInv, ClockInv, PlaceInv, SweepInv, KeptInv, MayGo

\* AuditInv is an invariant of the audit log.
THEOREM AuditInvariance == AuditSpec => []AuditInv
  <1>1. AuditInv /\ [AuditNext]_auditVars => AuditInv'
    BY EventKeeps, WriteKeeps, RotateKeeps, CleanupKeeps, ClockKeeps, RestKeeps DEF AuditNext
  <1> QED
    BY <1>1, AuditStart, PTL DEF AuditSpec

\* What has been written is kept until MaxFiles newer files were rotated or it expires, whatever
\* lists the cleanups delete from, except where two rotations fell into one second.
THEOREM AuditKeeps == AuditSpec => []AuditEventKept
  <1>1. AuditInv => AuditEventKept
    BY DEF AuditInv, KeptInv, MayGo, AuditEventKept
  <1> QED
    BY <1>1, AuditInvariance, PTL

=============================================================================
