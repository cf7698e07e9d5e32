-------------------------- MODULE OperationsProofs --------------------------
(***************************************************************************)
(* Proofs about MavenBackup, MavenSync and AlertManager, for any number of *)
(* files, copying workers, senders and channels and all limits.            *)
(***************************************************************************)
EXTENDS MavenBackup, MavenSync, AlertManager,
        FiniteSetTheorems, SequenceTheorems, WellFoundedInduction, TLAPS

----------------------------------------------------------------------------
(* MavenBackup *)

Dirs == {"source", "backup", "elsewhere"}

BackupJobs ==
    [pc : {"idle", "run", "save"}, checks : BOOLEAN, scan : SUBSET Artifacts, todo : SUBSET Artifacts,
     failed : BOOLEAN, sums : [Artifacts -> Nat], time : Nat, skipped : SUBSET Artifacts]

BackupTypes ==
    /\ tree \in [Dirs -> [Artifacts -> Nat]] /\ edits \in 0..MaxVersions /\ good \in Nat
    /\ metadata \in [state : {"none", "cut", "whole"}, sums : [Artifacts -> Nat], time : Nat]
    /\ job \in BackupJobs
    /\ copying \in [Copiers -> SUBSET Artifacts]
    /\ restore \in [pc : {"never", "walk", "over"}, todo : SUBSET Artifacts, sums : [Artifacts -> Nat]]

\* An artifact is to be looked at, to be copied, or being copied by one worker, and only while
\* PerformBackup runs; the copy is cut while a worker is at it.
JobsInv ==
    /\ job.scan \cap job.todo = {} /\ \A a \in job.scan : job.sums[a] = Absent
    /\ \A w \in Copiers : \A a \in copying[w] :
          /\ a \notin job.scan /\ a \notin job.todo /\ copying[w] = {a}
          /\ tree["backup"][a] = Cut
          /\ \A x \in Copiers : a \in copying[x] => x = w
    /\ job.pc # "run" => job.scan = {} /\ job.todo = {} /\ \A w \in Copiers : copying[w] = {}
    /\ job.pc = "save" => ~job.failed

\* No version is later than the latest edit, and the metadata has the time of the last good backup.
VersionsInv ==
    /\ good = metadata.time /\ good <= edits /\ job.time <= edits
    /\ \A a \in Artifacts : tree["source"][a] <= edits /\ metadata.sums[a] <= edits /\ job.sums[a] <= edits

\* A checksum in the metadata that is still that of the source is that of the copy.
SumsInv ==
    \A a \in Artifacts \ spoiled :
       metadata.sums[a] # Absent /\ tree["source"][a] = metadata.sums[a]
       => tree["backup"][a] = tree["source"][a]

\* What the backup that is running will have passed over when it succeeds.
PassedOver == IF job.checks THEN job.skipped ELSE passed \cup job.skipped

\* What the running backup is through with is up to date as of its checksums, and, if it was not
\* passed over, as of its start.
ThroughInv ==
    (job.pc # "idle" /\ ~job.failed) =>
       \A a \in Artifacts \ spoiled :
          LET v == tree["source"][a] IN
          (/\ a \notin job.scan /\ a \notin job.todo /\ \A w \in Copiers : a \notin copying[w]
           /\ (v \in 1..job.time /\ a \notin PassedOver) \/ (v # Absent /\ v = job.sums[a]))
          => tree["backup"][a] = v

CopiesInv == \A a \in Artifacts \ (spoiled \cup passed) : UpToDate(a)

BackupInv ==
    /\ BackupTypes
    /\ restore.pc = "never" => JobsInv /\ VersionsInv /\ SumsInv /\ ThroughInv /\ CopiesInv

LEMMA NoSumsType == NoSums \in [Artifacts -> Nat] /\ \A a \in Artifacts : NoSums[a] = 0
  BY DEF NoSums, Absent

LEMMA CutNat == Cut \in Nat /\ \A v \in 0..MaxVersions : v # Cut
  BY BackupAssumption DEF Cut

LEMMA NoJobType ==
    /\ NoJob \in BackupJobs
    /\ NoJob.pc = "idle" /\ NoJob.scan = {} /\ NoJob.todo = {} /\ NoJob.time = 0
    /\ \A a \in Artifacts : NoJob.sums[a] = 0
  BY NoSumsType DEF NoJob, BackupJobs

LEMMA RestoreType ==
    /\ NoRestore \in [pc : {"never", "walk", "over"}, todo : SUBSET Artifacts, sums : [Artifacts -> Nat]]
    /\ RestoreOver \in [pc : {"never", "walk", "over"}, todo : SUBSET Artifacts, sums : [Artifacts -> Nat]]
    /\ RestoreOver.pc = "over"
  BY NoSumsType DEF NoRestore, RestoreOver

LEMMA BackupStart == BackupInit => BackupInv
  <1> SUFFICES ASSUME BackupInit PROVE BackupInv
    OBVIOUS
  <1>1. BackupTypes
    BY NoSumsType, NoJobType, RestoreType, BackupAssumption DEF BackupInit, BackupTypes, Dirs
  <1>2. \A a \in Artifacts : tree["source"][a] = 0 /\ tree["backup"][a] = 0
    BY NoSumsType DEF BackupInit
  <1>3. JobsInv /\ VersionsInv
    BY <1>2, NoSumsType, NoJobType DEF BackupInit, JobsInv, VersionsInv
  <1>4. SumsInv /\ ThroughInv /\ CopiesInv
    BY <1>2, NoJobType DEF BackupInit, SumsInv, ThroughInv, CopiesInv, UpToDate
  <1> QED
    BY <1>1, <1>3, <1>4 DEF BackupInv

\* Writing one file of one directory.
LEMMA TreeWrite ==
    ASSUME BackupTypes, NEW d \in Dirs, NEW a \in Artifacts, NEW v \in Nat,
           tree' = [tree EXCEPT ![d][a] = v]
    PROVE  /\ tree' \in [Dirs -> [Artifacts -> Nat]]
           /\ tree'[d][a] = v /\ \A b \in Artifacts \ {a} : tree'[d][b] = tree[d][b]
           /\ \A e \in Dirs \ {d} : tree'[e] = tree[e]
  BY DEF BackupTypes

\* An edit makes a version that is in no checksum and later than every backup so far.
LEMMA EditKeepsBackup == ASSUME BackupInv, NEW a \in Artifacts, Edit(a) PROVE BackupInv'
  <1>1. /\ edits < MaxVersions /\ edits' = edits + 1
        /\ tree' = [tree EXCEPT !["source"][a] = edits + 1]
        /\ UNCHANGED <<metadata, job, copying, restore, good, spoiled, passed>>
    BY DEF Edit, ghosts
  <1>t. BackupTypes
    BY DEF BackupInv
  <1>v. edits \in Nat /\ edits + 1 \in Nat /\ edits' \in 0..MaxVersions
    BY <1>1, <1>t, BackupAssumption DEF BackupTypes
  <1>2. /\ tree' \in [Dirs -> [Artifacts -> Nat]]
        /\ tree'["source"][a] = edits + 1
        /\ \A b \in Artifacts \ {a} : tree'["source"][b] = tree["source"][b]
        /\ tree'["backup"] = tree["backup"]
    BY <1>1, <1>t, <1>v, TreeWrite DEF Dirs
  <1>3. BackupTypes'
    BY <1>1, <1>2, <1>t, <1>v DEF BackupTypes
  <1>4. ASSUME restore.pc = "never"
        PROVE  JobsInv' /\ VersionsInv' /\ SumsInv' /\ ThroughInv' /\ CopiesInv'
    <2>0. JobsInv /\ VersionsInv /\ SumsInv /\ ThroughInv /\ CopiesInv
      BY <1>4 DEF BackupInv
    <2>a. metadata.sums \in [Artifacts -> Nat] /\ job.sums \in [Artifacts -> Nat] /\ job.time \in Nat
          /\ metadata.time \in Nat /\ good \in Nat /\ tree["source"] \in [Artifacts -> Nat]
      BY <1>t DEF BackupTypes, BackupJobs, Dirs
    <2>1. JobsInv'
      BY <1>1, <1>2, <2>0 DEF JobsInv, Cut
    <2>2. VersionsInv'
      BY <1>1, <1>2, <1>v, <2>0, <2>a DEF VersionsInv
    <2>3. edits + 1 \notin 1..good /\ edits + 1 \notin 1..job.time
          /\ edits + 1 # metadata.sums[a] /\ edits + 1 # job.sums[a]
      BY <1>v, <2>0, <2>a DEF VersionsInv
    <2>4. SumsInv'
      BY <1>1, <1>2, <2>0, <2>3 DEF SumsInv
    <2>5. ThroughInv'
      BY <1>1, <1>2, <2>0, <2>3 DEF ThroughInv, PassedOver
    <2>6. CopiesInv'
      BY <1>1, <1>2, <2>0, <2>3 DEF CopiesInv, UpToDate
    <2> QED
      BY <2>1, <2>2, <2>4, <2>5, <2>6
  <1> QED
    BY <1>1, <1>3, <1>4 DEF BackupInv

\* Looking at an artifact: it is to be copied, or passed over, or its copy is up to date.
LEMMA ScanKeeps ==
    ASSUME BackupInv, NEW a \in Artifacts, Scan(a) \/ ScanFails(a) \/ ScanSkips(a)
    PROVE  BackupInv'
  <1>t. BackupTypes
    BY DEF BackupInv
  <1>1. a \in job.scan /\ UNCHANGED <<tree, edits, metadata, copying, restore, good, spoiled, passed>>
    BY DEF Scan, ScanFails, ScanSkips, ghosts
  <1>2. /\ job'.pc = job.pc /\ job'.failed = job.failed /\ job'.time = job.time
        /\ job'.checks = job.checks
        /\ job'.scan = job.scan \ {a} /\ job'.sums \in [Artifacts -> Nat]
        /\ \A b \in Artifacts \ {a} : job'.sums[b] = job.sums[b]
        /\ job'.skipped \in {job.skipped, job.skipped \cup {a}}
        /\ job' \in BackupJobs
    <2>s. tree["source"] \in [Artifacts -> Nat]
      BY <1>t DEF BackupTypes, Dirs
    <2>1. CASE Scan(a)
      BY <1>t, <2>1, <2>s DEF Scan, BackupTypes, BackupJobs, Absent
    <2>2. CASE ScanFails(a)
      BY <1>t, <2>2 DEF ScanFails, BackupTypes, BackupJobs
    <2>3. CASE ScanSkips(a)
      BY <1>t, <2>3 DEF ScanSkips, BackupTypes, BackupJobs
    <2> QED
      BY <2>1, <2>2, <2>3
  <1>3. \/ job'.todo = job.todo \cup {a} /\ job'.sums[a] \in {job.sums[a], tree["source"][a], 0}
        \/ job'.todo = job.todo /\ ~Changed(a) /\ job'.sums[a] = (IF job.checks THEN tree["source"][a] ELSE Absent)
        \/ /\ job'.todo = job.todo /\ job'.sums[a] = job.sums[a]
           /\ a \in job'.skipped \/ tree["backup"][a] = tree["source"][a]
    <2>1. CASE Scan(a)
      BY <1>t, <2>1 DEF Scan, BackupTypes, BackupJobs, Absent
    <2>2. CASE ScanFails(a)
      BY <1>t, <2>2 DEF ScanFails, BackupTypes
    <2>3. CASE ScanSkips(a)
      BY <1>t, <2>3 DEF ScanSkips, BackupTypes
    <2> QED
      BY <2>1, <2>2, <2>3
  <1>4. BackupTypes'
    BY <1>1, <1>2, <1>t DEF BackupTypes
  <1>5. ASSUME restore.pc = "never"
        PROVE  JobsInv' /\ VersionsInv' /\ SumsInv' /\ ThroughInv' /\ CopiesInv'
    <2>0. JobsInv /\ VersionsInv /\ SumsInv /\ ThroughInv /\ CopiesInv
      BY <1>5 DEF BackupInv
    <2>s. job.scan \subseteq Artifacts /\ job.sums[a] = Absent
      BY <1>1, <1>t, <2>0 DEF BackupTypes, BackupJobs, JobsInv
    <2>1. JobsInv'
      <3>1. job'.todo \subseteq job.todo \cup {a}
        BY <1>3
      <3>2. \A b \in job'.scan : job'.sums[b] = Absent
        BY <1>2, <2>0, <2>s DEF JobsInv
      <3>3. /\ job'.scan \cap job'.todo = {}
            /\ \A w \in Copiers : \A b \in copying[w] : b \notin job'.scan /\ b \notin job'.todo
        BY <1>1, <1>2, <2>0, <3>1 DEF JobsInv
      <3>4. job.pc = "run"
        BY <1>1, <2>0 DEF JobsInv
      <3> QED
        BY <1>1, <1>2, <2>0, <3>2, <3>3, <3>4 DEF JobsInv, Cut, Absent
    <2>2. VersionsInv'
      <3>1. job'.sums[a] <= edits
        BY <1>3, <2>0, <1>t DEF VersionsInv, Absent, BackupTypes
      <3> QED
        BY <1>1, <1>2, <2>0, <3>1 DEF VersionsInv
    <2>3. SumsInv'
      BY <1>1, <2>0 DEF SumsInv
    <2>4. CopiesInv'
      BY <1>1, <2>0 DEF CopiesInv, UpToDate
    <2>5. ThroughInv'
      <3> DEFINE v == tree["source"][a]
      <3>p. PassedOver \subseteq PassedOver' /\ PassedOver' \subseteq PassedOver \cup {a}
            /\ job'.skipped \subseteq PassedOver' /\ (~job.checks => passed \subseteq PassedOver')
        BY <1>1, <1>2 DEF PassedOver
      <3>1. ~Changed(a) /\ a \notin spoiled /\ v # Absent
            => tree["backup"][a] = v \/ (~job.checks /\ a \in passed)
        <4> SUFFICES ASSUME ~Changed(a), a \notin spoiled, v # Absent, job.checks \/ a \notin passed
                     PROVE  tree["backup"][a] = v
          OBVIOUS
        <4>0. v \in Nat /\ v # 0 /\ metadata.time \in Nat
          BY <1>t DEF BackupTypes, Dirs, Absent
        <4>1. CASE job.checks
          <5>1. metadata.sums[a] = v
            BY <4>1 DEF Changed
          <5> QED
            BY <5>1, <2>0 DEF SumsInv
        <4>2. CASE ~job.checks
          <5>1. ~(v > metadata.time)
            BY <4>2 DEF Changed
          <5>2. v \in 1..good
            BY <4>0, <5>1, <2>0 DEF VersionsInv
          <5> QED
            BY <4>2, <5>2, <2>0 DEF CopiesInv, UpToDate
        <4> QED
          BY <4>1, <4>2
      <3>2. \/ a \in job'.todo \/ a \in spoiled \/ v = Absent \/ tree["backup"][a] = v
            \/ a \in PassedOver' /\ job'.sums[a] = Absent
        BY <1>3, <2>s, <3>1, <3>p
      <3>3. v = Absent => v \notin 1..job.time
        BY DEF Absent
      <3> SUFFICES ASSUME job.pc # "idle", ~job.failed, NEW b \in Artifacts \ spoiled,
                          b \notin job'.scan, b \notin job'.todo,
                          \A w \in Copiers : b \notin copying[w],
                          \/ tree["source"][b] \in 1..job.time /\ b \notin PassedOver'
                          \/ tree["source"][b] # Absent /\ tree["source"][b] = job'.sums[b]
                   PROVE  tree["backup"][b] = tree["source"][b]
        BY <1>1, <1>2 DEF ThroughInv, Absent
      <3>4. CASE b = a
        BY <3>2, <3>3, <3>4
      <3>5. CASE b # a
        <4>1. b \notin job.scan /\ b \notin job.todo /\ job'.sums[b] = job.sums[b]
          BY <1>2, <1>3, <3>5
        <4>2. b \notin PassedOver' => b \notin PassedOver
          BY <3>p
        <4> QED
          BY <4>1, <4>2, <2>0 DEF ThroughInv
      <3> QED
        BY <3>4, <3>5
    <2> QED
      BY <2>1, <2>2, <2>3, <2>4, <2>5
  <1> QED
    BY <1>1, <1>4, <1>5 DEF BackupInv

LEMMA OpenFailsKeeps == ASSUME BackupInv, NEW a \in Artifacts, OpenFails(a) PROVE BackupInv'
  <1>t. BackupTypes
    BY DEF BackupInv
  <1>1. /\ UNCHANGED <<tree, edits, metadata, copying, restore, good, spoiled, passed>>
        /\ a \in job.todo /\ job' = [job EXCEPT !.todo = @ \ {a}, !.failed = TRUE]
    BY DEF OpenFails, ghosts
  <1>2. /\ job'.pc = job.pc /\ job'.failed = TRUE /\ job'.time = job.time /\ job'.sums = job.sums
        /\ job'.scan = job.scan /\ job'.todo = job.todo \ {a}
        /\ job' \in BackupJobs
    BY <1>1, <1>t DEF BackupTypes, BackupJobs
  <1>3. BackupTypes'
    BY <1>1, <1>2, <1>t DEF BackupTypes
  <1>4. ASSUME restore.pc = "never"
        PROVE  JobsInv' /\ VersionsInv' /\ SumsInv' /\ ThroughInv' /\ CopiesInv'
    <2>0. JobsInv /\ VersionsInv /\ SumsInv /\ ThroughInv /\ CopiesInv
      BY <1>4 DEF BackupInv
    <2>1. job.pc = "run"
      BY <1>1, <1>t, <2>0 DEF JobsInv
    <2>2. JobsInv'
      BY <1>1, <1>2, <2>0, <2>1 DEF JobsInv, Cut
    <2> QED
      BY <1>1, <1>2, <2>0, <2>2 DEF VersionsInv, SumsInv, ThroughInv, CopiesInv, UpToDate
  <1> QED
    BY <1>1, <1>3, <1>4 DEF BackupInv

\* os.Create cuts the copy: it was not up to date, or is spoiled from now on.
LEMMA StartCopyKeeps ==
    ASSUME BackupInv, NEW w \in Copiers, NEW a \in Artifacts, StartCopy(w, a)
    PROVE  BackupInv'
  <1>t. BackupTypes
    BY DEF BackupInv
  <1>1. /\ a \in job.todo /\ copying[w] = {} /\ job' = [job EXCEPT !.todo = @ \ {a}]
        /\ copying' = [copying EXCEPT ![w] = {a}]
        /\ spoiled' = (IF tree["backup"][a] = tree["source"][a] THEN spoiled \cup {a} ELSE spoiled)
        /\ UNCHANGED <<edits, metadata, restore, good, passed>>
    BY DEF StartCopy
  <1>2. /\ tree' \in [Dirs -> [Artifacts -> Nat]] /\ tree'["source"] = tree["source"]
        /\ tree'["backup"][a] = Cut
        /\ \A b \in Artifacts \ {a} : tree'["backup"][b] = tree["backup"][b]
    <2>1. tree' = [tree EXCEPT !["backup"][a] = Cut]
      BY DEF StartCopy, Created, Destination
    <2> QED
      BY <2>1, <1>t, TreeWrite, CutNat DEF Dirs
  <1>3. /\ job'.pc = job.pc /\ job'.failed = job.failed /\ job'.time = job.time /\ job'.sums = job.sums
        /\ job'.scan = job.scan /\ job'.todo = job.todo \ {a}
        /\ job'.checks = job.checks /\ job'.skipped = job.skipped
        /\ job' \in BackupJobs
    BY <1>1, <1>t DEF BackupTypes, BackupJobs
  <1>4. /\ copying' \in [Copiers -> SUBSET Artifacts] /\ copying'[w] = {a}
        /\ \A x \in Copiers \ {w} : copying'[x] = copying[x]
    BY <1>1, <1>t DEF BackupTypes
  <1>5. BackupTypes'
    BY <1>1, <1>2, <1>3, <1>4, <1>t DEF BackupTypes
  <1>6. ASSUME restore.pc = "never"
        PROVE  JobsInv' /\ VersionsInv' /\ SumsInv' /\ ThroughInv' /\ CopiesInv'
    <2>0. JobsInv /\ VersionsInv /\ SumsInv /\ ThroughInv /\ CopiesInv
      BY <1>6 DEF BackupInv
    <2>r. job.pc = "run"
      BY <1>1, <2>0 DEF JobsInv
    <2>1. JobsInv'
      <3>1. a \notin job.scan /\ \A x \in Copiers : a \notin copying[x]
        BY <1>1, <2>0 DEF JobsInv
      <3>2. ASSUME NEW x \in Copiers, NEW b \in copying'[x]
            PROVE  /\ b \notin job'.scan /\ b \notin job'.todo /\ tree'["backup"][b] = Cut
                   /\ copying'[x] = {b}
                   /\ \A y \in Copiers : b \in copying'[y] => y = x
        <4>1. CASE x = w
          BY <1>2, <1>3, <1>4, <3>1, <4>1
        <4>2. CASE x # w
          <5>1. b \in copying[x] /\ b # a /\ b \in Artifacts
            BY <1>4, <3>1, <4>2
          <5> QED
            BY <1>2, <1>3, <1>4, <2>0, <4>2, <5>1 DEF JobsInv
        <4> QED
          BY <4>1, <4>2
      <3>3. Cut' = Cut
        BY DEF Cut
      <3> QED
        BY <1>3, <2>0, <2>r, <3>2, <3>3 DEF JobsInv
    <2>2. VersionsInv'
      BY <1>1, <1>2, <1>3, <2>0 DEF VersionsInv
    <2>3. \A b \in Artifacts \ spoiled' : b \notin spoiled /\ (b = a => tree["backup"][a] # tree["source"][a])
      BY <1>1
    <2>4. SumsInv'
      BY <1>1, <1>2, <2>0, <2>3 DEF SumsInv
    <2>5. CopiesInv'
      BY <1>1, <1>2, <2>0, <2>3 DEF CopiesInv, UpToDate
    <2>6. ThroughInv'
      <3> SUFFICES ASSUME job.pc # "idle", ~job.failed, NEW b \in Artifacts \ spoiled',
                          b \notin job.scan, b \notin job.todo \ {a},
                          \A x \in Copiers : b \notin copying'[x],
                          \/ tree["source"][b] \in 1..job.time /\ b \notin PassedOver
                          \/ tree["source"][b] # Absent /\ tree["source"][b] = job.sums[b]
                   PROVE  tree'["backup"][b] = tree["source"][b]
        BY <1>1, <1>2, <1>3 DEF ThroughInv, PassedOver, Absent
      <3>1. b # a
        BY <1>4
      <3>2. \A x \in Copiers : b \notin copying[x]
        BY <1>1, <1>4
      <3> QED
        BY <1>2, <2>0, <2>3, <3>1, <3>2 DEF ThroughInv
    <2> QED
      BY <2>1, <2>2, <2>4, <2>5, <2>6
  <1> QED
    BY <1>1, <1>5, <1>6 DEF BackupInv

\* A copy is filled, or removed because the copying failed.
LEMMA EndCopyKeeps ==
    ASSUME BackupInv, NEW w \in Copiers, NEW a \in Artifacts, FinishCopy(w, a) \/ AbortCopy(w, a)
    PROVE  BackupInv'
  <1>t. BackupTypes
    BY DEF BackupInv
  <1>1. /\ a \in copying[w] /\ copying' = [copying EXCEPT ![w] = {}]
        /\ UNCHANGED <<edits, metadata, restore, good>>
    BY DEF FinishCopy, AbortCopy, ghosts
  <1>s. tree["source"][a] \in Nat /\ tree["source"] \in [Artifacts -> Nat]
    BY <1>t DEF BackupTypes, Dirs
  <1>2. \/ /\ FinishCopy(w, a) /\ tree' = [tree EXCEPT !["backup"][a] = tree["source"][a]]
           /\ job' = job /\ spoiled' = spoiled \ {a} /\ passed' = passed \ {a}
        \/ /\ AbortCopy(w, a) /\ tree' = [tree EXCEPT !["backup"][a] = Absent]
           /\ job' = [job EXCEPT !.failed = TRUE] /\ spoiled' = spoiled /\ passed' = passed
    BY DEF FinishCopy, AbortCopy, Filled, Destination, ghosts
  <1>3. /\ tree' \in [Dirs -> [Artifacts -> Nat]] /\ tree'["source"] = tree["source"]
        /\ \A b \in Artifacts \ {a} : tree'["backup"][b] = tree["backup"][b]
        /\ FinishCopy(w, a) /\ spoiled' = spoiled \ {a} => tree'["backup"][a] = tree["source"][a]
    <2>1. CASE tree' = [tree EXCEPT !["backup"][a] = tree["source"][a]]
      BY <2>1, <1>t, <1>s, TreeWrite DEF Dirs
    <2>2. CASE /\ ~FinishCopy(w, a) \/ spoiled' # spoiled \ {a}
               /\ tree' = [tree EXCEPT !["backup"][a] = Absent]
      BY <2>2, <1>t, TreeWrite DEF Dirs, Absent
    <2>3. FinishCopy(w, a) => tree' = [tree EXCEPT !["backup"][a] = tree["source"][a]]
      BY DEF FinishCopy, Filled, Destination
    <2> QED
      BY <1>2, <2>1, <2>2, <2>3
  <1>4. /\ job'.pc = job.pc /\ job'.time = job.time /\ job'.sums = job.sums
        /\ job'.scan = job.scan /\ job'.todo = job.todo /\ (~job'.failed => ~job.failed /\ FinishCopy(w, a))
        /\ job'.checks = job.checks /\ job'.skipped = job.skipped
        /\ job' \in BackupJobs
    <2>1. CASE job' = job /\ FinishCopy(w, a)
      BY <2>1, <1>t DEF BackupTypes
    <2>2. CASE job' = [job EXCEPT !.failed = TRUE]
      BY <2>2, <1>t DEF BackupTypes, BackupJobs
    <2> QED
      BY <1>2, <2>1, <2>2
  <1>5. /\ copying' \in [Copiers -> SUBSET Artifacts] /\ copying'[w] = {}
        /\ \A x \in Copiers \ {w} : copying'[x] = copying[x]
    BY <1>1, <1>t DEF BackupTypes
  <1>6. BackupTypes'
    BY <1>1, <1>3, <1>4, <1>5, <1>t DEF BackupTypes
  <1>7. ASSUME restore.pc = "never"
        PROVE  JobsInv' /\ VersionsInv' /\ SumsInv' /\ ThroughInv' /\ CopiesInv'
    <2>0. JobsInv /\ VersionsInv /\ SumsInv /\ ThroughInv /\ CopiesInv
      BY <1>7 DEF BackupInv
    <2>r. job.pc = "run"
      BY <1>1, <2>0 DEF JobsInv
    <2>a. tree["backup"][a] = Cut /\ copying[w] = {a} /\ \A x \in Copiers : a \in copying[x] => x = w
      BY <1>1, <2>0 DEF JobsInv
    <2>n. tree["backup"][a] # tree["source"][a]
      <3>1. tree["source"][a] \in 0..MaxVersions
        <4>1. tree["source"][a] <= edits /\ edits \in 0..MaxVersions
          BY <1>t, <2>0 DEF VersionsInv, BackupTypes
        <4> QED
          BY <1>s, <4>1, BackupAssumption
      <3> QED
        BY <3>1, <2>a, CutNat
    <2>1. JobsInv'
      <3>1. ASSUME NEW x \in Copiers, NEW b \in copying'[x]
            PROVE  /\ b \notin job'.scan /\ b \notin job'.todo /\ tree'["backup"][b] = Cut
                   /\ copying'[x] = {b}
                   /\ \A y \in Copiers : b \in copying'[y] => y = x
        <4>1. x # w /\ b \in copying[x] /\ b # a /\ b \in Artifacts
          BY <1>5, <2>a
        <4> QED
          BY <1>3, <1>4, <1>5, <2>0, <4>1 DEF JobsInv
      <3>2. Cut' = Cut
        BY DEF Cut
      <3> QED
        BY <1>4, <2>0, <2>r, <3>1, <3>2 DEF JobsInv
    <2>2. VersionsInv'
      BY <1>1, <1>3, <1>4, <2>0 DEF VersionsInv
    <2>3. ASSUME NEW b \in Artifacts \ spoiled', b # a \/ spoiled' # spoiled \ {a} \/ ~FinishCopy(w, a)
          PROVE  b \notin spoiled
      BY <1>2, <2>3
    <2>4. \A b \in Artifacts \ spoiled' :
             \/ tree'["backup"][b] = tree["source"][b]
             \/ b \notin spoiled /\ (b \in passed => b \in passed')
                /\ (b # a => tree'["backup"][b] = tree["backup"][b])
                /\ (b = a => tree["backup"][a] # tree["source"][a])
      BY <1>2, <1>3, <2>3, <2>n
    <2>5. SumsInv'
      BY <1>1, <1>3, <2>0, <2>4 DEF SumsInv
    <2>6. CopiesInv'
      BY <1>1, <1>3, <2>0, <2>4 DEF CopiesInv, UpToDate
    <2>7. ThroughInv'
      <3> SUFFICES ASSUME job.pc # "idle", ~job.failed, FinishCopy(w, a), NEW b \in Artifacts \ spoiled',
                          b \notin job.scan, b \notin job.todo,
                          \A x \in Copiers : b \notin copying'[x],
                          \/ tree["source"][b] \in 1..job.time /\ b \notin PassedOver'
                          \/ tree["source"][b] # Absent /\ tree["source"][b] = job.sums[b]
                   PROVE  tree'["backup"][b] = tree["source"][b]
        BY <1>3, <1>4 DEF ThroughInv, Absent
      <3>1. CASE b = a
        <4>1. spoiled' = spoiled \ {a}
          BY DEF FinishCopy
        <4> QED
          BY <1>3, <3>1, <4>1
      <3>2. CASE b # a
        <4>1. b \notin spoiled /\ \A x \in Copiers : b \notin copying[x]
          <5>1. spoiled' = spoiled \ {a}
            BY DEF FinishCopy
          <5> QED
            BY <3>2, <5>1, <1>5, <2>a
        <4>2. b \notin PassedOver' => b \notin PassedOver
          BY <1>2, <1>4, <3>2 DEF PassedOver
        <4> QED
          BY <1>3, <2>0, <3>2, <4>1, <4>2 DEF ThroughInv
      <3> QED
        BY <3>1, <3>2
    <2> QED
      BY <2>1, <2>2, <2>5, <2>6, <2>7
  <1> QED
    BY <1>1, <1>6, <1>7 DEF BackupInv

LEMMA BeginKeeps == ASSUME BackupInv, NEW checks \in Checking, BeginBackup(checks) PROVE BackupInv'
  <1>t. BackupTypes
    BY DEF BackupInv
  <1>1. /\ UNCHANGED <<tree, edits, metadata, copying, restore, good, spoiled, passed>> /\ job = NoJob
        /\ job' = [NoJob EXCEPT !.pc = "run", !.checks = checks, !.scan = Artifacts, !.time = edits]
    BY DEF BeginBackup
  <1>2. /\ job'.pc = "run" /\ job'.scan = Artifacts /\ job'.todo = {} /\ job'.time = edits
        /\ job'.sums = NoSums
    BY <1>1 DEF NoJob
  <1>3. job' \in BackupJobs
    <2>1. checks \in BOOLEAN /\ edits \in Nat
      BY <1>t, BackupAssumption DEF BackupTypes
    <2> QED
      BY <1>1, <2>1, NoJobType DEF BackupJobs
  <1>4. BackupTypes'
    BY <1>1, <1>3, <1>t DEF BackupTypes
  <1>5. ASSUME restore.pc = "never"
        PROVE  JobsInv' /\ VersionsInv' /\ SumsInv' /\ ThroughInv' /\ CopiesInv'
    <2>0. JobsInv /\ VersionsInv /\ SumsInv /\ ThroughInv /\ CopiesInv
      BY <1>5 DEF BackupInv
    <2>1. \A w \in Copiers : copying[w] = {}
      BY <1>1, <2>0, NoJobType DEF JobsInv
    <2>2. JobsInv'
      BY <1>1, <1>2, <2>1, NoSumsType DEF JobsInv, Absent
    <2>3. VersionsInv'
      <3>1. edits \in Nat
        BY <1>t, BackupAssumption DEF BackupTypes
      <3> QED
        BY <1>1, <1>2, <2>0, <3>1, NoSumsType DEF VersionsInv
    <2>4. SumsInv' /\ CopiesInv'
      BY <1>1, <2>0 DEF SumsInv, CopiesInv, UpToDate
    <2>5. ThroughInv'
      BY <1>2 DEF ThroughInv
    <2> QED
      BY <2>2, <2>3, <2>4, <2>5
  <1> QED
    BY <1>1, <1>4, <1>5 DEF BackupInv

\* The backup ends without metadata: with a failed copy, or because the process dies.
LEMMA EndBackupKeeps == ASSUME BackupInv, BackupFails \/ BackupStops PROVE BackupInv'
  <1>t. BackupTypes
    BY DEF BackupInv
  <1>1. UNCHANGED <<tree, edits, metadata, good, spoiled, passed>> /\ job' = NoJob
    BY DEF BackupFails, BackupStops, ghosts
  <1>2. restore' = restore \/ restore' = RestoreOver
    BY DEF BackupFails, BackupStops
  <1>3. copying' \in [Copiers -> SUBSET Artifacts] /\ \A w \in Copiers : copying'[w] = {}
    BY <1>t DEF BackupFails, BackupStops, Copied, BackupTypes
  <1>4. BackupTypes'
    BY <1>1, <1>2, <1>3, <1>t, NoJobType, RestoreType DEF BackupTypes
  <1>5. ASSUME restore'.pc = "never"
        PROVE  JobsInv' /\ VersionsInv' /\ SumsInv' /\ ThroughInv' /\ CopiesInv'
    <2>0. JobsInv /\ VersionsInv /\ SumsInv /\ ThroughInv /\ CopiesInv
      BY <1>2, <1>5, RestoreType DEF BackupInv
    <2>2. JobsInv'
      BY <1>1, <1>3, NoJobType DEF JobsInv
    <2>3. VersionsInv'
      <3>1. edits \in Nat
        BY <1>t, BackupAssumption DEF BackupTypes
      <3> QED
        BY <1>1, <2>0, <3>1, NoJobType DEF VersionsInv
    <2>4. SumsInv' /\ CopiesInv'
      BY <1>1, <2>0 DEF SumsInv, CopiesInv, UpToDate
    <2>5. ThroughInv'
      BY <1>1, NoJobType DEF ThroughInv
    <2> QED
      BY <2>2, <2>3, <2>4, <2>5
  <1> QED
    BY <1>4, <1>5 DEF BackupInv

\* The metadata file is truncated, and then holds what the backup has found.
LEMMA MetadataKeeps == ASSUME BackupInv, SaveMetadata \/ MetadataSaved PROVE BackupInv'
  <1>t. BackupTypes
    BY DEF BackupInv
  <1>j. /\ job.sums \in [Artifacts -> Nat] /\ job.time \in Nat
        /\ metadata.sums \in [Artifacts -> Nat] /\ metadata.time \in Nat
    BY <1>t DEF BackupTypes, BackupJobs
  <1>1. UNCHANGED <<tree, edits, copying, restore, spoiled>>
    BY DEF SaveMetadata, MetadataSaved, ghosts
  <1>2. CASE SaveMetadata
    <2>1. /\ job' = [job EXCEPT !.pc = "save"] /\ good' = good /\ passed' = passed /\ Copied /\ ~job.failed
          /\ metadata' = [metadata EXCEPT !.state = "cut", !.sums = NoSums]
      BY <1>2 DEF SaveMetadata, ghosts
    <2>2. /\ metadata'.sums = NoSums /\ metadata'.time = metadata.time
          /\ metadata' \in [state : {"none", "cut", "whole"}, sums : [Artifacts -> Nat], time : Nat]
      BY <2>1, <1>t, NoSumsType DEF BackupTypes
    <2>3. /\ job'.pc = "save" /\ job'.scan = job.scan /\ job'.todo = job.todo /\ job'.time = job.time
          /\ job'.sums = job.sums /\ job'.failed = job.failed
          /\ job'.checks = job.checks /\ job'.skipped = job.skipped
          /\ job' \in BackupJobs
      BY <2>1, <1>t DEF BackupTypes, BackupJobs
    <2>4. BackupTypes'
      BY <1>1, <2>1, <2>2, <2>3, <1>t DEF BackupTypes
    <2>5. ASSUME restore.pc = "never"
          PROVE  JobsInv' /\ VersionsInv' /\ SumsInv' /\ ThroughInv' /\ CopiesInv'
      <3>0. JobsInv /\ VersionsInv /\ SumsInv /\ ThroughInv /\ CopiesInv
        BY <2>5 DEF BackupInv
      <3>1. JobsInv'
        BY <1>1, <2>1, <2>3, <3>0 DEF JobsInv, Copied
      <3>2. VersionsInv'
        <4>1. edits \in Nat
          BY <1>t, BackupAssumption DEF BackupTypes
        <4> QED
          BY <1>1, <2>1, <2>2, <2>3, <3>0, <4>1, NoSumsType DEF VersionsInv
      <3>3. SumsInv'
        BY <2>2, NoSumsType DEF SumsInv, Absent
      <3>4. CopiesInv'
        BY <1>1, <2>1, <3>0 DEF CopiesInv, UpToDate
      <3>5. ThroughInv'
        <4>1. job.pc = "run"
          BY <2>1 DEF Copied
        <4>2. PassedOver' = PassedOver
          BY <2>1, <2>3 DEF PassedOver
        <4> QED
          BY <1>1, <2>1, <2>3, <3>0, <4>1, <4>2 DEF ThroughInv
      <3> QED
        BY <3>1, <3>2, <3>3, <3>4, <3>5
    <2> QED
      BY <1>1, <2>4, <2>5 DEF BackupInv
  <1>3. CASE MetadataSaved
    <2>1. /\ job' = NoJob /\ good' = job.time /\ job.pc = "save" /\ passed' = PassedOver
          /\ metadata' = [state |-> "whole", sums |-> job.sums, time |-> job.time]
      BY <1>3 DEF MetadataSaved, PassedOver
    <2>2. /\ metadata'.sums = job.sums /\ metadata'.time = job.time
          /\ metadata' \in [state : {"none", "cut", "whole"}, sums : [Artifacts -> Nat], time : Nat]
      BY <2>1, <1>j
    <2>4. BackupTypes'
      BY <1>1, <1>j, <2>1, <2>2, <1>t, NoJobType DEF BackupTypes
    <2>5. ASSUME restore.pc = "never"
          PROVE  JobsInv' /\ VersionsInv' /\ SumsInv' /\ ThroughInv' /\ CopiesInv'
      <3>0. JobsInv /\ VersionsInv /\ SumsInv /\ ThroughInv /\ CopiesInv
        BY <2>5 DEF BackupInv
      <3>s. job.scan = {} /\ job.todo = {} /\ ~job.failed /\ \A w \in Copiers : copying[w] = {}
        BY <2>1, <3>0 DEF JobsInv
      <3>a. \A a \in Artifacts \ spoiled :
               (\/ tree["source"][a] \in 1..job.time /\ a \notin PassedOver
                \/ tree["source"][a] # Absent /\ tree["source"][a] = job.sums[a])
               => tree["backup"][a] = tree["source"][a]
        BY <2>1, <3>0, <3>s DEF ThroughInv
      <3>1. JobsInv'
        BY <1>1, <2>1, <3>s, NoJobType DEF JobsInv
      <3>2. VersionsInv'
        <4>1. edits \in Nat
          BY <1>t, BackupAssumption DEF BackupTypes
        <4> QED
          BY <1>1, <2>1, <2>2, <3>0, <4>1, NoJobType DEF VersionsInv
      <3>3. SumsInv'
        BY <1>1, <2>2, <3>a DEF SumsInv, Absent
      <3>4. CopiesInv'
        BY <1>1, <2>1, <3>a DEF CopiesInv, UpToDate
      <3>5. ThroughInv'
        BY <2>1, NoJobType DEF ThroughInv
      <3> QED
        BY <3>1, <3>2, <3>3, <3>4, <3>5
    <2> QED
      BY <1>1, <2>4, <2>5 DEF BackupInv
  <1> QED
    BY <1>2, <1>3

\* Once Restore was called, only the types are claimed.
LEMMA RestoreKeeps ==
    ASSUME BackupInv,
           \/ BeginRestore \/ Restored
           \/ \E a \in Artifacts : RestoreFile(a) \/ Mismatch(a) \/ RestoreSkips(a) \/ RestoreFails(a)
    PROVE  BackupInv'
  <1>t. BackupTypes
    BY DEF BackupInv
  <1>1. UNCHANGED <<edits, metadata, job, copying, good>>
    BY DEF BeginRestore, Restored, RestoreFile, Mismatch, RestoreSkips, RestoreFails, ghosts
  <1>2. /\ restore' \in [pc : {"never", "walk", "over"}, todo : SUBSET Artifacts, sums : [Artifacts -> Nat]]
        /\ restore'.pc # "never"
    <2>1. CASE restore' = RestoreOver
      BY <2>1, RestoreType
    <2>2. CASE BeginRestore
      BY <2>2, <1>t DEF BeginRestore, BackupTypes
    <2>3. ASSUME NEW a \in Artifacts, RestoreFile(a) \/ RestoreSkips(a)
          PROVE  /\ restore' \in [pc : {"never", "walk", "over"}, todo : SUBSET Artifacts, sums : [Artifacts -> Nat]]
                 /\ restore'.pc # "never"
      BY <2>3, <1>t DEF RestoreFile, RestoreSkips, BackupTypes
    <2> QED
      BY <2>1, <2>2, <2>3 DEF Restored, Mismatch, RestoreFails
  <1>3. tree' \in [Dirs -> [Artifacts -> Nat]]
    <2>d. Destination("backup") \in Dirs
      BY DEF Destination, Dirs
    <2>1. ASSUME NEW a \in Artifacts, RestoreFile(a) PROVE tree' \in [Dirs -> [Artifacts -> Nat]]
      <3>1. Created("backup", a) \in [Dirs -> [Artifacts -> Nat]]
        BY <1>t, <2>d, CutNat DEF Created, BackupTypes
      <3>2. Created("backup", a)["backup"][a] \in Nat
        BY <3>1 DEF Dirs
      <3>3. tree' = [Created("backup", a) EXCEPT ![Destination("backup")][a] = Created("backup", a)["backup"][a]]
        BY <2>1 DEF RestoreFile, Filled
      <3> HIDE DEF Created
      <3> QED
        BY <2>d, <3>1, <3>2, <3>3
    <2>2. ASSUME NEW a \in Artifacts, RestoreFails(a) PROVE tree' \in [Dirs -> [Artifacts -> Nat]]
      BY <2>2, <2>d, <1>t DEF RestoreFails, BackupTypes, Absent
    <2> QED
      BY <2>1, <2>2, <1>t DEF BeginRestore, Restored, Mismatch, RestoreSkips, BackupTypes
  <1> QED
    BY <1>1, <1>2, <1>3, <1>t DEF BackupInv, BackupTypes

\* BackupInv is an invariant of PerformBackup and Restore.
THEOREM BackupInvariance == BackupSpec => []BackupInv
  <1>1. BackupInv /\ [BackupNext]_backupVars => BackupInv'
    <2> SUFFICES ASSUME BackupInv, [BackupNext]_backupVars PROVE BackupInv'
      OBVIOUS
    <2>1. CASE BackupNext
      BY <2>1, EditKeepsBackup, ScanKeeps, OpenFailsKeeps, StartCopyKeeps, EndCopyKeeps, BeginKeeps,
         EndBackupKeeps, MetadataKeeps, RestoreKeeps
      DEF BackupNext
    <2>2. CASE UNCHANGED backupVars
      BY <2>2 DEF backupVars, ghosts, BackupInv, BackupTypes, JobsInv, VersionsInv, SumsInv,
                  ThroughInv, PassedOver, CopiesInv, UpToDate, Cut
    <2> QED
      BY <2>1, <2>2
  <1> QED
    BY <1>1, BackupStart, PTL DEF BackupSpec

\* What was not edited since a successful backup began is in the backup as it is in the source,
\* whatever failed or was cut short before and after, as long as Restore is not used, and unless
\* its copy was spoiled by a failed second copy or the walk passed over it and no backup has made
\* up for that since.
THEOREM BackupIsCurrent == BackupSpec => []BackupCurrent
  <1>1. BackupInv => BackupCurrent
    BY DEF BackupInv, CopiesInv, BackupCurrent
  <1> QED
    BY <1>1, BackupInvariance, PTL

----------------------------------------------------------------------------
(* MavenSync *)

Lists == UNION {[S -> Nat] : S \in SUBSET SyncFiles}

Calls == [pc : {"copy", "cleanup"}, opt : AllSyncOptions, listed : Lists, jobs : SUBSET SyncFiles, start : Nat]

CopierStates ==
    {AtRest} \cup [pc : {"copy"}, file : SyncFiles, v : Nat] \cup [pc : {"stamp"}, file : SyncFiles]
             \cup [pc : {"report"}] \cup [pc : {"append"}, seen : Nat]

SyncTypes ==
    /\ from \in [SyncFiles -> Nat] /\ to \in [SyncFiles -> [v : Nat, t : Nat]]
    /\ changes \in Nat /\ errs \in Nat
    /\ sync = NoSync \/ sync \in Calls
    /\ copier \in [SyncWorkers -> CopierStates]
    /\ synced = NoSync \/ synced \in [pc : {"returned"}, opt : AllSyncOptions, listed : SUBSET SyncFiles, start : Nat]

\* Workers run while a Sync copies, and only a finished Sync is looked back at.
CallInv ==
    /\ sync.pc # "copy" => \A w \in SyncWorkers : copier[w] = AtRest
    /\ sync # NoSync => synced = NoSync /\ sync.start <= changes
    /\ sync.pc = "cleanup" => sync.jobs \cap DOMAIN sync.listed = {}
    /\ synced # NoSync => synced.start <= changes

\* What a worker is about to write is what is in the source, unless that was edited since.
ReadInv ==
    \A w \in SyncWorkers :
       copier[w].pc = "copy" /\ from[copier[w].file] \in 1..sync.start => copier[w].v = from[copier[w].file]

Erred == errs > 0 \/ \E w \in SyncWorkers : copier[w].pc \in {"report", "append"}
InCopy(f) == \E w \in SyncWorkers : copier[w].pc = "copy" /\ copier[w].file = f
Strict(opt) == opt.verify /\ ~opt.dry /\ opt.workers # {}

\* A listed file is still to be looked at, being copied, up to date, or there is an error.
ListedInv ==
    (sync # NoSync /\ Strict(sync.opt)) =>
       \A f \in DOMAIN sync.listed :
          \/ f \in sync.jobs \/ from[f] \notin 1..sync.start
          \/ to[f].v = from[f] \/ InCopy(f) \/ Erred

SyncInv == SyncTypes /\ CallInv /\ ReadInv /\ ListedInv /\ SyncedIsCurrent

LEMMA SyncStart == SyncInit => SyncInv
  <1> SUFFICES ASSUME SyncInit PROVE SyncInv
    OBVIOUS
  <1>1. SyncTypes
    BY DEF SyncInit, SyncTypes, CopierStates, Gone
  <1>2. CallInv /\ ListedInv /\ SyncedIsCurrent
    BY DEF SyncInit, CallInv, ListedInv, SyncedIsCurrent, NoSync
  <1>3. ReadInv
    BY DEF SyncInit, ReadInv, AtRest
  <1> QED
    BY <1>1, <1>2, <1>3 DEF SyncInv

\* A call is told from no call by its step.
LEMMA CallPc == ASSUME SyncTypes PROVE sync = NoSync <=> sync.pc \notin {"copy", "cleanup"}
  BY DEF SyncTypes, Calls, NoSync

\* The states of a worker, one by one.
LEMMA CopierPc ==
    ASSUME SyncTypes, NEW w \in SyncWorkers
    PROVE  /\ copier[w].pc = "idle" <=> copier[w] = AtRest
           /\ copier[w].pc = "copy" => copier[w].file \in SyncFiles /\ copier[w].v \in Nat
           /\ copier[w].pc = "stamp" => copier[w].file \in SyncFiles
           /\ copier[w].pc = "append" => copier[w].seen \in Nat
  BY DEF SyncTypes, CopierStates, AtRest

\* The source changes: the new version is later than the start of any call.
LEMMA SourceKeeps ==
    ASSUME SyncInv, NEW f \in SyncFiles, EditSource(f) \/ RemoveSource(f)
    PROVE  SyncInv'
  <1> USE DEF SyncInv
  <1>1. UNCHANGED <<to, sync, copier, errs, synced>>
    BY DEF EditSource, RemoveSource
  <1>2. /\ changes' \in Nat /\ changes' >= changes /\ from' \in [SyncFiles -> Nat]
        /\ \A g \in SyncFiles \ {f} : from'[g] = from[g]
        /\ from'[f] \notin 1..changes
    BY DEF EditSource, RemoveSource, SyncTypes, Gone
  <1>3. SyncTypes'
    BY <1>1, <1>2 DEF SyncTypes
  <1>s. /\ sync # NoSync => sync.start \in Nat /\ sync.start <= changes
        /\ synced # NoSync => synced.start \in Nat /\ synced.start <= changes
    BY DEF CallInv, SyncTypes, Calls
  <1>4. CallInv'
    <2>1. changes \in Nat
      BY DEF SyncTypes
    <2> QED
      BY <1>1, <1>2, <1>s, <2>1 DEF CallInv
  <1>5. /\ sync # NoSync => from'[f] \notin 1..sync.start
        /\ synced # NoSync => from'[f] \notin 1..synced.start
    BY <1>2, <1>s DEF SyncTypes
  <1>6. ReadInv'
    <2> SUFFICES ASSUME NEW w \in SyncWorkers, copier[w].pc = "copy",
                        from'[copier[w].file] \in 1..sync.start
                 PROVE  copier[w].v = from'[copier[w].file]
      BY <1>1 DEF ReadInv
    <2>1. sync # NoSync
      BY DEF CallInv, NoSync, AtRest
    <2>2. copier[w].file # f /\ copier[w].file \in SyncFiles
      BY <1>5, <2>1, CopierPc
    <2> QED
      BY <1>2, <2>2 DEF ReadInv
  <1>7. ListedInv'
    <2>0. InCopy(f)' = InCopy(f) /\ Erred' = Erred /\ \A g : InCopy(g)' = InCopy(g)
      BY <1>1 DEF InCopy, Erred
    <2>1. sync # NoSync => \A g \in DOMAIN sync.listed : g \in SyncFiles
      BY DEF SyncTypes, Calls, Lists
    <2> QED
      BY <1>1, <1>2, <1>5, <2>0, <2>1 DEF ListedInv
  <1>8. SyncedIsCurrent'
    <2>1. synced # NoSync => \A g \in synced.listed : g \in SyncFiles
      BY DEF SyncTypes
    <2> QED
      BY <1>1, <1>2, <1>5, <2>1 DEF SyncedIsCurrent
  <1> QED
    BY <1>3, <1>4, <1>6, <1>7, <1>8

LEMMA BeginSyncKeeps ==
    ASSUME SyncInv, NEW opt \in SyncOptions, NEW unread \in SUBSET SyncFiles, BeginSync(opt, unread)
    PROVE  SyncInv'
  <1> USE DEF SyncInv
  <1> DEFINE files == {f \in SyncFiles \ unread : from[f] # Gone}
  <1>1. /\ sync = NoSync /\ errs' = 0 /\ synced' = NoSync /\ UNCHANGED <<from, to, changes, copier>>
        /\ sync' = [pc |-> "copy", opt |-> opt, listed |-> [f \in files |-> from[f]],
                    jobs |-> files, start |-> changes]
    BY DEF BeginSync
  <1>2. [f \in files |-> from[f]] \in Lists
    <2>1. files \in SUBSET SyncFiles
      OBVIOUS
    <2>2. [f \in files |-> from[f]] \in [files -> Nat]
      BY DEF SyncTypes
    <2> HIDE DEF files
    <2> QED
      BY <2>1, <2>2 DEF Lists
  <1>3. files \subseteq SyncFiles
    OBVIOUS
  <1>d. DOMAIN [f \in files |-> from[f]] = files
    OBVIOUS
  <1> HIDE DEF files
  <1>4. SyncTypes'
    <2>1. sync' \in Calls
      BY <1>1, <1>2, <1>3, SyncAssumption DEF Calls, SyncTypes
    <2> QED
      BY <1>1, <2>1 DEF SyncTypes
  <1>5. \A w \in SyncWorkers : copier[w] = AtRest
    BY <1>1 DEF CallInv, NoSync
  <1>6. CallInv'
    BY <1>1 DEF CallInv, SyncTypes
  <1>7. ReadInv'
    BY <1>1, <1>5 DEF ReadInv, AtRest
  <1>8. ListedInv'
    BY <1>1, <1>d DEF ListedInv
  <1>9. SyncedIsCurrent'
    BY <1>1 DEF SyncedIsCurrent
  <1> QED
    BY <1>4, <1>6, <1>7, <1>8, <1>9

\* The steps of a worker with a job of the list.
LEMMA JobKeeps ==
    ASSUME SyncInv, NEW w \in SyncWorkers, NEW f \in SyncFiles,
           Skip(w, f) \/ OpenBoth(w, f) \/ JobFails(w, f)
    PROVE  SyncInv'
  <1> USE DEF SyncInv
  <1>1. /\ Working(w) /\ f \in sync.jobs /\ sync' = [sync EXCEPT !.jobs = @ \ {f}]
        /\ UNCHANGED <<from, changes, errs, synced>>
    BY DEF Skip, OpenBoth, JobFails
  <1>2. sync.pc = "copy" /\ sync \in Calls /\ copier[w] = AtRest /\ synced = NoSync /\ sync # NoSync
    BY <1>1 DEF Working, SyncTypes, CallInv, NoSync
  <1>3. /\ sync' \in Calls /\ sync'.pc = "copy" /\ sync'.opt = sync.opt /\ sync'.listed = sync.listed
        /\ sync'.start = sync.start /\ sync'.jobs = sync.jobs \ {f} /\ sync' # NoSync
    BY <1>1, <1>2 DEF Calls, NoSync
  <1>4. \/ /\ Skip(w, f) /\ UNCHANGED <<to, copier>>
        \/ /\ OpenBoth(w, f)
           /\ to' = [to EXCEPT ![f] = [v |-> Partial(from[f]), t |-> changes]]
           /\ copier' = [copier EXCEPT ![w] = [pc |-> "copy", file |-> f, v |-> from[f]]]
        \/ /\ JobFails(w, f) /\ UNCHANGED to
           /\ copier' = [copier EXCEPT ![w] = [pc |-> "report"]]
    BY DEF Skip, OpenBoth, JobFails
  <1>5. /\ to' \in [SyncFiles -> [v : Nat, t : Nat]] /\ copier' \in [SyncWorkers -> CopierStates]
        /\ \A g \in SyncFiles \ {f} : to'[g] = to[g]
        /\ \A x \in SyncWorkers \ {w} : copier'[x] = copier[x]
        /\ \/ copier'[w] = AtRest /\ to' = to /\ Skip(w, f)
           \/ copier'[w] = [pc |-> "copy", file |-> f, v |-> from[f]]
           \/ copier'[w] = [pc |-> "report"] /\ to' = to
    <2>1. from[f] \in Nat /\ Partial(from[f]) \in Nat /\ changes \in Nat
      BY SyncAssumption DEF SyncTypes, Partial
    <2>2. [pc |-> "copy", file |-> f, v |-> from[f]] \in CopierStates /\ [pc |-> "report"] \in CopierStates
      BY <2>1 DEF CopierStates
    <2>3. [v |-> Partial(from[f]), t |-> changes] \in [v : Nat, t : Nat]
      BY <2>1
    <2>4. CASE Skip(w, f) /\ UNCHANGED <<to, copier>>
      BY <1>2, <2>4 DEF SyncTypes
    <2>5. CASE /\ to' = [to EXCEPT ![f] = [v |-> Partial(from[f]), t |-> changes]]
               /\ copier' = [copier EXCEPT ![w] = [pc |-> "copy", file |-> f, v |-> from[f]]]
      BY <2>2, <2>3, <2>5 DEF SyncTypes
    <2>6. CASE UNCHANGED to /\ copier' = [copier EXCEPT ![w] = [pc |-> "report"]]
      BY <2>2, <2>6 DEF SyncTypes
    <2> QED
      BY <1>4, <2>4, <2>5, <2>6
  <1>6. SyncTypes'
    BY <1>1, <1>3, <1>5 DEF SyncTypes
  <1>7. CallInv'
    BY <1>1, <1>2, <1>3 DEF CallInv
  <1>8. ReadInv'
    <2> SUFFICES ASSUME NEW x \in SyncWorkers, copier'[x].pc = "copy",
                        from[copier'[x].file] \in 1..sync.start
                 PROVE  copier'[x].v = from[copier'[x].file]
      BY <1>1, <1>3 DEF ReadInv
    <2>1. CASE x = w
      BY <1>5, <2>1 DEF AtRest
    <2>2. CASE x # w
      BY <1>5, <2>2 DEF ReadInv
    <2> QED
      BY <2>1, <2>2
  <1>9. SyncedIsCurrent'
    BY <1>1, <1>2 DEF SyncedIsCurrent
  <1>10. ListedInv'
    <2> SUFFICES ASSUME Strict(sync.opt), NEW g \in DOMAIN sync.listed, g \notin sync.jobs \ {f},
                        from[g] \in 1..sync.start, to'[g].v # from[g]
                 PROVE  InCopy(g)' \/ Erred'
      BY <1>1, <1>3 DEF ListedInv
    <2>0. g \in SyncFiles
      BY <1>2 DEF Calls, Lists
    <2>i. copier[w].pc = "idle"
      BY <1>2 DEF AtRest
    <2>c. \A h : InCopy(h) => InCopy(h)'
      BY <1>5, <2>i DEF InCopy
    <2>e. Erred => Erred'
      BY <1>1, <1>5, <2>i DEF Erred
    <2>1. CASE g = f
      <3>1. CASE copier'[w] = AtRest /\ to' = to /\ Skip(w, f)
        <4>1. ~NeedsSync(f) /\ sync.opt.verify
          BY <3>1 DEF Skip, Strict
        <4> QED
          BY <2>1, <3>1, <4>1 DEF NeedsSync
      <3>2. CASE copier'[w] = [pc |-> "copy", file |-> f, v |-> from[f]]
        BY <2>1, <3>2 DEF InCopy
      <3>3. CASE copier'[w] = [pc |-> "report"]
        BY <3>3 DEF Erred
      <3> QED
        BY <1>5, <3>1, <3>2, <3>3
    <2>2. CASE g # f
      <3>1. g \notin sync.jobs /\ to'[g] = to[g]
        BY <1>5, <2>0, <2>2
      <3>2. InCopy(g) \/ Erred
        BY <1>2, <3>1 DEF ListedInv
      <3> QED
        BY <3>2, <2>c, <2>e
    <2> QED
      BY <2>1, <2>2
  <1> QED
    BY <1>6, <1>7, <1>8, <1>9, <1>10

\* A worker finishes its copy.
LEMMA CopiedKeeps ==
    ASSUME SyncInv, NEW w \in SyncWorkers, SyncCopied(w)
    PROVE  SyncInv'
  <1> USE DEF SyncInv
  <1> DEFINE f == copier[w].file
  <1>1. /\ copier[w].pc = "copy" /\ UNCHANGED <<from, changes, sync, errs, synced>>
        /\ to' = [to EXCEPT ![f].v = copier[w].v]
        /\ copier' = [copier EXCEPT ![w] = [pc |-> "stamp", file |-> f]]
    BY DEF SyncCopied
  <1>2. f \in SyncFiles /\ copier[w].v \in Nat
    BY <1>1, CopierPc
  <1>3. sync.pc = "copy" /\ sync # NoSync /\ synced = NoSync
    BY <1>1 DEF CallInv, NoSync, AtRest
  <1>4. /\ to' \in [SyncFiles -> [v : Nat, t : Nat]] /\ to'[f].v = copier[w].v
        /\ \A g \in SyncFiles \ {f} : to'[g] = to[g]
    BY <1>1, <1>2 DEF SyncTypes
  <1>5. /\ copier' \in [SyncWorkers -> CopierStates] /\ copier'[w] = [pc |-> "stamp", file |-> f]
        /\ \A x \in SyncWorkers \ {w} : copier'[x] = copier[x]
    <2>1. [pc |-> "stamp", file |-> f] \in CopierStates
      BY <1>2 DEF CopierStates
    <2> QED
      BY <1>1, <2>1 DEF SyncTypes
  <1>p. copier'[w].pc = "stamp"
    BY <1>5
  <1>6. SyncTypes'
    BY <1>1, <1>4, <1>5 DEF SyncTypes
  <1>7. CallInv'
    BY <1>1, <1>3 DEF CallInv
  <1>8. ReadInv'
    BY <1>1, <1>5, <1>p DEF ReadInv
  <1>9. SyncedIsCurrent'
    BY <1>1, <1>3 DEF SyncedIsCurrent
  <1>10. ListedInv'
    <2> SUFFICES ASSUME Strict(sync.opt), NEW g \in DOMAIN sync.listed, g \notin sync.jobs,
                        from[g] \in 1..sync.start, to'[g].v # from[g]
                 PROVE  InCopy(g)' \/ Erred'
      BY <1>1, <1>3 DEF ListedInv
    <2>0. g \in SyncFiles
      BY <1>3 DEF SyncTypes, Calls, Lists
    <2>1. g # f
      BY <1>1, <1>4 DEF ReadInv
    <2>2. InCopy(g) \/ Erred
      BY <1>3, <1>4, <2>0, <2>1 DEF ListedInv
    <2>3. InCopy(g) => InCopy(g)'
      BY <1>5, <2>1 DEF InCopy
    <2>4. Erred => Erred'
      BY <1>1, <1>5 DEF Erred
    <2> QED
      BY <2>2, <2>3, <2>4
  <1> QED
    BY <1>6, <1>7, <1>8, <1>9, <1>10

\* A worker's copy breaks off: from here until it is appended the error is the worker's own.
LEMMA CopyFailsKeeps ==
    ASSUME SyncInv, NEW w \in SyncWorkers, SyncCopyFails(w)
    PROVE  SyncInv'
  <1> USE DEF SyncInv
  <1> DEFINE f == copier[w].file
  <1>1. /\ copier[w].pc = "copy" /\ UNCHANGED <<from, changes, sync, errs, synced>>
        /\ to' = [to EXCEPT ![f] = [v |-> Gone, t |-> 0]] \/ to' = to
        /\ copier' = [copier EXCEPT ![w] = [pc |-> "report"]]
    BY DEF SyncCopyFails
  <1>2. f \in SyncFiles
    BY <1>1, CopierPc
  <1>3. sync.pc = "copy" /\ sync # NoSync /\ synced = NoSync
    BY <1>1 DEF CallInv, NoSync, AtRest
  <1>4. to' \in [SyncFiles -> [v : Nat, t : Nat]]
    <2>1. [v |-> Gone, t |-> 0] \in [v : Nat, t : Nat]
      BY DEF Gone
    <2> QED
      BY <1>1, <2>1 DEF SyncTypes
  <1>5. /\ copier' \in [SyncWorkers -> CopierStates] /\ copier'[w] = [pc |-> "report"]
        /\ \A x \in SyncWorkers \ {w} : copier'[x] = copier[x]
    <2>1. [pc |-> "report"] \in CopierStates
      BY DEF CopierStates
    <2> QED
      BY <1>1, <2>1 DEF SyncTypes
  <1>p. copier'[w].pc = "report"
    BY <1>5
  <1>6. SyncTypes'
    BY <1>1, <1>4, <1>5 DEF SyncTypes
  <1>7. CallInv'
    BY <1>1, <1>3 DEF CallInv
  <1>8. ReadInv'
    BY <1>1, <1>5, <1>p DEF ReadInv
  <1>9. SyncedIsCurrent'
    BY <1>1, <1>3 DEF SyncedIsCurrent
  <1>10. ListedInv'
    BY <1>1, <1>p DEF ListedInv, Erred
  <1> QED
    BY <1>6, <1>7, <1>8, <1>9, <1>10

\* A worker sets the time of its copy, which leaves the content alone.
LEMMA StampKeeps ==
    ASSUME SyncInv, NEW w \in SyncWorkers, Stamp(w)
    PROVE  SyncInv'
  <1> USE DEF SyncInv
  <1> DEFINE f == copier[w].file
  <1>1. /\ copier[w].pc = "stamp" /\ UNCHANGED <<from, changes, sync, errs, synced>>
        /\ to' = [to EXCEPT ![f].t = IF from[f] = Gone THEN @ ELSE from[f]]
        /\ copier' = [copier EXCEPT ![w] = AtRest]
    BY DEF Stamp
  <1>2. f \in SyncFiles
    BY <1>1, CopierPc
  <1>3. sync.pc = "copy" /\ sync # NoSync /\ synced = NoSync
    BY <1>1 DEF CallInv, NoSync, AtRest
  <1>4. /\ to' \in [SyncFiles -> [v : Nat, t : Nat]]
        /\ \A g \in SyncFiles : to'[g].v = to[g].v
    BY <1>1, <1>2 DEF SyncTypes
  <1>5. /\ copier' \in [SyncWorkers -> CopierStates] /\ copier'[w] = AtRest
        /\ \A x \in SyncWorkers \ {w} : copier'[x] = copier[x]
    <2>1. AtRest \in CopierStates
      BY DEF CopierStates
    <2> QED
      BY <1>1, <2>1 DEF SyncTypes
  <1>p. copier'[w].pc = "idle"
    BY <1>5 DEF AtRest
  <1>6. SyncTypes'
    BY <1>1, <1>4, <1>5 DEF SyncTypes
  <1>7. CallInv'
    BY <1>1, <1>3 DEF CallInv
  <1>8. ReadInv'
    BY <1>1, <1>5, <1>p DEF ReadInv
  <1>9. SyncedIsCurrent'
    BY <1>1, <1>3 DEF SyncedIsCurrent
  <1>10. ListedInv'
    <2>0. \A g \in DOMAIN sync.listed : g \in SyncFiles
      BY <1>3 DEF SyncTypes, Calls, Lists
    <2>3. \A g : InCopy(g) => InCopy(g)'
      BY <1>1, <1>5 DEF InCopy
    <2>4. Erred => Erred'
      BY <1>1, <1>5 DEF Erred
    <2> QED
      BY <1>1, <1>3, <1>4, <2>0, <2>3, <2>4 DEF ListedInv
  <1> QED
    BY <1>6, <1>7, <1>8, <1>9, <1>10

\* A worker appends its error: whatever it overwrites, the list is not empty afterwards.
LEMMA ErrorKeeps ==
    ASSUME SyncInv, NEW w \in SyncWorkers, ReadErrors(w) \/ AppendError(w)
    PROVE  SyncInv'
  <1> USE DEF SyncInv
  <1>1. /\ copier[w].pc \in {"report", "append"} /\ UNCHANGED <<from, to, changes, sync, synced>>
        /\ \/ /\ copier' = [copier EXCEPT ![w] = [pc |-> "append", seen |-> errs]] /\ errs' = errs
           \/ /\ copier[w].pc = "append"
              /\ copier' = [copier EXCEPT ![w] = AtRest] /\ errs' = Longer(copier[w].seen)
    BY DEF ReadErrors, AppendError
  <1>3. sync.pc = "copy" /\ sync # NoSync /\ synced = NoSync
    BY <1>1 DEF CallInv, NoSync, AtRest
  <1>5. /\ copier' \in [SyncWorkers -> CopierStates] /\ errs' \in Nat
        /\ \/ copier'[w].pc = "append"
           \/ copier'[w].pc = "idle" /\ errs' > 0
        /\ \A x \in SyncWorkers \ {w} : copier'[x] = copier[x]
    <2>1. /\ AtRest \in CopierStates /\ [pc |-> "append", seen |-> errs] \in CopierStates
          /\ AtRest.pc = "idle" /\ errs \in Nat
      BY DEF CopierStates, AtRest, SyncTypes
    <2>2. copier[w].pc = "append" => Longer(copier[w].seen) \in Nat /\ Longer(copier[w].seen) > 0
      BY CopierPc DEF Longer
    <2>3. copier \in [SyncWorkers -> CopierStates]
      BY DEF SyncTypes
    <2>4. CASE copier' = [copier EXCEPT ![w] = [pc |-> "append", seen |-> errs]] /\ errs' = errs
      BY <2>1, <2>3, <2>4
    <2>5. CASE /\ copier[w].pc = "append"
               /\ copier' = [copier EXCEPT ![w] = AtRest] /\ errs' = Longer(copier[w].seen)
      BY <2>1, <2>2, <2>3, <2>5
    <2> QED
      BY <1>1, <2>4, <2>5
  <1>6. SyncTypes'
    BY <1>1, <1>5 DEF SyncTypes
  <1>7. CallInv'
    BY <1>1, <1>3 DEF CallInv
  <1>8. ReadInv'
    BY <1>1, <1>5 DEF ReadInv
  <1>9. SyncedIsCurrent'
    BY <1>1, <1>3 DEF SyncedIsCurrent
  <1>10. ListedInv'
    BY <1>1, <1>5 DEF ListedInv, Erred
  <1> QED
    BY <1>6, <1>7, <1>8, <1>9, <1>10

\* The workers have ended, and the mirror's deletions are of files not in the list.
LEMMA CopiesDoneKeeps == ASSUME SyncInv, CopiesDone PROVE SyncInv'
  <1> USE DEF SyncInv
  <1> DEFINE todo == IF sync.opt.mode # "mirror" \/ sync.opt.dry \/ sync.opt.confirm THEN {}
                     ELSE {f \in SyncFiles : to[f].v # Gone} \ DOMAIN sync.listed
  <1>1. /\ sync.pc = "copy" /\ \A w \in SyncWorkers : copier[w] = AtRest
        /\ sync.jobs = {} \/ sync.opt.workers = {}
        /\ sync' = [sync EXCEPT !.pc = "cleanup", !.jobs = todo]
        /\ UNCHANGED <<from, to, changes, copier, errs, synced>>
    BY DEF CopiesDone
  <1>2. sync # NoSync /\ synced = NoSync /\ sync \in Calls
    BY <1>1 DEF CallInv, NoSync, SyncTypes
  <1>3. todo \subseteq SyncFiles /\ todo \cap DOMAIN sync.listed = {}
    OBVIOUS
  <1> HIDE DEF todo
  <1>4. /\ sync' \in Calls /\ sync'.pc = "cleanup" /\ sync'.jobs = todo /\ sync'.opt = sync.opt
        /\ sync'.listed = sync.listed /\ sync'.start = sync.start /\ sync' # NoSync
    BY <1>1, <1>2, <1>3 DEF Calls, NoSync
  <1>5. SyncTypes'
    BY <1>1, <1>4 DEF SyncTypes
  <1>6. CallInv'
    BY <1>1, <1>2, <1>3, <1>4 DEF CallInv
  <1>7. ReadInv'
    BY <1>1, <1>4 DEF ReadInv
  <1>8. ListedInv'
    <2>1. \A g : ~InCopy(g)
      BY <1>1 DEF InCopy, AtRest
    <2>2. Erred' = Erred
      BY <1>1 DEF Erred
    <2> QED
      BY <1>1, <1>2, <1>4, <2>1, <2>2 DEF ListedInv, Strict
  <1>9. SyncedIsCurrent'
    BY <1>1, <1>2 DEF SyncedIsCurrent
  <1> QED
    BY <1>5, <1>6, <1>7, <1>8, <1>9

LEMMA CleanupKeeps ==
    ASSUME SyncInv, NEW f \in SyncFiles, CleanupTarget(f)
    PROVE  SyncInv'
  <1> USE DEF SyncInv
  <1>1. /\ sync.pc = "cleanup" /\ f \in sync.jobs /\ sync' = [sync EXCEPT !.jobs = @ \ {f}]
        /\ UNCHANGED <<from, changes, copier, synced>>
        /\ errs' = errs \/ errs' = Longer(errs)
        /\ to' = to \/ to' = [to EXCEPT ![f] = [v |-> Gone, t |-> 0]]
    BY DEF CleanupTarget
  <1>2. /\ sync # NoSync /\ synced = NoSync /\ sync \in Calls /\ f \notin DOMAIN sync.listed
        /\ \A w \in SyncWorkers : copier[w] = AtRest
    BY <1>1 DEF CallInv, NoSync, SyncTypes
  <1>3. /\ to' \in [SyncFiles -> [v : Nat, t : Nat]]
        /\ \A g \in SyncFiles \ {f} : to'[g] = to[g]
    <2>1. [v |-> Gone, t |-> 0] \in [v : Nat, t : Nat]
      BY DEF Gone
    <2> QED
      BY <1>1, <2>1 DEF SyncTypes
  <1>e. errs' \in Nat /\ errs' >= errs /\ errs \in Nat
    BY <1>1 DEF SyncTypes, Longer
  <1>4. /\ sync' \in Calls /\ sync'.pc = "cleanup" /\ sync'.jobs = sync.jobs \ {f} /\ sync'.opt = sync.opt
        /\ sync'.listed = sync.listed /\ sync'.start = sync.start /\ sync' # NoSync
    BY <1>1, <1>2 DEF Calls, NoSync
  <1>5. SyncTypes'
    BY <1>1, <1>3, <1>e, <1>4 DEF SyncTypes
  <1>6. CallInv'
    BY <1>1, <1>2, <1>4 DEF CallInv
  <1>7. ReadInv'
    BY <1>1, <1>4 DEF ReadInv
  <1>8. ListedInv'
    <2>1. \A g : InCopy(g)' = InCopy(g)
      BY <1>1 DEF InCopy
    <2>2. Erred => Erred'
      BY <1>1, <1>e DEF Erred
    <2>3. \A g \in DOMAIN sync.listed : g \in SyncFiles /\ g # f
      BY <1>2 DEF Calls, Lists
    <2> QED
      BY <1>1, <1>2, <1>3, <1>4, <2>1, <2>2, <2>3 DEF ListedInv
  <1>9. SyncedIsCurrent'
    BY <1>1, <1>2 DEF SyncedIsCurrent
  <1> QED
    BY <1>5, <1>6, <1>7, <1>8, <1>9

\* Sync returns: nothing is left to do, so without an error every listed file is up to date.
LEMMA EndSyncKeeps == ASSUME SyncInv, EndSync PROVE SyncInv'
  <1> USE DEF SyncInv
  <1>1. /\ sync.pc = "cleanup" /\ sync.jobs = {} /\ sync' = NoSync
        /\ synced' = [pc |-> "returned", opt |-> sync.opt, listed |-> DOMAIN sync.listed, start |-> sync.start]
        /\ UNCHANGED <<from, to, changes, copier, errs>>
    BY DEF EndSync
  <1>2. sync # NoSync /\ sync \in Calls /\ \A w \in SyncWorkers : copier[w] = AtRest
    BY <1>1 DEF CallInv, NoSync, SyncTypes
  <1>3. sync.opt \in AllSyncOptions /\ DOMAIN sync.listed \in SUBSET SyncFiles /\ sync.start \in Nat
    BY <1>2 DEF Calls, Lists
  <1>4. /\ synced' \in [pc : {"returned"}, opt : AllSyncOptions, listed : SUBSET SyncFiles, start : Nat]
        /\ synced'.start = sync.start /\ synced'.opt = sync.opt /\ synced'.listed = DOMAIN sync.listed
    BY <1>1, <1>3
  <1>5. SyncTypes'
    BY <1>1, <1>4 DEF SyncTypes
  <1>6. CallInv'
    <2>1. sync.start <= changes
      BY <1>2 DEF CallInv
    <2> QED
      BY <1>1, <1>2, <1>4, <2>1 DEF CallInv, NoSync
  <1>7. ReadInv'
    BY <1>1, <1>2 DEF ReadInv, AtRest
  <1>8. ListedInv'
    BY <1>1 DEF ListedInv
  <1>9. SyncedIsCurrent'
    <2>1. \A g : ~InCopy(g)
      BY <1>2 DEF InCopy, AtRest
    <2>2. errs = 0 => ~Erred
      BY <1>2 DEF Erred, AtRest, SyncTypes
    <2> QED
      BY <1>1, <1>2, <1>4, <2>1, <2>2 DEF ListedInv, SyncedIsCurrent, Strict
  <1> QED
    BY <1>5, <1>6, <1>7, <1>8, <1>9

LEMMA SyncStopsKeeps == ASSUME SyncInv, SyncStops PROVE SyncInv'
  <1> USE DEF SyncInv
  <1>1. /\ sync # NoSync /\ sync' = NoSync /\ copier' = [w \in SyncWorkers |-> AtRest] /\ errs' = 0
        /\ UNCHANGED <<from, to, changes, synced>>
    BY DEF SyncStops
  <1>2. synced = NoSync
    BY <1>1 DEF CallInv
  <1>3. SyncTypes'
    BY <1>1 DEF SyncTypes, CopierStates
  <1>4. CallInv'
    BY <1>1, <1>2 DEF CallInv, NoSync
  <1>5. ReadInv'
    BY <1>1 DEF ReadInv, AtRest
  <1>6. ListedInv' /\ SyncedIsCurrent'
    BY <1>1, <1>2 DEF ListedInv, SyncedIsCurrent
  <1> QED
    BY <1>3, <1>4, <1>5, <1>6

\* SyncInv holds of every behaviour of Sync, whatever the options it is called with, its workers
\* and the points at which it is stopped.
THEOREM SyncInvariance == SyncSpec => []SyncInv
  <1>1. SyncInv /\ [SyncNext]_syncVars => SyncInv'
    <2> SUFFICES ASSUME SyncInv, [SyncNext]_syncVars PROVE SyncInv'
      OBVIOUS
    <2>1. CASE \E f \in SyncFiles : EditSource(f) \/ RemoveSource(f)
      BY <2>1, SourceKeeps
    <2>2. CASE \E f \in SyncFiles : CleanupTarget(f)
      BY <2>2, CleanupKeeps
    <2>3. CASE \E f \in SyncFiles, w \in SyncWorkers : Skip(w, f) \/ OpenBoth(w, f) \/ JobFails(w, f)
      BY <2>3, JobKeeps
    <2>4. CASE \E w \in SyncWorkers : SyncCopied(w)
      BY <2>4, CopiedKeeps
    <2>5. CASE \E w \in SyncWorkers : SyncCopyFails(w)
      BY <2>5, CopyFailsKeeps
    <2>6. CASE \E w \in SyncWorkers : Stamp(w)
      BY <2>6, StampKeeps
    <2>7. CASE \E w \in SyncWorkers : ReadErrors(w) \/ AppendError(w)
      BY <2>7, ErrorKeeps
    <2>8. CASE \E opt \in SyncOptions, unread \in SUBSET SyncFiles : BeginSync(opt, unread)
      BY <2>8, BeginSyncKeeps
    <2>9. CASE CopiesDone \/ EndSync \/ SyncStops
      BY <2>9, CopiesDoneKeeps, EndSyncKeeps, SyncStopsKeeps
    <2>10. CASE UNCHANGED syncVars
      BY <2>10 DEF syncVars, SyncInv, SyncTypes, CallInv, ReadInv, ListedInv, SyncedIsCurrent, InCopy, Erred
    <2> QED
      BY <2>1, <2>2, <2>3, <2>4, <2>5, <2>6, <2>7, <2>8, <2>9, <2>10 DEF SyncNext
  <1> QED
    BY <1>1, SyncStart, PTL DEF SyncSpec

\* A verifying Sync without an error leaves every listed file that was not edited meanwhile as it
\* is in the source (maven_sync.go, Sync).
THEOREM SyncIsCurrent == SyncSpec => []SyncedIsCurrent
  <1>1. SyncInv => SyncedIsCurrent
    BY DEF SyncInv
  <1> QED
    BY <1>1, SyncInvariance, PTL

----------------------------------------------------------------------------
(* AlertManager: the two time windows *)

LEMMA Least == ASSUME NEW T, T \subseteq Nat, T # {} PROVE \E x \in T : \A y \in T : x <= y
  <1>1. PICK x \in T : \A y \in T : ~(<<y, x>> \in OpToRel(<, Nat))
    BY NatLessThanWellFounded, WFMin, Zenon
  <1>2. \A y \in T : ~(y < x)
    BY <1>1 DEF OpToRel
  <1> QED
    BY <1>2

\* The loop of cleanup stops, and where it does.
LEMMA StaleStops ==
    ASSUME NEW w \in Seq(Nat), NEW c \in Int
    PROVE  /\ Stale(w, c) \in 0..Len(w)
           /\ \A j \in 1..Stale(w, c) : w[j] < c
  <1> DEFINE T == {k \in 0..Len(w) : k < Len(w) => w[k + 1] >= c}
             Stops(n) == (\A j \in 1..n : w[j] < c) /\ (n < Len(w) => w[n + 1] >= c)
  <1>1. Len(w) \in T /\ T \subseteq Nat
    OBVIOUS
  <1>2. PICK n \in T : \A y \in T : n <= y
    BY <1>1, Least
  <1>3. \A j \in 1..n : w[j] < c
    <2> TAKE j \in 1..n
    <2>1. j - 1 \in 0..Len(w) /\ ~(n <= j - 1) /\ j - 1 < Len(w) /\ (j - 1) + 1 = j
      BY <1>2
    <2>2. ~(w[j] >= c)
      BY <1>2, <2>1
    <2>3. w[j] \in Nat
      BY <2>1
    <2> QED
      BY <2>2, <2>3
  <1>4. n \in 0..Len(w) /\ Stops(n)
    BY <1>2, <1>3
  <1>5. Stale(w, c) = CHOOSE k \in 0..Len(w) : Stops(k)
    BY DEF Stale
  <1> HIDE DEF Stops
  <1>6. Stale(w, c) \in 0..Len(w) /\ Stops(Stale(w, c))
    BY <1>4, <1>5
  <1> QED
    BY <1>6 DEF Stops

\* So does the loop of countRecent.
LEMMA RecentStops ==
    ASSUME NEW w \in Seq(Nat), now \in Nat
    PROVE  /\ countRecent(w) \in 0..Len(w)
           /\ countRecent(w) < Len(w) => w[Len(w) - countRecent(w)] < now - Burst
  <1> DEFINE c == now - Burst
             T == {k \in 0..Len(w) : k < Len(w) => w[Len(w) - k] < c}
             Stops(n) == (\A j \in (Len(w) - n + 1)..Len(w) : w[j] >= c) /\ (n < Len(w) => w[Len(w) - n] < c)
  <1>0. c \in Int
    BY AlertAssumption
  <1>5. countRecent(w) = CHOOSE k \in 0..Len(w) : Stops(k)
    BY DEF countRecent
  <1> HIDE DEF c
  <1>1. Len(w) \in T /\ T \subseteq Nat
    OBVIOUS
  <1>2. PICK n \in T : \A y \in T : n <= y
    BY <1>1, Least
  <1>3. \A j \in (Len(w) - n + 1)..Len(w) : w[j] >= c
    <2> TAKE j \in (Len(w) - n + 1)..Len(w)
    <2>1. /\ Len(w) - j \in 0..Len(w) /\ ~(n <= Len(w) - j) /\ Len(w) - j < Len(w)
          /\ Len(w) - (Len(w) - j) = j /\ j \in 1..Len(w)
      BY <1>2
    <2>2. ~(w[j] < c)
      BY <1>2, <2>1
    <2>3. w[j] \in Nat
      BY <2>1
    <2> QED
      BY <1>0, <2>2, <2>3
  <1>4. n \in 0..Len(w) /\ Stops(n)
    BY <1>2, <1>3
  <1> HIDE DEF Stops
  <1>6. countRecent(w) \in 0..Len(w) /\ Stops(countRecent(w))
    BY <1>4, <1>5
  <1> QED
    BY <1>6 DEF Stops, c

AlertTypes ==
    /\ now \in Nat /\ minuteWindow \in Seq(Nat) /\ hourWindow \in Seq(Nat) /\ admitted \in Seq(Nat)
    /\ alerters \subseteq Channels
    /\ sender \in [Senders -> [pc : {"idle", "filter", "broadcast", "redirect"}, todo : SUBSET Channels]]

\* The times of admission are in order.
Ordered ==
    /\ \A i \in 1..Len(admitted) : admitted[i] <= now
    /\ \A i, j \in 1..Len(admitted) : i <= j => admitted[i] <= admitted[j]

\* A window holds the latest admissions, and those it has dropped are over.
Latest(w, d) ==
    /\ Len(w) <= Len(admitted)
    /\ \A i \in 1..Len(w) : w[i] = admitted[Len(admitted) - Len(w) + i]
    /\ \A i \in 1..(Len(admitted) - Len(w)) : admitted[i] < now - d

\* Two admissions that are n apart are more than d apart in time.
Spaced(n, d) ==
    n > 0 => \A i \in (n + 1)..Len(admitted) : admitted[i - n] < admitted[i] - d

LimiterInv ==
    /\ Ordered /\ Latest(minuteWindow, Minute) /\ Latest(hourWindow, Hour)
    /\ Spaced(MaxPerMinute, Minute) /\ Spaced(MaxPerHour, Hour) /\ Spaced(BurstSize, Burst)

\* A broadcast calls registered channels only, and who has not begun to send has none to call.
SenderInv ==
    \A s \in Senders : /\ sender[s].pc \in {"idle", "filter"} => sender[s].todo = {}
                       /\ sender[s].pc = "broadcast" => sender[s].todo \subseteq alerters

AlertInv == AlertTypes /\ LimiterInv /\ SenderInv

\* Cleaning a window up keeps it the latest admissions.
LEMMA TrimLatest ==
    ASSUME AlertTypes, NEW w \in Seq(Nat), NEW d \in Nat, Latest(w, d)
    PROVE  Trim(w, d) \in Seq(Nat) /\ Latest(Trim(w, d), d)
  <1> DEFINE n == Stale(w, now - d)
             t == Trim(w, d)
             A == Len(admitted)
             L == Len(w)
  <1>0. now - d \in Int /\ A \in Nat /\ L \in Nat /\ \A i \in 1..A : admitted[i] \in Nat
    BY DEF AlertTypes
  <1>1. n \in 0..L /\ \A j \in 1..n : w[j] < now - d
    BY <1>0, StaleStops
  <1>2. t = SubSeq(w, n + 1, L)
    BY DEF Trim
  <1> HIDE DEF n, t
  <1>3. /\ t \in Seq(Nat) /\ Len(t) = L - n
        /\ \A i \in 1..(L - n) : t[i] = w[n + i]
    <2>1. \A i \in (n + 1)..L : w[i] \in Nat
      BY <1>1
    <2>2. n + 1 \in Int /\ L \in Int
      BY <1>1
    <2>3. /\ SubSeq(w, n + 1, L) \in Seq(Nat)
          /\ Len(SubSeq(w, n + 1, L)) = IF n + 1 <= L THEN L - (n + 1) + 1 ELSE 0
          /\ \A i \in 1..(L - (n + 1) + 1) : SubSeq(w, n + 1, L)[i] = w[(n + 1) + i - 1]
      BY <2>1, <2>2, SubSeqProperties
    <2> QED
      BY <1>1, <1>2, <2>3
  <1>l. /\ L <= A /\ \A i \in 1..L : w[i] = admitted[A - L + i]
        /\ \A i \in 1..(A - L) : admitted[i] < now - d
    BY DEF Latest
  <1> HIDE DEF A, L
  <1>4. Len(t) <= A
    BY <1>0, <1>1, <1>3, <1>l
  <1>5. \A i \in 1..Len(t) : t[i] = admitted[A - Len(t) + i]
    <2> TAKE i \in 1..Len(t)
    <2>1. n + i \in 1..L /\ A - L + (n + i) = A - Len(t) + i
      BY <1>0, <1>1, <1>3
    <2> QED
      BY <1>3, <1>l, <2>1
  <1>6. \A i \in 1..(A - Len(t)) : admitted[i] < now - d
    <2> TAKE i \in 1..(A - Len(t))
    <2>1. CASE i <= A - L
      BY <1>0, <1>l, <2>1
    <2>2. CASE i > A - L
      <3>1. i - (A - L) \in 1..n /\ i - (A - L) \in 1..L /\ A - L + (i - (A - L)) = i
        BY <1>0, <1>1, <1>3, <2>2
      <3> QED
        BY <1>1, <1>l, <3>1
    <2> QED
      BY <1>0, <2>1, <2>2
  <1> QED
    BY <1>3, <1>4, <1>5, <1>6 DEF Latest, A, t

\* Adding the time of an admission to a window and to the history keeps the window the latest.
LEMMA AppendLatest ==
    ASSUME AlertTypes, NEW w \in Seq(Nat), NEW d \in Nat, Latest(w, d), now' = now,
           admitted' = Append(admitted, now)
    PROVE  LET x == Append(w, now) IN
           /\ Len(x) <= Len(admitted')
           /\ \A i \in 1..Len(x) : x[i] = admitted'[Len(admitted') - Len(x) + i]
           /\ \A i \in 1..(Len(admitted') - Len(x)) : admitted'[i] < now' - d
  <1> DEFINE x == Append(w, now)
  <1>0. now \in Nat /\ admitted \in Seq(Nat) /\ Len(admitted) \in Nat /\ Len(w) \in Nat
    BY DEF AlertTypes
  <1>1. /\ Len(x) = Len(w) + 1 /\ Len(admitted') = Len(admitted) + 1
        /\ \A i \in 1..Len(w) : x[i] = w[i]
        /\ \A i \in 1..Len(admitted) : admitted'[i] = admitted[i]
        /\ x[Len(w) + 1] = now /\ admitted'[Len(admitted) + 1] = now
    BY <1>0
  <1>2. /\ Len(w) <= Len(admitted) /\ \A i \in 1..Len(w) : w[i] = admitted[Len(admitted) - Len(w) + i]
        /\ \A i \in 1..(Len(admitted) - Len(w)) : admitted[i] < now - d
    BY DEF Latest
  <1> DEFINE A == Len(admitted)
             L == Len(w)
  <1> HIDE DEF A, L, x
  <1>3. \A i \in 1..(L + 1) : x[i] = admitted'[A - L + i]
    <2> TAKE i \in 1..(L + 1)
    <2>1. CASE i = L + 1
      <3>1. A - L + i = A + 1
        BY <1>0, <2>1 DEF A, L
      <3> QED
        BY <1>1, <2>1, <3>1 DEF A, L
    <2>2. CASE i # L + 1
      <3>1. i \in 1..L /\ A - L + i \in 1..A
        BY <1>0, <1>2, <2>2 DEF A, L
      <3> QED
        BY <1>1, <1>2, <3>1 DEF A, L
    <2> QED
      BY <2>1, <2>2
  <1>4. \A i \in 1..(A - L) : i \in 1..A
    BY <1>0 DEF A, L
  <1>5. (A + 1) - (L + 1) = A - L /\ L + 1 <= A + 1
    BY <1>0, <1>2 DEF A, L
  <1>6. Len(x) <= Len(admitted')
    BY <1>1, <1>5 DEF A, L
  <1>7. \A i \in 1..Len(x) : x[i] = admitted'[Len(admitted') - Len(x) + i]
    BY <1>1, <1>3, <1>5 DEF A, L
  <1>8. \A i \in 1..(Len(admitted') - Len(x)) : admitted'[i] < now' - d
    BY <1>1, <1>2, <1>4, <1>5 DEF A, L
  <1> QED
    BY <1>6, <1>7, <1>8 DEF x

\* An admission that leaves its limit room is far enough from the one n before it.
LEMMA AppendSpaced ==
    ASSUME AlertTypes, NEW n \in Nat, NEW d \in Nat, Spaced(n, d), admitted' = Append(admitted, now),
           n > 0 /\ n <= Len(admitted) => admitted[Len(admitted) + 1 - n] < now - d
    PROVE  n > 0 => \A i \in (n + 1)..Len(admitted') : admitted'[i - n] < admitted'[i] - d
  <1>0. now \in Nat /\ admitted \in Seq(Nat) /\ Len(admitted) \in Nat
    BY DEF AlertTypes
  <1>1. /\ Len(admitted') = Len(admitted) + 1
        /\ \A i \in 1..Len(admitted) : admitted'[i] = admitted[i]
        /\ admitted'[Len(admitted) + 1] = now
    BY <1>0
  <1> DEFINE A == Len(admitted)
  <1>a. A \in Nat
    BY <1>0
  <1> HIDE DEF A
  <1> SUFFICES ASSUME n > 0, NEW i \in (n + 1)..(A + 1)
               PROVE  admitted'[i - n] < admitted'[i] - d
    BY <1>1 DEF A
  <1>2. i - n \in 1..A
    BY <1>a
  <1>3. CASE i = A + 1
    BY <1>a, <1>1, <1>2, <1>3 DEF A
  <1>4. CASE i # A + 1
    <2>1. i \in 1..A /\ i \in (n + 1)..A
      BY <1>a, <1>4
    <2> QED
      BY <1>1, <1>2, <2>1 DEF A, Spaced
  <1> QED
    BY <1>3, <1>4

\* Allow says yes.
LEMMA AllowKeeps ==
    ASSUME AlertTypes, LimiterInv, Allow, now' = now
    PROVE  /\ minuteWindow' \in Seq(Nat) /\ hourWindow' \in Seq(Nat) /\ admitted' \in Seq(Nat)
           /\ LimiterInv'
  <1> DEFINE m == Trim(minuteWindow, Minute)
             h == Trim(hourWindow, Hour)
             A == Len(admitted)
  <1>1. /\ Under(Len(m), MaxPerMinute) /\ Under(Len(h), MaxPerHour) /\ Under(countRecent(m), BurstSize)
        /\ minuteWindow' = Append(m, now) /\ hourWindow' = Append(h, now)
        /\ admitted' = Append(admitted, now)
    BY DEF Allow
  <1>c. /\ Burst \in Nat /\ Minute \in Nat /\ Hour \in Nat /\ BurstSize \in Nat /\ MaxPerMinute \in Nat
        /\ MaxPerHour \in Nat /\ Burst < Minute /\ Minute < Hour
    BY AlertAssumption
  <1>t. now \in Nat /\ minuteWindow \in Seq(Nat) /\ hourWindow \in Seq(Nat) /\ admitted \in Seq(Nat)
    BY DEF AlertTypes
  <1>2. m \in Seq(Nat) /\ Latest(m, Minute) /\ h \in Seq(Nat) /\ Latest(h, Hour)
    BY <1>c, <1>t, TrimLatest DEF LimiterInv
  <1>3. countRecent(m) \in 0..Len(m) /\ (countRecent(m) < Len(m) => m[Len(m) - countRecent(m)] < now - Burst)
    BY <1>2, <1>t, RecentStops
  <1> HIDE DEF m, h
  <1>4. minuteWindow' \in Seq(Nat) /\ hourWindow' \in Seq(Nat) /\ admitted' \in Seq(Nat)
    BY <1>1, <1>2, <1>t
  <1>5. Latest(minuteWindow, Minute)' /\ Latest(hourWindow, Hour)'
    <2>1. Latest(minuteWindow, Minute)'
      <3>1. LET x == Append(m, now) IN
            /\ Len(x) <= Len(admitted')
            /\ \A i \in 1..Len(x) : x[i] = admitted'[Len(admitted') - Len(x) + i]
            /\ \A i \in 1..(Len(admitted') - Len(x)) : admitted'[i] < now' - Minute
        BY <1>1, <1>2, <1>c, AppendLatest
      <3> QED
        BY <1>1, <3>1 DEF Latest
    <2>2. Latest(hourWindow, Hour)'
      <3>1. LET x == Append(h, now) IN
            /\ Len(x) <= Len(admitted')
            /\ \A i \in 1..Len(x) : x[i] = admitted'[Len(admitted') - Len(x) + i]
            /\ \A i \in 1..(Len(admitted') - Len(x)) : admitted'[i] < now' - Hour
        BY <1>1, <1>2, <1>c, AppendLatest
      <3> QED
        BY <1>1, <3>1 DEF Latest
    <2> QED
      BY <2>1, <2>2
  <1>6. Ordered'
    <2>1. /\ Len(admitted') = A + 1 /\ A \in Nat
          /\ \A i \in 1..A : admitted'[i] = admitted[i] /\ admitted[i] \in Nat
          /\ admitted'[A + 1] = now
      BY <1>1, <1>t
    <2>2. \A i \in 1..A : admitted[i] <= now /\ \A j \in 1..A : i <= j => admitted[i] <= admitted[j]
      BY DEF LimiterInv, Ordered
    <2> HIDE DEF A
    <2>3. \A i \in 1..(A + 1) : i \in 1..A \/ i = A + 1
      BY <2>1
    <2>4. \A i \in 1..(A + 1) : admitted'[i] <= now
      <3> TAKE i \in 1..(A + 1)
      <3>1. CASE i = A + 1
        BY <2>1, <1>t, <3>1
      <3>2. CASE i \in 1..A
        BY <2>1, <2>2, <3>2
      <3> QED
        BY <2>3, <3>1, <3>2
    <2>5. \A i, j \in 1..(A + 1) : i <= j => admitted'[i] <= admitted'[j]
      <3> SUFFICES ASSUME NEW i \in 1..(A + 1), NEW j \in 1..(A + 1), i <= j
                   PROVE  admitted'[i] <= admitted'[j]
        OBVIOUS
      <3>1. CASE j = A + 1
        BY <2>1, <2>4, <3>1
      <3>2. CASE j # A + 1
        <4>1. i \in 1..A /\ j \in 1..A
          BY <2>1, <3>2
        <4> QED
          BY <2>1, <2>2, <4>1
      <3> QED
        BY <3>1, <3>2
    <2> QED
      BY <2>1, <2>4, <2>5 DEF Ordered
  <1>a. A \in Nat /\ Len(m) \in Nat /\ Len(h) \in Nat
    BY <1>2, <1>t
  <1>m. /\ Len(m) <= A /\ \A i \in 1..Len(m) : m[i] = admitted[A - Len(m) + i]
        /\ \A i \in 1..(A - Len(m)) : admitted[i] < now - Minute
    BY <1>2 DEF Latest
  <1>h. \A i \in 1..(A - Len(h)) : admitted[i] < now - Hour
    BY <1>2 DEF Latest
  <1>7. Spaced(MaxPerMinute, Minute)'
    <2>1. MaxPerMinute > 0 /\ MaxPerMinute <= A => admitted[A + 1 - MaxPerMinute] < now - Minute
      <3>1. SUFFICES ASSUME MaxPerMinute > 0, MaxPerMinute <= A
                     PROVE  A + 1 - MaxPerMinute \in 1..(A - Len(m))
        BY <1>m
      <3> QED
        BY <1>1, <1>a, <1>c, <3>1 DEF Under
    <2>2. Spaced(MaxPerMinute, Minute)
      BY DEF LimiterInv
    <2> QED
      BY <1>1, <1>c, <2>1, <2>2, AppendSpaced DEF Spaced, A
  <1>8. Spaced(MaxPerHour, Hour)'
    <2>1. MaxPerHour > 0 /\ MaxPerHour <= A => admitted[A + 1 - MaxPerHour] < now - Hour
      <3>1. SUFFICES ASSUME MaxPerHour > 0, MaxPerHour <= A
                     PROVE  A + 1 - MaxPerHour \in 1..(A - Len(h))
        BY <1>h
      <3> QED
        BY <1>1, <1>a, <1>c, <3>1 DEF Under
    <2>2. Spaced(MaxPerHour, Hour)
      BY DEF LimiterInv
    <2> QED
      BY <1>1, <1>c, <2>1, <2>2, AppendSpaced DEF Spaced, A
  <1>9. Spaced(BurstSize, Burst)'
    <2> DEFINE k == countRecent(m)
               x == A + 1 - BurstSize
    <2>1. BurstSize > 0 /\ BurstSize <= A => admitted[x] < now - Burst
      <3> SUFFICES ASSUME BurstSize > 0, BurstSize <= A PROVE admitted[x] < now - Burst
        OBVIOUS
      <3>1. k \in 0..Len(m) /\ (k < Len(m) => m[Len(m) - k] < now - Burst) /\ k < BurstSize
        BY <1>1, <1>3 DEF Under
      <3> HIDE DEF k
      <3>2. x \in 1..A /\ x <= A - k
        BY <1>a, <1>c, <3>1
      <3>e. admitted[x] \in Nat
        BY <1>t, <3>2
      <3>3. CASE k = Len(m)
        <4>1. x \in 1..(A - Len(m))
          BY <1>a, <3>2, <3>3
        <4>2. admitted[x] < now - Minute
          BY <1>m, <4>1
        <4> QED
          BY <1>c, <1>t, <3>e, <4>2
      <3>4. CASE k < Len(m)
        <4>1. Len(m) - k \in 1..Len(m) /\ A - Len(m) + (Len(m) - k) = A - k /\ A - k \in 1..A
          BY <1>a, <1>m, <3>1, <3>4
        <4>2. admitted[A - k] < now - Burst
          BY <1>m, <3>1, <3>4, <4>1
        <4>3. admitted[x] <= admitted[A - k]
          BY <3>2, <4>1 DEF LimiterInv, Ordered
        <4>4. admitted[A - k] \in Nat
          BY <1>t, <4>1
        <4> QED
          BY <1>c, <1>t, <3>e, <4>2, <4>3, <4>4
      <3> QED
        BY <1>a, <3>1, <3>3, <3>4
    <2>2. Spaced(BurstSize, Burst)
      BY DEF LimiterInv
    <2> QED
      BY <1>1, <1>c, <2>1, <2>2, AppendSpaced DEF Spaced, A
  <1> QED
    BY <1>4, <1>5, <1>6, <1>7, <1>8, <1>9 DEF LimiterInv

\* Allow says no: a window is cleaned up at most.
LEMMA DenyKeeps ==
    ASSUME AlertTypes, LimiterInv, Deny, now' = now
    PROVE  /\ minuteWindow' \in Seq(Nat) /\ hourWindow' \in Seq(Nat) /\ admitted' \in Seq(Nat)
           /\ LimiterInv'
  <1>1. /\ minuteWindow' \in {minuteWindow, Trim(minuteWindow, Minute)}
        /\ hourWindow' \in {hourWindow, Trim(hourWindow, Hour)} /\ admitted' = admitted
    BY DEF Deny
  <1>2. /\ minuteWindow \in Seq(Nat) /\ hourWindow \in Seq(Nat) /\ admitted \in Seq(Nat)
        /\ Minute \in Nat /\ Hour \in Nat
    BY AlertAssumption DEF AlertTypes
  <1>3. /\ Trim(minuteWindow, Minute) \in Seq(Nat) /\ Latest(Trim(minuteWindow, Minute), Minute)
        /\ Trim(hourWindow, Hour) \in Seq(Nat) /\ Latest(Trim(hourWindow, Hour), Hour)
    BY <1>2, TrimLatest DEF LimiterInv
  <1>4. Latest(minuteWindow, Minute)'
    BY <1>1, <1>3 DEF Latest, LimiterInv
  <1>5. Latest(hourWindow, Hour)'
    BY <1>1, <1>3 DEF Latest, LimiterInv
  <1>6. /\ Ordered' /\ Spaced(MaxPerMinute, Minute)' /\ Spaced(MaxPerHour, Hour)'
        /\ Spaced(BurstSize, Burst)'
    BY <1>1 DEF Ordered, Spaced, LimiterInv
  <1> QED
    BY <1>1, <1>2, <1>3, <1>4, <1>5, <1>6 DEF LimiterInv

\* What LimiterInv says of the limits: over any time d no more than n are admitted.
LEMMA SpacedBounds ==
    ASSUME AlertTypes, Ordered, NEW n \in Nat \ {0}, NEW d \in Nat, Spaced(n, d), NEW f \in Nat
    PROVE  Within(f, d) <= n
  <1> DEFINE S == {i \in 1..Len(admitted) : admitted[i] \in f..(f + d)}
  <1>0. S \subseteq Nat /\ Len(admitted) \in Nat /\ \A i \in 1..Len(admitted) : admitted[i] \in Nat
    BY DEF AlertTypes
  <1>1. CASE S = {}
    <2>1. Cardinality(S) = 0
      BY <1>1, FS_EmptySet
    <2> QED
      BY <2>1 DEF Within
  <1>2. CASE S # {}
    <2>1. PICK lo \in S : \A i \in S : lo <= i
      BY <1>0, <1>2, Least
    <2>2. \A i \in S : i \in lo..(lo + n - 1)
      <3> SUFFICES ASSUME NEW i \in S, i >= lo + n PROVE FALSE
        BY <1>0, <2>1
      <3>1. /\ i \in 1..Len(admitted) /\ lo \in 1..Len(admitted) /\ admitted[i] <= f + d /\ f <= admitted[lo]
            /\ admitted[i] \in Nat /\ admitted[lo] \in Nat
        BY <1>0
      <3>2. i - n \in 1..Len(admitted) /\ lo <= i - n /\ i \in (n + 1)..Len(admitted)
        BY <1>0, <3>1
      <3>3. admitted[i - n] < admitted[i] - d /\ admitted[lo] <= admitted[i - n] /\ admitted[i - n] \in Nat
        BY <1>0, <3>1, <3>2 DEF Spaced, Ordered
      <3> QED
        BY <3>1, <3>3
    <2>3. lo \in Int /\ lo + n - 1 \in Int /\ lo <= lo + n - 1
      BY <1>0
    <2> HIDE DEF S
    <2>4. IsFiniteSet(lo..(lo + n - 1)) /\ Cardinality(lo..(lo + n - 1)) = n
      BY <2>3, FS_Interval
    <2>5. S \in SUBSET (lo..(lo + n - 1))
      BY <2>2
    <2>6. Cardinality(S) <= n
      BY <2>4, <2>5, FS_Subset
    <2> QED
      BY <2>6 DEF Within, S
  <1> QED
    BY <1>1, <1>2

LEMMA AlertStart == AlertInit => AlertInv
  <1> SUFFICES ASSUME AlertInit PROVE AlertInv
    OBVIOUS
  <1>1. AlertTypes
    BY DEF AlertInit, AlertTypes, Calm
  <1>2. LimiterInv
    <2>1. Len(admitted) = 0 /\ Len(minuteWindow) = 0 /\ Len(hourWindow) = 0
      BY DEF AlertInit
    <2>2. Ordered /\ Latest(minuteWindow, Minute) /\ Latest(hourWindow, Hour)
      BY <2>1 DEF Ordered, Latest
    <2>3. Spaced(MaxPerMinute, Minute) /\ Spaced(MaxPerHour, Hour) /\ Spaced(BurstSize, Burst)
      BY <2>1, AlertAssumption DEF Spaced
    <2> QED
      BY <2>2, <2>3 DEF LimiterInv
  <1>3. SenderInv
    BY DEF AlertInit, SenderInv, Calm
  <1> QED
    BY <1>1, <1>2, <1>3 DEF AlertInv

\* A step of a sender or of the set of channels leaves the limiter alone.
LEMMA SendKeeps ==
    ASSUME AlertInv, NEW s \in Senders,
           Denied(s) \/ Broadcast(s) \/ Sent(s) \/ \E c \in Channels : Redirect(s, c) \/ Delivered(s, c)
    PROVE  AlertInv'
  <1> USE DEF AlertInv
  <1> DEFINE States == [pc : {"idle", "filter", "broadcast", "redirect"}, todo : SUBSET Channels]
  <1>1. UNCHANGED <<now, minuteWindow, hourWindow, admitted, alerters>>
    BY DEF Denied, Broadcast, Sent, Redirect, Delivered
  <1>2. sender \in [Senders -> States] /\ alerters \subseteq Channels
    BY DEF AlertTypes
  <1> DEFINE Fine(x) == /\ sender' = [sender EXCEPT ![s] = x]
                        /\ x.pc \in {"idle", "filter"} => x.todo = {}
                        /\ x.pc = "broadcast" => x.todo \subseteq alerters
  <1>c. Calm \in States /\ Calm.todo = {} /\ Calm.pc = "idle"
    BY DEF Calm
  <1>3. PICK x \in States : Fine(x)
    <2>1. CASE Denied(s) \/ Sent(s)
      <3>1. Fine(Calm)
        BY <1>c, <2>1 DEF Denied, Sent
      <3> QED
        BY <1>c, <3>1
    <2>2. CASE Broadcast(s)
      <3> DEFINE x == [pc |-> "broadcast", todo |-> alerters]
      <3>1. x \in States /\ x.pc = "broadcast" /\ x.todo = alerters
        BY <1>2
      <3>2. sender' = [sender EXCEPT ![s] = x]
        BY <2>2 DEF Broadcast
      <3> HIDE DEF x, States
      <3> QED
        BY <3>1, <3>2
    <2>3. ASSUME NEW c \in Channels, Redirect(s, c) PROVE \E x \in States : Fine(x)
      <3> DEFINE x == [pc |-> "redirect", todo |-> {c}]
      <3>1. x \in States /\ x.pc = "redirect"
        OBVIOUS
      <3>2. sender' = [sender EXCEPT ![s] = x] \/ sender' = [sender EXCEPT ![s] = Calm]
        BY <2>3 DEF Redirect
      <3> HIDE DEF x, States
      <3>3. Fine(x) \/ Fine(Calm)
        BY <1>c, <3>1, <3>2
      <3> HIDE DEF Fine
      <3> QED
        BY <1>c, <3>1, <3>3
    <2>4. ASSUME NEW c \in Channels, Delivered(s, c) PROVE \E x \in States : Fine(x)
      <3> DEFINE x == [sender[s] EXCEPT !.todo = @ \ {c}]
      <3>1. sender' = [sender EXCEPT ![s] = x]
        BY <2>4 DEF Delivered
      <3>2. sender[s] \in States
        BY <1>2
      <3>3. x \in States /\ x.pc = sender[s].pc /\ x.todo = sender[s].todo \ {c}
        BY <3>2
      <3>4. /\ sender[s].pc \in {"idle", "filter"} => sender[s].todo = {}
            /\ sender[s].pc = "broadcast" => sender[s].todo \subseteq alerters
        BY DEF SenderInv
      <3> HIDE DEF x, States
      <3> QED
        BY <3>1, <3>3, <3>4
    <2> QED
      BY <2>1, <2>2, <2>3, <2>4
  <1>4. sender' \in [Senders -> States] /\ sender'[s] = x /\ \A r \in Senders \ {s} : sender'[r] = sender[r]
    BY <1>2, <1>3
  <1>5. AlertTypes'
    BY <1>1, <1>4 DEF AlertTypes
  <1>6. SenderInv'
    BY <1>1, <1>3, <1>4 DEF SenderInv
  <1>7. LimiterInv'
    BY <1>1 DEF LimiterInv, Ordered, Latest, Spaced
  <1> QED
    BY <1>5, <1>6, <1>7

\* AlertInv holds of every behaviour, for any channels, senders, limits and durations.
THEOREM AlertInvariance == AlertSpec => []AlertInv
  <1>1. AlertInv /\ [AlertNext]_alertVars => AlertInv'
    <2> SUFFICES ASSUME AlertInv, [AlertNext]_alertVars PROVE AlertInv'
      OBVIOUS
    <2> USE DEF AlertInv
    <2>1. CASE Advance
      <3>1. now' = now + 1 /\ UNCHANGED <<minuteWindow, hourWindow, admitted, alerters, sender>> /\ now \in Nat
        BY <2>1 DEF Advance, AlertTypes
      <3>2. \A i \in 1..Len(admitted) : admitted[i] \in Nat
        BY DEF AlertTypes
      <3>3. AlertTypes' /\ SenderInv'
        BY <3>1 DEF AlertTypes, SenderInv
      <3>4. Ordered' /\ Spaced(MaxPerMinute, Minute)' /\ Spaced(MaxPerHour, Hour)' /\ Spaced(BurstSize, Burst)'
        BY <3>1, <3>2 DEF LimiterInv, Ordered, Spaced
      <3>5. \A d \in Nat, i \in 1..Len(admitted) : admitted[i] < now - d => admitted[i] < now' - d
        BY <3>1, <3>2
      <3>6. Minute \in Nat /\ Hour \in Nat /\ Len(admitted) \in Nat /\ Len(minuteWindow) \in Nat /\ Len(hourWindow) \in Nat
        BY AlertAssumption DEF AlertTypes
      <3>7. Latest(minuteWindow, Minute)'
        <4>1. Latest(minuteWindow, Minute)
          BY DEF LimiterInv
        <4>2. \A i \in 1..(Len(admitted) - Len(minuteWindow)) : i \in 1..Len(admitted)
          BY <3>6
        <4> QED
          BY <3>1, <3>5, <3>6, <4>1, <4>2 DEF Latest
      <3>8. Latest(hourWindow, Hour)'
        <4>1. Latest(hourWindow, Hour)
          BY DEF LimiterInv
        <4>2. \A i \in 1..(Len(admitted) - Len(hourWindow)) : i \in 1..Len(admitted)
          BY <3>6
        <4> QED
          BY <3>1, <3>5, <3>6, <4>1, <4>2 DEF Latest
      <3> QED
        BY <3>3, <3>4, <3>7, <3>8 DEF LimiterInv
    <2>2. ASSUME NEW s \in Senders, Admit(s) PROVE AlertInv'
      <3>1. Allow /\ UNCHANGED <<now, alerters>> /\ sender[s] = Calm /\ sender' = [sender EXCEPT ![s].pc = "filter"]
        BY <2>2 DEF Admit
      <3>2. /\ minuteWindow' \in Seq(Nat) /\ hourWindow' \in Seq(Nat) /\ admitted' \in Seq(Nat)
            /\ LimiterInv'
        BY <3>1, AllowKeeps
      <3>3. /\ sender' \in [Senders -> [pc : {"idle", "filter", "broadcast", "redirect"}, todo : SUBSET Channels]]
            /\ sender'[s].pc = "filter" /\ sender'[s].todo = {}
            /\ \A r \in Senders \ {s} : sender'[r] = sender[r]
        <4>1. [Calm EXCEPT !.pc = "filter"] = [pc |-> "filter", todo |-> {}]
          BY DEF Calm
        <4>2. sender' = [sender EXCEPT ![s] = [sender[s] EXCEPT !.pc = "filter"]]
          BY <3>1
        <4>3. sender' = [sender EXCEPT ![s] = [pc |-> "filter", todo |-> {}]]
          BY <3>1, <4>1, <4>2
        <4> QED
          BY <4>3 DEF AlertTypes
      <3>4. AlertTypes'
        BY <3>1, <3>2, <3>3 DEF AlertTypes
      <3>5. SenderInv'
        BY <3>1, <3>3 DEF SenderInv
      <3> QED
        BY <3>2, <3>4, <3>5
    <2>3. ASSUME NEW s \in Senders, Limited(s) PROVE AlertInv'
      <3>1. Deny /\ UNCHANGED <<now, alerters, sender>>
        BY <2>3 DEF Limited
      <3>2. /\ minuteWindow' \in Seq(Nat) /\ hourWindow' \in Seq(Nat) /\ admitted' \in Seq(Nat)
            /\ LimiterInv'
        BY <3>1, DenyKeeps
      <3>3. AlertTypes' /\ SenderInv'
        BY <3>1, <3>2 DEF AlertTypes, SenderInv
      <3> QED
        BY <3>2, <3>3
    <2>4. ASSUME NEW c \in Channels, RegisterAlerter(c) \/ UnregisterAlerter(c) PROVE AlertInv'
      <3>1. /\ ~Reading /\ alerters' \in {alerters \cup {c}, alerters \ {c}}
            /\ UNCHANGED <<now, minuteWindow, hourWindow, admitted, sender>>
        BY <2>4 DEF RegisterAlerter, UnregisterAlerter
      <3>2. AlertTypes'
        BY <3>1 DEF AlertTypes
      <3>3. SenderInv'
        BY <3>1 DEF SenderInv, Reading
      <3>4. LimiterInv'
        BY <3>1 DEF LimiterInv, Ordered, Latest, Spaced
      <3> QED
        BY <3>2, <3>3, <3>4
    <2>5. ASSUME NEW s \in Senders, Denied(s) \/ Broadcast(s) \/ Sent(s) PROVE AlertInv'
      BY <2>5, SendKeeps
    <2>6. ASSUME NEW s \in Senders, NEW c \in Channels, Redirect(s, c) \/ Delivered(s, c) PROVE AlertInv'
      BY <2>6, SendKeeps
    <2>7. CASE UNCHANGED alertVars
      BY <2>7 DEF alertVars, AlertTypes, LimiterInv, SenderInv, Ordered, Latest, Spaced
    <2> QED
      BY <2>1, <2>2, <2>3, <2>4, <2>5, <2>6, <2>7 DEF AlertNext
  <1> QED
    BY <1>1, AlertStart, PTL DEF AlertSpec

\* Over any minute, hour and ten seconds no more alerts pass than the limits allow, although a
\* window is trimmed as it is read and the burst is counted in the minute's window
\* (alert_manager.go, RateLimiter.Allow).
THEOREM AlertLimit == AlertSpec => []AlertLimitHeld
  <1>1. AlertInv => AlertLimitHeld
    <2> SUFFICES ASSUME AlertInv, NEW f \in 0..now
                 PROVE  /\ MaxPerMinute > 0 => Within(f, Minute) <= MaxPerMinute
                        /\ MaxPerHour > 0 => Within(f, Hour) <= MaxPerHour
                        /\ BurstSize > 0 => Within(f, Burst) <= BurstSize
      BY DEF AlertLimitHeld
    <2>1. /\ AlertTypes /\ Ordered /\ Spaced(MaxPerMinute, Minute) /\ Spaced(MaxPerHour, Hour)
          /\ Spaced(BurstSize, Burst) /\ f \in Nat
      BY DEF AlertInv, LimiterInv, AlertTypes
    <2>2. /\ Burst \in Nat /\ Minute \in Nat /\ Hour \in Nat /\ BurstSize \in Nat /\ MaxPerMinute \in Nat
          /\ MaxPerHour \in Nat
      BY AlertAssumption
    <2>3. MaxPerMinute > 0 => Within(f, Minute) <= MaxPerMinute
      BY <2>1, <2>2, SpacedBounds
    <2>4. MaxPerHour > 0 => Within(f, Hour) <= MaxPerHour
      BY <2>1, <2>2, SpacedBounds
    <2>5. BurstSize > 0 => Within(f, Burst) <= BurstSize
      BY <2>1, <2>2, SpacedBounds
    <2> QED
      BY <2>3, <2>4, <2>5
  <1> QED
    BY <1>1, AlertInvariance, PTL

\* A broadcast calls no channel that UnregisterAlerter has removed (alert_manager.go, Send).
THEOREM AlertSilence == AlertSpec => []UnregisteredIsSilent
  <1>1. AlertInv => UnregisteredIsSilent
    BY DEF AlertInv, AlertTypes, SenderInv, UnregisteredIsSilent
  <1> QED
    BY <1>1, AlertInvariance, PTL

=============================================================================
