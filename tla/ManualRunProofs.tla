-------------------------- MODULE ManualRunProofs --------------------------
(***************************************************************************)
(* The immediate runs that edits start, for every value of the constants:  *)
(* never more than the edits and the faults account for.                   *)
(***************************************************************************)
EXTENDS JobHistoryProofs, FiniteSetTheorems

\* The immediate runs ever started.
Manual(js) == {j \in DOMAIN js : js[j].by = "manual"}

Runs == Cardinality(Manual(jobs))

\* An update that has yet to start its run, or has just been through it.
Due == op = "update" /\ pc \in Building \ {"record"}

Started == op = "update" /\ pc = "record"

One(event) == IF event THEN 1 ELSE 0

Greatest(a, b) == IF a >= b THEN a ELSE b

\* A rebuild is a create or an update, and only an update deletes a CronJob and
\* starts a run.  The cache and the worker's copy never know of an
\* acknowledgement before the status has it.
RebuildInv ==
    /\ pc \in Building => op \in {"create", "update"}
    /\ pc \in {"delete", "check", "trigger"} => op = "update"
    /\ pc \in Building /\ op = "update" => ~Reconciled(bk)
    /\ backup.state # "absent" =>
           /\ cBackup.obs <= backup.obs
           /\ pc \in Holding => bk.obs <= backup.obs

\* Every run is paid for by an edit or by a fault, the one that is due too.
TotalInv == Runs + One(Due) <= Len(manifest) - 1 + faults

\* While there is a Backup, the runs are paid for by the generations its status
\* acknowledges, of which the first starts none.
PaidInv ==
    backup.state # "absent" =>
        Runs + 1 <= Greatest(backup.obs, 1) + faults + One(Started)

\* One run more is due only for a generation beyond those.
DueInv ==
    backup.state # "absent" =>
        /\ Due => Runs + 2 <= bk.gen + faults
        /\ Started => Runs + 1 <= bk.gen + faults

\* Nothing was acknowledged and a CronJob exists only if a fault kept a rebuild
\* from its end.
BrokenOffInv ==
    backup.state # "absent" /\ backup.obs = 0 =>
        /\ pc # "record" /\ (cron.state # "absent" \/ Due) => Runs + 1 <= faults
        /\ Started => Runs <= faults

AcknowledgedInv == PaidInv /\ DueInv /\ BrokenOffInv

RunsInv == RebuildInv /\ TotalInv /\ AcknowledgedInv

\* A copy of the Backup that shows an unacknowledged generation, taken while a
\* CronJob is there, may start a run: it is paid for before the worker reads
\* the CronJob and finds that it has to.
ReadyInv ==
    pc = "route" /\ cron.state # "absent" /\ ~Reconciled(bk) =>
        /\ Runs + 2 <= Len(manifest) + faults
        /\ backup.state # "absent" => Runs + 2 <= bk.gen + faults
-----------------------------------------------------------------------------
(* How the number of runs changes.                                         *)

LEMMA ManualFinite ==
    ASSUME NEW js \in Seq(Job)
    PROVE  IsFiniteSet(Manual(js)) /\ Cardinality(Manual(js)) \in Nat
<1>1. Len(js) \in Nat /\ DOMAIN js = 1 .. Len(js)
  BY LenProperties
<1>2. IsFiniteSet(DOMAIN js) /\ Manual(js) \in SUBSET DOMAIN js
  BY <1>1, FS_Interval DEF Manual
<1> QED
  BY <1>2, FS_Subset, FS_CardinalityType

\* Only triggerManualBackupJob starts a run, and it starts one.
LEMMA RunsSteps ==
    ASSUME TypeOK, TypeOK', [Next]_vars
    PROVE  /\ Runs \in Nat /\ Runs' \in Nat
           /\ Runs' = Runs \/ (triggerManualBackupJob /\ Runs' <= Runs + 1)
<1>1. jobs \in Seq(Job) /\ jobs' \in Seq(Job)
  BY DEF TypeOK, ClusterTypeOK
<1>2. Runs \in Nat /\ Runs' \in Nat /\ IsFiniteSet(Manual(jobs))
  BY <1>1, ManualFinite DEF Runs
<1>3. CASE ScheduleJob \/ ForeignJob \/ triggerManualBackupJob
  <2>1. PICK job \in Job : JobAdded(job) /\ (job.by = "manual" => triggerManualBackupJob)
    BY <1>3, JobsCreated
  <2>2. /\ Names' = Names \cup {Len(jobs) + 1}
        /\ \A j \in Names : jobs'[j] = jobs[j]
        /\ jobs'[Len(jobs) + 1] = job
    BY <2>1, JobsMore
  <2>3. CASE job.by = "manual"
    <3>1. Manual(jobs') = Manual(jobs) \cup {Len(jobs) + 1}
      BY <2>2, <2>3 DEF Manual, Names
    <3>2. Cardinality(Manual(jobs')) \in {Cardinality(Manual(jobs)), Cardinality(Manual(jobs)) + 1}
      BY <1>2, <3>1, FS_AddElement
    <3> QED
      BY <1>2, <2>1, <2>3, <3>2 DEF Runs
  <2>4. CASE job.by # "manual"
    <3>1. Manual(jobs') = Manual(jobs)
      <4>1. Len(jobs) + 1 \notin Names
        BY NamesType
      <4> QED
        BY <2>2, <2>4, <4>1 DEF Manual, Names
    <3> QED
      BY <1>2, <3>1 DEF Runs
  <2> QED
    BY <2>3, <2>4
<1>4. CASE ~(ScheduleJob \/ ForeignJob \/ triggerManualBackupJob)
  <2>1. Len(jobs') = Len(jobs) /\ JobsFollow(jobs, jobs')
    BY <1>1, <1>4, JobSteps, JobsReleased, JobsLess, JobsFollowSame DEF JobsProgress
  <2>2. DOMAIN jobs' = DOMAIN jobs
    BY <1>1, <2>1, LenProperties
  <2>3. Manual(jobs') = Manual(jobs)
    BY <2>1, <2>2 DEF Manual, JobsFollow, Follows
  <2> QED
    BY <1>2, <2>3 DEF Runs
<1> QED
  BY <1>3, <1>4

\* The numbers the invariant compares.
LEMMA RunNumbers ==
    ASSUME TypeOK
    PROVE  /\ backup.obs \in Nat /\ backup.gen \in Nat
           /\ cBackup.obs \in Nat /\ cBackup.gen \in Nat
           /\ bk.obs \in Nat /\ bk.gen \in Nat
           /\ faults \in Nat /\ Len(manifest) \in Nat /\ Runs \in Nat
<1>1. Runs \in Nat /\ Len(manifest) \in Nat
  BY ManualFinite, LenProperties DEF Runs, TypeOK, ClusterTypeOK
<1> QED
  BY <1>1 DEF TypeOK, ClusterTypeOK, CacheTypeOK, WorkerTypeOK, Backup

\* Faults, edits, and the loss of the Backup or the CronJob never make a bound
\* tighter, nor does a rebuild that ends before it has started its run.
LEMMA RunsFrame ==
    ASSUME TypeOK, TypeOK', RunsInv, Runs' = Runs,
           faults' >= faults, Len(manifest') >= Len(manifest),
           backup'.state # "absent" => backup.state # "absent" /\ backup'.obs = backup.obs,
           cBackup' = cBackup \/ cBackup' = backup',
           cron'.state # "absent" => cron.state # "absent",
           \/ UNCHANGED <<pc, op, bk>>
           \/ pc # "record" /\ pc' \notin Building /\ (pc' = "route" => bk' = cBackup)
    PROVE  RunsInv'
<1>0. /\ RebuildInv /\ TotalInv /\ AcknowledgedInv
      /\ backup.obs \in Nat /\ bk.gen \in Nat /\ Runs \in Nat
      /\ faults \in Nat /\ faults' \in Nat
      /\ Len(manifest) \in Nat /\ Len(manifest') \in Nat
  BY RunNumbers, LenProperties DEF RunsInv, TypeOK, ClusterTypeOK
<1>1. RebuildInv'
  BY RunNumbers DEF RunsInv, RebuildInv, Holding, Building, Reconciled
<1>2. CASE UNCHANGED <<pc, op, bk>>
  <2>1. (Due' <=> Due) /\ (Started' <=> Started) /\ bk'.gen = bk.gen /\ pc' = pc
    BY <1>2 DEF Due, Started
  <2>2. TotalInv'
    BY <1>0, <2>1 DEF TotalInv, One
  <2>3. AcknowledgedInv'
    <3>1. PaidInv'
      BY <1>0, <2>1 DEF AcknowledgedInv, PaidInv, One, Greatest
    <3>2. DueInv'
      BY <1>0, <2>1 DEF AcknowledgedInv, DueInv
    <3>3. BrokenOffInv'
      BY <1>0, <2>1 DEF AcknowledgedInv, BrokenOffInv
    <3> QED
      BY <3>1, <3>2, <3>3 DEF AcknowledgedInv
  <2> QED
    BY <1>1, <2>2, <2>3 DEF RunsInv
<1>3. CASE pc # "record" /\ pc' \notin Building
  <2>1. ~Started /\ ~Started' /\ ~Due' /\ pc # "record"
    BY <1>3 DEF Due, Started, Building
  <2>2. TotalInv'
    BY <1>0, <2>1 DEF TotalInv, One
  <2>3. AcknowledgedInv'
    <3>1. PaidInv'
      BY <1>0, <2>1 DEF AcknowledgedInv, PaidInv, One, Greatest
    <3>2. DueInv'
      BY <1>0, <2>1 DEF AcknowledgedInv, DueInv
    <3>3. BrokenOffInv'
      BY <1>0, <2>1 DEF AcknowledgedInv, BrokenOffInv
    <3> QED
      BY <3>1, <3>2, <3>3 DEF AcknowledgedInv
  <2> QED
    BY <1>1, <2>2, <2>3 DEF RunsInv
<1> QED
  BY <1>2, <1>3
-----------------------------------------------------------------------------
(* The steps of a rebuild.                                                 *)

\* A rebuild starts.  If the cached CronJob is up to date, there is one and the
\* run is paid for; if it is not, that is a fault.
LEMMA RunsBegin ==
    ASSUME TypeOK, TypeOK', ScheduleInv, RunsInv, ReadyInv, Runs' = Runs,
           handleBackupCreate \/ handleBackupUpdate
    PROVE  RunsInv'
<1>0. /\ RebuildInv /\ TotalInv /\ AcknowledgedInv
      /\ backup.obs \in Nat /\ backup.gen \in Nat /\ bk.gen \in Nat /\ Runs \in Nat
      /\ cBackup.obs \in Nat /\ cBackup.gen \in Nat /\ faults \in Nat /\ Len(manifest) \in Nat
  BY RunNumbers DEF RunsInv
<1>1. /\ pc = "route" /\ pc' = "secret" /\ bk' = bk
      /\ UNCHANGED <<manifest, backup, cron, cBackup>>
      /\ \/ cCron = cron /\ faults' = faults
         \/ faults' = faults + 1
  BY DEF handleBackupCreate, handleBackupUpdate, Build, Route, Read, Fault, caches
<1>2. \/ op' = "create" /\ cCron.state = "absent"
      \/ op' = "update" /\ cCron.state # "absent" /\ bk.gen # bk.obs
  BY DEF handleBackupCreate, handleBackupUpdate, Build, Reconciled
<1>3. bk.gen >= 1 /\ (backup.state # "absent" => backup.obs <= bk.gen)
  BY <1>1 DEF ScheduleInv, WorkerInv, Holding
<1>4. ~Due /\ ~Started /\ ~Started' /\ (Due' <=> op' = "update")
  BY <1>1 DEF Due, Started, Building
<1>5. RebuildInv'
  BY <1>0, <1>1, <1>2 DEF RebuildInv, Holding, Building, Reconciled
<1>6. CASE op' = "create"
  <2>1. TotalInv'
    BY <1>0, <1>1, <1>4, <1>6 DEF TotalInv, One
  <2>2. AcknowledgedInv'
    <3>1. PaidInv'
      BY <1>0, <1>1, <1>2, <1>4, <1>6 DEF AcknowledgedInv, PaidInv, One, Greatest
    <3>2. DueInv'
      BY <1>0, <1>1, <1>2, <1>4, <1>6 DEF AcknowledgedInv, DueInv
    <3>3. BrokenOffInv'
      BY <1>0, <1>1, <1>2, <1>4, <1>6 DEF AcknowledgedInv, BrokenOffInv
    <3> QED
      BY <3>1, <3>2, <3>3 DEF AcknowledgedInv
  <2> QED
    BY <1>5, <2>1, <2>2 DEF RunsInv
<1>7. CASE op' = "update" /\ faults' = faults + 1
  <2>1. TotalInv'
    BY <1>0, <1>1, <1>4, <1>7 DEF TotalInv, One
  <2>2. AcknowledgedInv'
    <3>1. PaidInv'
      BY <1>0, <1>1, <1>3, <1>4, <1>7 DEF AcknowledgedInv, PaidInv, One, Greatest
    <3>2. DueInv'
      BY <1>0, <1>1, <1>3, <1>4, <1>7 DEF AcknowledgedInv, PaidInv, DueInv, One, Greatest
    <3>3. BrokenOffInv'
      BY <1>0, <1>1, <1>3, <1>4, <1>7 DEF AcknowledgedInv, BrokenOffInv, PaidInv, One, Greatest
    <3> QED
      BY <3>1, <3>2, <3>3 DEF AcknowledgedInv
  <2> QED
    BY <1>5, <2>1, <2>2 DEF RunsInv
<1>8. CASE op' = "update" /\ cCron = cron /\ faults' = faults
  <2>1. cron.state # "absent" /\ ~Reconciled(bk)
    BY <1>2, <1>8 DEF Reconciled
  <2>2. /\ Runs + 2 <= Len(manifest) + faults
        /\ backup.state # "absent" => Runs + 2 <= bk.gen + faults
    BY <1>1, <2>1 DEF ReadyInv
  <2>3. TotalInv'
    BY <1>0, <1>1, <1>4, <1>8, <2>1, <2>2 DEF TotalInv, One
  <2>4. AcknowledgedInv'
    <3>1. PaidInv'
      BY <1>0, <1>1, <1>4, <1>8, <2>1, <2>2 DEF AcknowledgedInv, PaidInv, One, Greatest
    <3>2. DueInv'
      BY <1>0, <1>1, <1>4, <1>8, <2>1, <2>2 DEF AcknowledgedInv, DueInv
    <3>3. BrokenOffInv'
      BY <1>0, <1>1, <1>4, <1>8, <2>1, <2>2 DEF AcknowledgedInv, BrokenOffInv
    <3> QED
      BY <3>1, <3>2, <3>3 DEF AcknowledgedInv
  <2> QED
    BY <1>5, <2>3, <2>4 DEF RunsInv
<1> QED
  BY <1>1, <1>2, <1>6, <1>7, <1>8

\* It goes on, to the run or past it.
LEMMA RunsBuild ==
    ASSUME TypeOK, TypeOK', ScheduleInv, RunsInv, Runs' = Runs,
           CreateSecret \/ deleteCronJob \/ createCronJob \/ hasRunningBackupJob
    PROVE  RunsInv'
<1>0. /\ RebuildInv /\ TotalInv /\ AcknowledgedInv
      /\ backup.obs \in Nat /\ bk.gen \in Nat /\ Runs \in Nat
      /\ faults \in Nat /\ Len(manifest) \in Nat
  BY RunNumbers DEF RunsInv
<1>1. UNCHANGED <<manifest, backup, cBackup, bk, op>>
  BY DEF CreateSecret, deleteCronJob, createCronJob, hasRunningBackupJob, GoTo, caches
<1>2. CASE CreateSecret \/ deleteCronJob
  <2>1. /\ pc \in {"secret", "delete"} /\ pc' \in {"create", "delete"}
        /\ pc' = "delete" => op # "create"
        /\ cron'.state # "absent" => cron.state # "absent"
        /\ faults' = faults
    BY <1>2 DEF CreateSecret, deleteCronJob, Deleted, GoTo
  <2>2. RebuildInv'
    BY <1>0, <1>1, <2>1 DEF RebuildInv, Holding, Building, Reconciled
  <2>3. (Due' <=> Due) /\ ~Started /\ ~Started' /\ pc # "record"
    BY <1>1, <2>1 DEF Due, Started, Building
  <2>4. TotalInv'
    BY <1>0, <1>1, <2>1, <2>3 DEF TotalInv, One
  <2>5. AcknowledgedInv'
    <3>1. PaidInv'
      BY <1>0, <1>1, <2>1, <2>3 DEF AcknowledgedInv, PaidInv, One, Greatest
    <3>2. DueInv'
      BY <1>0, <1>1, <2>1, <2>3 DEF AcknowledgedInv, DueInv
    <3>3. BrokenOffInv'
      BY <1>0, <1>1, <2>1, <2>3 DEF AcknowledgedInv, BrokenOffInv
    <3> QED
      BY <3>1, <3>2, <3>3 DEF AcknowledgedInv
  <2> QED
    BY <2>2, <2>4, <2>5 DEF RunsInv
<1>3. CASE createCronJob
  <2>1. /\ pc = "create" /\ faults' = faults
        /\ \/ pc' = "record" /\ op = "create"
           \/ pc' = "check" /\ op # "create"
    BY <1>3 DEF createCronJob, GoTo
  <2>2. RebuildInv'
    BY <1>0, <1>1, <2>1 DEF RebuildInv, Holding, Building, Reconciled
  <2>3. (Due' <=> Due) /\ ~Started /\ ~Started' /\ (pc' # "record" => Due)
    BY <1>0, <1>1, <2>1 DEF Due, Started, Building, RebuildInv
  <2>4. TotalInv'
    BY <1>0, <1>1, <2>1, <2>3 DEF TotalInv, One
  <2>5. AcknowledgedInv'
    <3>1. PaidInv'
      BY <1>0, <1>1, <2>1, <2>3 DEF AcknowledgedInv, PaidInv, One, Greatest
    <3>2. DueInv'
      BY <1>0, <1>1, <2>1, <2>3 DEF AcknowledgedInv, DueInv
    <3>3. BrokenOffInv'
      BY <1>0, <1>1, <2>1, <2>3 DEF AcknowledgedInv, BrokenOffInv
    <3> QED
      BY <3>1, <3>2, <3>3 DEF AcknowledgedInv
  <2> QED
    BY <2>2, <2>4, <2>5 DEF RunsInv
<1>4. CASE hasRunningBackupJob
  <2>1. /\ pc = "check" /\ pc' \in {"record", "trigger"} /\ cron' = cron
        /\ faults' = faults \/ faults' = faults + 1
    BY <1>4 DEF hasRunningBackupJob, GoTo, Read, Fault
  <2>2. RebuildInv'
    BY <1>0, <1>1, <2>1 DEF RebuildInv, Holding, Building, Reconciled
  <2>3. Due /\ ~Started /\ (Due' <=> pc' # "record") /\ (Started' <=> pc' = "record")
    BY <1>0, <1>1, <2>1 DEF Due, Started, Building, RebuildInv
  <2>4. TotalInv'
    BY <1>0, <1>1, <2>1, <2>3 DEF TotalInv, One
  <2>5. AcknowledgedInv'
    <3>1. PaidInv'
      BY <1>0, <1>1, <2>1, <2>3 DEF AcknowledgedInv, PaidInv, One, Greatest
    <3>2. DueInv'
      BY <1>0, <1>1, <2>1, <2>3 DEF AcknowledgedInv, DueInv
    <3>3. BrokenOffInv'
      BY <1>0, <1>1, <2>1, <2>3 DEF AcknowledgedInv, BrokenOffInv
    <3> QED
      BY <3>1, <3>2, <3>3 DEF AcknowledgedInv
  <2> QED
    BY <2>2, <2>4, <2>5 DEF RunsInv
<1> QED
  BY <1>2, <1>3, <1>4

\* The run that was due starts.
LEMMA RunsTrigger ==
    ASSUME TypeOK, TypeOK', RunsInv, Runs' <= Runs + 1, Runs' \in Nat,
           triggerManualBackupJob
    PROVE  RunsInv'
<1>0. /\ RebuildInv /\ TotalInv /\ AcknowledgedInv
      /\ backup.obs \in Nat /\ bk.gen \in Nat /\ Runs \in Nat
      /\ faults \in Nat /\ Len(manifest) \in Nat
  BY RunNumbers DEF RunsInv
<1>1. /\ pc = "trigger" /\ pc' = "record"
      /\ UNCHANGED <<manifest, backup, cBackup, cron, bk, op, faults>>
  BY DEF triggerManualBackupJob, GoTo, caches
<1>2. RebuildInv'
  BY <1>0, <1>1 DEF RebuildInv, Holding, Building, Reconciled
<1>3. Due /\ ~Due' /\ ~Started /\ Started'
  BY <1>0, <1>1 DEF Due, Started, Building, RebuildInv
<1>4. TotalInv'
  BY <1>0, <1>1, <1>3 DEF TotalInv, One
<1>5. AcknowledgedInv'
  <2>1. PaidInv'
    BY <1>0, <1>1, <1>3 DEF AcknowledgedInv, PaidInv, One, Greatest
  <2>2. DueInv'
    BY <1>0, <1>1, <1>3 DEF AcknowledgedInv, DueInv
  <2>3. BrokenOffInv'
    BY <1>0, <1>1, <1>3 DEF AcknowledgedInv, BrokenOffInv
  <2> QED
    BY <2>1, <2>2, <2>3 DEF AcknowledgedInv
<1> QED
  BY <1>2, <1>4, <1>5 DEF RunsInv

\* The generation is acknowledged: the run is paid for.
LEMMA RunsRecord ==
    ASSUME TypeOK, TypeOK', ScheduleInv, RunsInv, Runs' = Runs,
           AlreadyRecorded \/ recordObservedGeneration \/ RecordNotFound
    PROVE  RunsInv'
<1>0. /\ RebuildInv /\ TotalInv /\ AcknowledgedInv
      /\ backup.obs \in Nat /\ bk.gen \in Nat /\ bk.obs \in Nat /\ Runs \in Nat
      /\ cBackup.obs \in Nat /\ faults \in Nat /\ Len(manifest) \in Nat
  BY RunNumbers DEF RunsInv
<1>1. /\ pc = "record" /\ pc' \in {"jobs", "idle"}
      /\ UNCHANGED <<manifest, cBackup, cron, faults>>
  BY DEF AlreadyRecorded, recordObservedGeneration, RecordNotFound, Retry, Finish, GoTo,
         caches, clusterVars
<1>2. ~Due /\ ~Due' /\ ~Started' /\ pc \in Building
  BY <1>1 DEF Due, Started, Building
<1>3. bk.gen >= 1 /\ (backup.state # "absent" => backup.obs <= bk.gen)
  BY <1>2 DEF ScheduleInv, WorkerInv, Holding
<1>4. TotalInv'
  BY <1>0, <1>1, <1>2 DEF TotalInv, One
<1>5. CASE AlreadyRecorded
  <2>1. backup' = backup /\ bk.gen = bk.obs
    BY <1>5 DEF AlreadyRecorded, Reconciled, clusterVars
  <2>2. ~Started /\ (backup.state # "absent" => backup.obs >= 1)
    BY <1>0, <1>2, <1>3, <2>1 DEF RebuildInv, Started, Reconciled, Holding
  <2>3. RebuildInv'
    BY <1>0, <1>1, <2>1 DEF RebuildInv, Holding, Building
  <2>4. AcknowledgedInv'
    <3>1. PaidInv'
      BY <1>0, <1>1, <1>2, <2>1, <2>2 DEF AcknowledgedInv, PaidInv, One, Greatest
    <3>2. DueInv'
      BY <1>0, <1>1, <1>2, <2>1, <2>2 DEF AcknowledgedInv, DueInv
    <3>3. BrokenOffInv'
      BY <1>0, <1>1, <1>2, <2>1, <2>2 DEF AcknowledgedInv, BrokenOffInv
    <3> QED
      BY <3>1, <3>2, <3>3 DEF AcknowledgedInv
  <2> QED
    BY <1>4, <2>3, <2>4 DEF RunsInv
<1>6. CASE recordObservedGeneration
  <2>1. backup'.obs = bk.gen /\ backup.state # "absent" /\ backup'.state = backup.state
    BY <1>6 DEF recordObservedGeneration, TypeOK, ClusterTypeOK, Backup
  <2>2. RebuildInv'
    BY <1>0, <1>1, <1>3, <2>1 DEF RebuildInv, Holding, Building
  <2>3. AcknowledgedInv'
    <3>1. Runs + 1 <= bk.gen + faults
      BY <1>0, <1>3, <2>1 DEF AcknowledgedInv, PaidInv, DueInv, BrokenOffInv, One, Greatest
    <3> QED
      BY <1>0, <1>1, <1>2, <1>3, <2>1, <3>1 DEF AcknowledgedInv, PaidInv, DueInv, BrokenOffInv, One, Greatest
  <2> QED
    BY <1>4, <2>2, <2>3 DEF RunsInv
<1>7. CASE RecordNotFound
  <2>1. backup' = backup /\ backup.state = "absent"
    BY <1>7 DEF RecordNotFound, clusterVars
  <2> QED
    BY <1>1, <1>4, <2>1 DEF RunsInv, RebuildInv, AcknowledgedInv, PaidInv, DueInv, BrokenOffInv, Holding, Building
<1> QED
  BY <1>5, <1>6, <1>7

\* A request fails, or the operator restarts: a run that was just started may
\* be started again, and the fault pays for it.
LEMMA RunsInterrupted ==
    ASSUME TypeOK, TypeOK', RunsInv, Runs' = Runs, RequestFails \/ OperatorRestart
    PROVE  RunsInv'
<1>0. /\ RebuildInv /\ TotalInv /\ AcknowledgedInv
      /\ backup.obs \in Nat /\ Runs \in Nat /\ faults \in Nat /\ Len(manifest) \in Nat
  BY RunNumbers DEF RunsInv
<1>1. /\ pc' = "idle" /\ faults' = faults + 1
      /\ UNCHANGED <<manifest, backup, cron>>
      /\ cBackup' = cBackup \/ cBackup' = backup
  BY DEF RequestFails, OperatorRestart, Retry, Finish, Fault, caches
<1>2. ~Due' /\ ~Started'
  BY <1>1 DEF Due, Started, Building
<1>3. RebuildInv'
  BY <1>0, <1>1 DEF RebuildInv, Holding, Building
<1>4. TotalInv'
  BY <1>0, <1>1, <1>2 DEF TotalInv, One
<1>5. AcknowledgedInv'
  <2>1. PaidInv'
    BY <1>0, <1>1, <1>2 DEF AcknowledgedInv, PaidInv, One, Greatest
  <2>2. DueInv'
    BY <1>0, <1>1, <1>2 DEF AcknowledgedInv, DueInv
  <2>3. BrokenOffInv'
    BY <1>0, <1>1, <1>2 DEF AcknowledgedInv, BrokenOffInv, PaidInv, One, Greatest
  <2> QED
    BY <2>1, <2>2, <2>3 DEF AcknowledgedInv
<1> QED
  BY <1>3, <1>4, <1>5 DEF RunsInv
-----------------------------------------------------------------------------
(* The bound.                                                              *)

LEMMA RunsInit == Init => RunsInv
<1> SUFFICES ASSUME Init PROVE RunsInv
  OBVIOUS
<1>1. /\ Len(manifest) = 1 /\ jobs = <<>> /\ faults = 0 /\ pc = "idle"
      /\ backup.state = "live" /\ backup.obs = 0 /\ cBackup.obs = 0 /\ cron.state = "absent"
  BY DEF Init, ClusterInit, NoBackup, NoCron
<1>2. Runs = 0
  <2>1. Manual(jobs) = {}
    BY <1>1, EmptySeq DEF Manual
  <2> QED
    BY <2>1, FS_EmptySet DEF Runs
<1>3. ~Due /\ ~Started
  BY <1>1 DEF Due, Started, Building
<1> QED
  BY <1>1, <1>2, <1>3 DEF RunsInv, RebuildInv, TotalInv, AcknowledgedInv, PaidInv, DueInv, BrokenOffInv, One, Greatest,
     Holding, Building

\* The steps the bounds do not see.
LEMMA RunsElse ==
    ASSUME TypeOK, TypeOK', RunsInv, Runs' = Runs,
           \/ ClusterNext /\ UNCHANGED <<caches, workerVars>>
           \/ Watch \/ Resync \/ UNCHANGED vars
           \/ SkipDeleted \/ TakeBackup \/ RejectInvalid \/ KeepSchedule
           \/ CronJobRejected \/ CronJobExists
           \/ NothingToReport \/ reconcileJobStatus
           \/ UpdateStatus \/ StatusConflict \/ StatusNotFound
    PROVE  RunsInv'
<1>1. faults \in Nat /\ Len(manifest) \in Nat /\ Len(manifest) <= Len(manifest)
  BY RunNumbers
<1>2. CASE ClusterNext /\ UNCHANGED <<caches, workerVars>>
  <2>1. UNCHANGED <<pc, op, bk, cBackup>>
    BY <1>2 DEF caches, workerVars
  <2>2. CASE EditBackup
    <3>1. Len(manifest') = Len(manifest) + 1
      BY <2>2, AppendProperties DEF EditBackup, TypeOK, ClusterTypeOK
    <3>2. /\ backup'.obs = backup.obs /\ backup.state = "live"
          /\ cron' = cron /\ faults' = faults
      BY <2>2 DEF EditBackup, TypeOK, ClusterTypeOK, Backup
    <3> QED
      BY <1>1, <2>1, <3>1, <3>2, RunsFrame
  <2>3. CASE DeleteBackup \/ GcBackup
    <3>1. /\ UNCHANGED <<manifest, cron, faults>>
          /\ backup'.state # "absent" => backup.state # "absent" /\ backup'.obs = backup.obs
      BY <2>3 DEF DeleteBackup, GcBackup, NoBackup, TypeOK, ClusterTypeOK, Backup
    <3> QED
      BY <1>1, <2>1, <3>1, RunsFrame
  <2>4. CASE KillCronJob \/ GcOrphans \/ GcCronJob
    <3>1. /\ UNCHANGED <<manifest, backup>> /\ cron'.state = "absent"
          /\ faults' = faults \/ faults' = faults + 1
      BY <2>4 DEF KillCronJob, GcOrphans, GcCronJob, Fault, NoCron
    <3> QED
      BY <1>1, <2>1, <3>1, RunsFrame
  <2>5. CASE GcSecret \/ ScheduleJob \/ ForeignJob
             \/ \E j \in Names : PodStarts(j) \/ PodFails(j) \/ PodSucceeds(j)
                                 \/ JobFinishes(j) \/ JobRemoved(j) \/ GcJob(j)
    <3>1. UNCHANGED <<manifest, backup, cron, faults>>
      BY <2>5 DEF GcSecret, ScheduleJob, ForeignJob, PodStarts, PodFails, PodSucceeds,
         PodEnds, JobFinishes, JobRemoved, GcJob, JobStep
    <3> QED
      BY <1>1, <2>1, <3>1, RunsFrame
  <2> QED
    BY <1>2, <2>2, <2>3, <2>4, <2>5 DEF ClusterNext, Gc
<1>3. CASE Watch \/ Resync \/ UNCHANGED vars
  <2>1. /\ UNCHANGED <<manifest, backup, cron, faults, pc, op, bk>>
        /\ cBackup' = cBackup \/ cBackup' = backup'
    BY <1>3 DEF Watch, WatchBackup, WatchCronJob, WatchJobs, Resync, vars, clusterVars,
       caches, workerVars
  <2> QED
    BY <1>1, <2>1, RunsFrame
<1>4. CASE SkipDeleted \/ TakeBackup \/ RejectInvalid \/ KeepSchedule
  <2>1. /\ UNCHANGED <<manifest, backup, cron, cBackup>>
        /\ pc \in {"idle", "route"}
        /\ TakeBackup \/ pc' \in {"idle", "jobs"}
        /\ faults' = faults \/ faults' = faults + 1
    BY <1>4 DEF SkipDeleted, TakeBackup, RejectInvalid, KeepSchedule, Dequeue, Route, Read,
       Fault, Retry, Finish, GoTo, caches
  <2>2. TakeBackup => pc' = "route" /\ bk' = cBackup
    BY DEF TakeBackup
  <2> QED
    BY <1>1, <2>1, <2>2, RunsFrame DEF Building
<1>5. CASE CronJobRejected \/ CronJobExists
  <2>1. /\ UNCHANGED <<manifest, backup, cron, cBackup, faults>>
        /\ pc = "create" /\ pc' \in {"idle", "jobs"}
    BY <1>5 DEF CronJobRejected, CronJobExists, Retry, Finish, caches, clusterVars
  <2> QED
    BY <1>1, <2>1, RunsFrame DEF Building
<1>6. CASE NothingToReport \/ reconcileJobStatus \/ StatusConflict \/ StatusNotFound
  <2>1. /\ UNCHANGED <<manifest, backup, cron, cBackup>>
        /\ pc \in {"jobs", "status"} /\ pc' \in {"idle", "status"}
        /\ faults' = faults \/ faults' = faults + 1
    BY <1>6 DEF NothingToReport, reconcileJobStatus, ListJobs, Read, Fault, StatusConflict,
       StatusNotFound, Done, Retry, Finish, caches, clusterVars
  <2> QED
    BY <1>1, <2>1, RunsFrame DEF Building
<1>7. CASE UpdateStatus
  <2>1. /\ backup' = StatusAfter(backup, run) /\ backup \in Backup /\ run \in Run
        /\ pc = "status" /\ pc' = "idle" /\ UNCHANGED <<manifest, cron, cBackup>>
        /\ faults' = faults \/ faults' = faults + 1
    BY <1>7 DEF UpdateStatus, Done, Retry, Finish, Fault, caches, TypeOK, ClusterTypeOK, WorkerTypeOK
  <2>2. backup'.state = backup.state /\ backup'.obs = backup.obs
    BY <2>1, StatusAfterKeeps
  <2> QED
    BY <1>1, <2>1, <2>2, RunsFrame DEF Building
<1> QED
  BY <1>2, <1>3, <1>4, <1>5, <1>6, <1>7

LEMMA RunsStep ==
    ASSUME TypeOK, TypeOK', ScheduleInv, RunsInv, ReadyInv, [Next]_vars
    PROVE  RunsInv'
<1>1. CASE triggerManualBackupJob
  BY <1>1, RunsSteps, RunsTrigger
<1>2. CASE ~triggerManualBackupJob
  <2>1. Runs' = Runs
    BY <1>2, RunsSteps
  <2> QED
    BY <1>2, <2>1, RunsBegin, RunsBuild, RunsRecord, RunsInterrupted, RunsElse DEF Next, Reconcile
<1> QED
  BY <1>1, <1>2

\* What may happen while the worker holds a copy it has just taken.
LEMMA RouteSteps ==
    ASSUME TypeOK, TypeOK', [Next]_vars, pc' = "route", ~TakeBackup
    PROVE  /\ pc = "route" /\ bk' = bk /\ Runs' = Runs
           /\ Len(manifest') >= Len(manifest) /\ faults' >= faults
           /\ backup'.state # "absent" => backup.state # "absent"
           /\ cron'.state # "absent" => cron.state # "absent"
<1>0. Len(manifest) \in Nat /\ faults \in Nat /\ faults' \in Nat
  BY LenProperties DEF TypeOK, ClusterTypeOK
<1>1. ~Reconcile /\ ~RequestFails /\ ~OperatorRestart
  BY DEF Reconcile, SkipDeleted, RejectInvalid, KeepSchedule, handleBackupCreate,
     handleBackupUpdate, Build, CreateSecret, deleteCronJob, createCronJob, CronJobRejected,
     CronJobExists, hasRunningBackupJob, triggerManualBackupJob, AlreadyRecorded,
     recordObservedGeneration, RecordNotFound, NothingToReport, reconcileJobStatus,
     UpdateStatus, StatusConflict, StatusNotFound, GoTo, Done, Retry, Finish,
     RequestFails, OperatorRestart
<1>2. pc' = pc /\ bk' = bk
  BY <1>1 DEF Next, Watch, WatchBackup, WatchCronJob, WatchJobs, Resync, vars, workerVars
<1>3. Runs' = Runs
  BY <1>2, RunsSteps DEF triggerManualBackupJob
<1>4. Len(manifest') >= Len(manifest)
  <2>1. CASE EditBackup
    BY <1>0, <2>1, AppendProperties DEF EditBackup, TypeOK, ClusterTypeOK
  <2>2. CASE ~EditBackup
    BY <1>0, <2>2, ContractSteps DEF DeleteBackup, GcBackup, recordObservedGeneration
  <2> QED
    BY <2>1, <2>2
<1>5. /\ faults' >= faults
      /\ backup'.state # "absent" => backup.state # "absent"
      /\ cron'.state # "absent" => cron.state # "absent"
  <2>1. CASE ClusterNext
    <3>1. CASE EditBackup \/ DeleteBackup \/ GcBackup
      BY <1>0, <3>1 DEF EditBackup, DeleteBackup, GcBackup
    <3>2. CASE KillCronJob
      BY <1>0, <3>2 DEF KillCronJob, Fault
    <3>3. CASE GcOrphans \/ GcCronJob \/ GcSecret
      BY <1>0, <3>3 DEF GcOrphans, GcCronJob, GcSecret
    <3>4. CASE UNCHANGED <<backup, cron, faults>>
      BY <1>0, <3>4
    <3> QED
      BY <2>1, <3>1, <3>2, <3>3, <3>4 DEF ClusterNext, Gc, ScheduleJob, ForeignJob, PodStarts,
         PodFails, PodSucceeds, PodEnds, JobFinishes, JobRemoved, GcJob, JobStep
  <2>2. CASE UNCHANGED clusterVars
    BY <1>0, <2>2 DEF clusterVars
  <2> QED
    BY <1>1, <2>1, <2>2 DEF Next, Watch, WatchBackup, WatchCronJob, WatchJobs, Resync, vars
<1> QED
  BY <1>2, <1>3, <1>4, <1>5

\* The worker takes a copy.  If the cache is up to date, the generation read is
\* one the status does not acknowledge; if it lags, that is a fault.
LEMMA ReadyStep ==
    ASSUME TypeOK, TypeOK', ScheduleInv, RunsInv, ReadyInv, [Next]_vars
    PROVE  ReadyInv'
<1> SUFFICES ASSUME pc' = "route", cron'.state # "absent", ~Reconciled(bk')
             PROVE  /\ Runs' + 2 <= Len(manifest') + faults'
                    /\ backup'.state # "absent" => Runs' + 2 <= bk'.gen + faults'
  BY DEF ReadyInv, Reconciled
<1>0. /\ backup.obs \in Nat /\ backup.gen \in Nat /\ bk.gen \in Nat /\ Runs \in Nat
      /\ cBackup.obs \in Nat /\ cBackup.gen \in Nat /\ faults \in Nat /\ faults' \in Nat
      /\ Len(manifest) \in Nat /\ Len(manifest') \in Nat
      /\ TotalInv /\ PaidInv /\ BrokenOffInv
  BY RunNumbers, LenProperties DEF RunsInv, AcknowledgedInv, TypeOK, ClusterTypeOK
<1>1. CASE TakeBackup
  <2>1. /\ pc = "idle" /\ bk' = cBackup /\ cBackup.state = "live"
        /\ UNCHANGED <<manifest, backup, cron>>
        /\ \/ cBackup = backup /\ faults' = faults
           \/ faults' = faults + 1
    BY <1>1 DEF TakeBackup, Dequeue, Read, Fault
  <2>2. Runs' = Runs
    BY <2>1, RunsSteps DEF triggerManualBackupJob
  <2>3. cBackup.gen # cBackup.obs
    BY <2>1 DEF Reconciled
  <2>4. ~Due /\ ~Started
    BY <2>1 DEF Due, Started, Building
  <2>5. /\ cBackup.gen >= 1 /\ backup.obs <= cBackup.gen
        /\ backup.state # "absent" => backup.gen = Len(manifest)
    BY <2>1 DEF ScheduleInv, BackupInv, CacheInv
  <2>6. CASE cBackup = backup /\ faults' = faults
    BY <1>0, <2>1, <2>2, <2>3, <2>4, <2>5, <2>6 DEF PaidInv, BrokenOffInv, One, Greatest
  <2>7. CASE faults' = faults + 1
    BY <1>0, <2>1, <2>2, <2>4, <2>5, <2>7 DEF TotalInv, PaidInv, One, Greatest
  <2> QED
    BY <2>1, <2>6, <2>7
<1>2. CASE ~TakeBackup
  <2>1. /\ pc = "route" /\ bk' = bk /\ Runs' = Runs
        /\ Len(manifest') >= Len(manifest) /\ faults' >= faults
        /\ backup'.state # "absent" => backup.state # "absent"
        /\ cron.state # "absent"
    BY <1>2, RouteSteps
  <2>2. /\ Runs + 2 <= Len(manifest) + faults
        /\ backup.state # "absent" => Runs + 2 <= bk.gen + faults
    BY <2>1 DEF ReadyInv
  <2> QED
    BY <1>0, <2>1, <2>2
<1> QED
  BY <1>1, <1>2

\* The edits of a Backup start at most one immediate run each, and one more
\* for each fault: whatever the caches serve, whenever the operator restarts,
\* and however often a rebuild is repeated (recordObservedGeneration).
THEOREM ManualRunsSound == Spec => []ManualRunsBounded
<1>1. TypeOK /\ RunsInv => ManualRunsBounded
  <2> SUFFICES ASSUME TypeOK, RunsInv PROVE ManualRunsBounded
    OBVIOUS
  <2>1. Runs <= Len(manifest) - 1 + faults
    BY RunNumbers DEF RunsInv, TotalInv, One
  <2> QED
    BY <2>1 DEF ManualRunsBounded, Runs, Manual, Names
<1>2. TypeOK /\ TypeOK' /\ ScheduleInv /\ RunsInv /\ ReadyInv /\ [Next]_vars =>
          RunsInv' /\ ReadyInv'
  BY RunsStep, ReadyStep
<1>3. Init => ReadyInv
  BY DEF Init, ReadyInv
<1> QED
  BY <1>1, <1>2, <1>3, RunsInit, TypeCorrect, ScheduleCorrect, PTL DEF Spec
=============================================================================
