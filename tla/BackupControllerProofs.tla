----------------------- MODULE BackupControllerProofs -----------------------
(***************************************************************************)
(* What holds of the Backup controller for every value of the constants:   *)
(* any number of edits, Jobs, faults and retries, and any mix of events.   *)
(***************************************************************************)
EXTENDS BackupController, RunStatusProofs

\* The calls a rebuild goes through, those after the CronJob was created, and
\* all at which the worker's copy decides which generation is built.
Building == {"secret", "delete", "create", "check", "trigger", "record"}

Constructed == {"check", "trigger", "record"}

Holding == Building \cup {"route"}

\* The Backup's generation counts the specs; its status never runs ahead.
BackupInv ==
    /\ Len(manifest) >= 1
    /\ backup.state = "absent" => backup.gen = 0 /\ backup.obs = 0
    /\ backup.state # "absent" => backup.gen = Len(manifest)
    /\ backup.obs <= backup.gen

\* However far the cache lags, it has seen the generation last recorded.
CacheInv ==
    /\ backup.obs <= cBackup.gen
    /\ cBackup.gen <= Len(manifest)
    /\ cBackup.state # "absent" => cBackup.gen >= 1

\* The CronJob lies between what is recorded and what the cache has seen.
CronInv ==
    cron.state = "live" =>
        /\ cron.gen >= 1 /\ cron.gen <= Len(manifest)
        /\ cron.gen >= backup.obs
        /\ backup.state # "absent" => cron.gen <= cBackup.gen

\* The generation the worker took is not older than the CronJob's, already
\* when the worker chooses the handler, and once the CronJob is created it is
\* the CronJob's.
WorkerInv ==
    pc \in Holding =>
        /\ bk.gen >= 1 /\ bk.gen <= Len(manifest)
        /\ backup.state # "absent" => backup.obs <= bk.gen /\ bk.gen <= cBackup.gen
        /\ backup.state # "absent" /\ cron.state = "live" => cron.gen <= bk.gen
        /\ pc \in Constructed /\ cron.state = "live" => cron.gen = bk.gen

SecretInv ==
    backup.state = "live" =>
        /\ cron.state = "live" => secret >= cron.gen
        /\ pc \in Building \ {"secret"} => secret >= bk.gen

\* The inductive invariant behind the theorems on schedules.
ScheduleInv == BackupInv /\ CacheInv /\ CronInv /\ WorkerInv /\ SecretInv
-----------------------------------------------------------------------------
(* Type correctness.                                                       *)

LEMMA NoRunType == NoRun \in Run
BY DEF NoRun, Run

LEMMA NoBackupType == NoBackup \in Backup
BY NoRunType DEF NoBackup, Backup

LEMMA NoCronType == NoCron \in CronJob
BY DEF NoCron, CronJob

\* A status update touches nothing but the bookkeeping.
LEMMA StatusAfterKeeps ==
    ASSUME NEW b \in Backup, NEW r \in Run
    PROVE  /\ StatusAfter(b, r) \in Backup
           /\ StatusAfter(b, r).state = b.state
           /\ StatusAfter(b, r).gen = b.gen
           /\ StatusAfter(b, r).obs = b.obs
           /\ StatusAfter(b, r).last = r
           /\ StatusAfter(b, r).recent = addToRecentRuns(b.recent, r)
<1> DEFINE counts    == shouldIncrementCounters(b.last, r)
           succeeded == counts /\ r.phase = "Succeeded"
           failed    == counts /\ r.phase = "Failed"
           recent == addToRecentRuns(b.recent, r)
           succ == IF succeeded THEN b.succ + 1 ELSE b.succ
           fail == IF succeeded THEN 0 ELSE IF failed THEN b.fail + 1 ELSE b.fail
<1>1. recent \in Seq(Run)
  BY RecentRunsType DEF Backup
<1>2. succ \in Nat /\ fail \in Nat
  <2>1. b.succ \in Nat /\ b.fail \in Nat
    BY DEF Backup
  <2> HIDE DEF succeeded, failed
  <2> QED
    BY <2>1
<1>3. StatusAfter(b, r) = [b EXCEPT !.last = r, !.recent = recent, !.succ = succ, !.fail = fail]
  BY Zenon DEF StatusAfter
<1> HIDE DEF recent, succ, fail
<1> QED
  BY <1>1, <1>2, <1>3 DEF Backup, recent

\* What is left of a CronJob that is gone.
LEMMA GoneCronType ==
    ASSUME cron \in CronJob
    PROVE  [NoCron EXCEPT !.uid = cron.uid] \in CronJob
BY DEF NoCron, CronJob

\* A Job created keeps the sequence of Jobs well formed.
LEMMA CreatedType ==
    ASSUME jobs \in Seq(Job), NEW job \in Job, Created(job)
    PROVE  jobs' \in Seq(Job)
<1>1. LastBorn \in Nat
  <2>1. CASE jobs = <<>>
    BY <2>1 DEF LastBorn
  <2>2. CASE jobs # <<>>
    <3>1. Len(jobs) \in 1 .. Len(jobs)
      BY <2>2, EmptySeq, LenProperties
    <3>2. jobs[Len(jobs)] \in Job
      BY <3>1, ElementOfSeq
    <3> QED
      BY <2>2, <3>2 DEF LastBorn, Job
  <2> QED
    BY <2>1, <2>2
<1>2. PICK second \in {LastBorn, LastBorn + 1} :
           jobs' = Append(jobs, [job EXCEPT !.born = second])
  BY DEF Created
<1>3. second \in Nat
  BY <1>1, <1>2
<1>4. [job EXCEPT !.born = second] \in Job
  BY <1>3 DEF Job
<1> QED
  BY <1>2, <1>4, AppendProperties

\* So does a Job that changes in place.
LEMMA JobStepType ==
    ASSUME jobs \in Seq(Job), NEW j \in Names, NEW job \in Job, JobStep(j, job)
    PROVE  jobs' \in Seq(Job)
BY ExceptSeq DEF JobStep, Names

LEMMA JobStepsType ==
    ASSUME jobs \in Seq(Job), NEW j \in Names,
           PodStarts(j) \/ PodFails(j) \/ PodSucceeds(j) \/ JobFinishes(j)
             \/ JobRemoved(j) \/ GcJob(j)
    PROVE  jobs' \in Seq(Job)
<1>1. jobs[j] \in Job
  BY DEF Names
<1>2. Removed(jobs[j]) \in Job
  BY <1>1 DEF Job, Removed
<1>3. CASE PodStarts(j)
  <2>1. [jobs[j] EXCEPT !.active = 1] \in Job
    BY <1>1 DEF Job
  <2> QED
    BY <1>3, <2>1, JobStepType DEF PodStarts
<1>4. ASSUME NEW job \in Job, PodEnds(j, job)
      PROVE  jobs' \in Seq(Job)
  <2>1. PICK finished \in BOOLEAN :
             JobStep(j, [job EXCEPT !.active = 0, !.finished = finished])
    BY <1>4 DEF PodEnds
  <2>2. [job EXCEPT !.active = 0, !.finished = finished] \in Job
    BY <1>4 DEF Job
  <2> QED
    BY <2>1, <2>2, JobStepType
<1>5. CASE PodFails(j)
  <2>1. \A n \in Nat : [jobs[j] EXCEPT !.failed = n] \in Job
    BY <1>1 DEF Job
  <2>2. jobs[j].failed + 1 \in Nat
    BY <1>1 DEF Job
  <2>3. [jobs[j] EXCEPT !.failed = @ + 1] \in Job
    BY <2>1, <2>2
  <2> QED
    BY <1>4, <1>5, <2>3 DEF PodFails
<1>6. CASE PodSucceeds(j)
  <2>1. [jobs[j] EXCEPT !.succeeded = 1] \in Job
    BY <1>1 DEF Job
  <2> QED
    BY <1>4, <1>6, <2>1 DEF PodSucceeds
<1>7. CASE JobFinishes(j)
  <2>1. [jobs[j] EXCEPT !.finished = TRUE] \in Job
    BY <1>1 DEF Job
  <2> QED
    BY <1>7, <2>1, JobStepType DEF JobFinishes
<1>8. CASE JobRemoved(j)
  BY <1>2, <1>8, JobStepType DEF JobRemoved
<1>9. CASE GcJob(j)
  BY <1>2, <1>9, JobStepType DEF GcJob
<1> QED
  BY <1>3, <1>5, <1>6, <1>7, <1>8, <1>9

\* The environment's steps keep the API server's state well formed.
LEMMA ClusterStepType ==
    ASSUME ClusterTypeOK, ClusterNext
    PROVE  ClusterTypeOK'
<1> USE DEF ClusterTypeOK
<1>1. CASE EditBackup
  <2>1. PICK kind \in Manifests : manifest' = Append(manifest, kind)
    BY <1>1 DEF EditBackup
  <2>2. manifest' \in Seq(Kinds)
    BY <2>1, ClusterAssumption, AppendProperties
  <2>3. backup' \in Backup
    <3>1. \A n \in Nat : [backup EXCEPT !.gen = n] \in Backup
      BY DEF Backup
    <3>2. backup.gen + 1 \in Nat
      BY DEF Backup
    <3> QED
      BY <1>1, <3>1, <3>2 DEF EditBackup
  <2> QED
    BY <1>1, <2>2, <2>3 DEF EditBackup
<1>2. CASE DeleteBackup
  BY <1>2, NoBackupType DEF DeleteBackup, Backup
<1>3. CASE KillCronJob
  <2>1. faults' \in Nat
    BY <1>3 DEF KillCronJob, Fault
  <2> QED
    BY <1>3, <2>1, GoneCronType DEF KillCronJob
<1>4. CASE ScheduleJob
  <2>1. NewJob("cron", cron.uid) \in Job
    BY DEF NewJob, Job, CronJob
  <2> QED
    BY <1>4, <2>1, CreatedType DEF ScheduleJob
<1>5. CASE ForeignJob
  <2>1. NewJob("other", 0) \in Job
    BY DEF NewJob, Job
  <2> QED
    BY <1>5, <2>1, CreatedType DEF ForeignJob
<1>6. CASE \E j \in Names : PodStarts(j) \/ PodFails(j) \/ PodSucceeds(j)
                            \/ JobFinishes(j) \/ JobRemoved(j) \/ GcJob(j)
  <2>1. PICK j \in Names : PodStarts(j) \/ PodFails(j) \/ PodSucceeds(j)
                            \/ JobFinishes(j) \/ JobRemoved(j) \/ GcJob(j)
    BY <1>6
  <2>2. jobs' \in Seq(Job)
    BY <2>1, JobStepsType
  <2>3. UNCHANGED <<manifest, backup, cron, secret, faults>>
    BY <2>1 DEF PodStarts, PodFails, PodSucceeds, PodEnds, JobFinishes, JobRemoved,
                GcJob, JobStep
  <2> QED
    BY <2>2, <2>3
<1>7. CASE GcOrphans
  <2> DEFINE freed(job) == [job EXCEPT !.owner = 0]
  <2>1. \A j \in Names : jobs[j] \in Job /\ freed(jobs[j]) \in Job
    <3>1. \A job \in Job : freed(job) \in Job
      BY DEF Job
    <3>2. \A j \in Names : jobs[j] \in Job
      BY DEF Names
    <3> QED
      BY <3>1, <3>2
  <2>2. Names = 1 .. Len(jobs) /\ Len(jobs) \in Nat
    BY LenProperties DEF Names
  <2>3. jobs' = [j \in Names |-> IF jobs[j].owner = cron.uid /\ ~jobs[j].gone
                                 THEN freed(jobs[j]) ELSE jobs[j]]
    BY <1>7 DEF GcOrphans
  <2> HIDE DEF freed
  <2>4. jobs' \in [1 .. Len(jobs) -> Job]
    BY <2>1, <2>2, <2>3, Zenon
  <2>5. jobs' \in Seq(Job)
    BY <2>2, <2>4, IsASeq
  <2> QED
    BY <1>7, <2>5, GoneCronType DEF GcOrphans
<1>8. CASE GcCronJob
  BY <1>8, GoneCronType DEF GcCronJob
<1>9. CASE GcSecret
  BY <1>9 DEF GcSecret
<1>10. CASE GcBackup
  BY <1>10, NoBackupType DEF GcBackup
<1> QED
  BY <1>1, <1>2, <1>3, <1>4, <1>5, <1>6, <1>7, <1>8, <1>9, <1>10 DEF ClusterNext, Gc

LEMMA FaultType ==
    ASSUME faults \in Nat, NEW kind, Fault(kind)
    PROVE  faults' \in Nat
BY DEF Fault

LEMMA ReadType ==
    ASSUME faults \in Nat, NEW upToDate, Read(upToDate)
    PROVE  faults' \in Nat
BY FaultType DEF Read

LEMMA FinishType ==
    ASSUME NEW again \in BOOLEAN, Finish(again)
    PROVE  WorkerTypeOK'
BY NoBackupType, NoRunType DEF Finish, WorkerTypeOK, Steps

LEMMA DoneType ==
    ASSUME queued \in BOOLEAN, NEW lastRun, Done(lastRun)
    PROVE  WorkerTypeOK'
<1>1. (queued \/ InProgress(lastRun.phase)) \in BOOLEAN
  BY DEF InProgress
<1> QED
  BY <1>1, FinishType DEF Done

LEMMA GoToType ==
    ASSUME WorkerTypeOK, NEW step \in Steps, GoTo(step)
    PROVE  WorkerTypeOK'
BY DEF GoTo, WorkerTypeOK

\* A run status observed in the cache is well formed.
LEMMA ObservedType ==
    ASSUME cJobs \in Seq(Job)
    PROVE  Observed \subseteq Run
<1> SUFFICES ASSUME NEW j \in LatestJobs(cJobs)
             PROVE  buildRunStatus(j, cJobs[j]) \in Run
  BY DEF Observed
<1>1. j \in Nat /\ cJobs[j] \in Job
  BY LenProperties DEF LatestJobs, Related
<1>2. cJobs[j].finished \in BOOLEAN
  BY <1>1 DEF Job
<1> QED
  BY <1>1, <1>2, BuiltRunType

\* The first half of a reconcile only reads.
LEMMA RouteType ==
    ASSUME TypeOK,
           SkipDeleted \/ TakeBackup \/ RejectInvalid \/ KeepSchedule
             \/ handleBackupCreate \/ handleBackupUpdate
    PROVE  TypeOK'
<1> USE DEF TypeOK, ClusterTypeOK, CacheTypeOK
<1>1. Dequeue \/ Route
  BY DEF SkipDeleted, TakeBackup, RejectInvalid, KeepSchedule, handleBackupCreate,
         handleBackupUpdate, Build
<1>2. ClusterTypeOK' /\ CacheTypeOK'
  BY <1>1, ReadType DEF Dequeue, Route, caches
<1>3. CASE SkipDeleted \/ RejectInvalid
  BY <1>2, <1>3, FinishType DEF SkipDeleted, RejectInvalid, Retry
<1>4. CASE TakeBackup
  BY <1>2, <1>4 DEF TakeBackup, WorkerTypeOK, Steps
<1>5. CASE KeepSchedule
  BY <1>2, <1>5, GoToType DEF KeepSchedule, Steps
<1>6. CASE handleBackupCreate \/ handleBackupUpdate
  BY <1>2, <1>6 DEF handleBackupCreate, handleBackupUpdate, Build, WorkerTypeOK, Steps
<1> QED
  BY <1>3, <1>4, <1>5, <1>6

\* So do the calls that write, up to the record of the generation.
LEMMA BuildType ==
    ASSUME TypeOK,
           CreateSecret \/ deleteCronJob \/ createCronJob \/ CronJobRejected
             \/ CronJobExists \/ hasRunningBackupJob \/ triggerManualBackupJob
             \/ AlreadyRecorded \/ recordObservedGeneration \/ RecordNotFound
    PROVE  TypeOK'
<1> USE DEF TypeOK, ClusterTypeOK, CacheTypeOK
<1>1. bk.gen \in Nat /\ cron.uid \in Nat
  BY DEF WorkerTypeOK, Backup, CronJob
<1>2. CASE CreateSecret
  BY <1>1, <1>2, GoToType DEF CreateSecret, caches, Steps
<1>3. CASE deleteCronJob
  <2>1. Deleted(cron) \in CronJob
    BY DEF Deleted, CronJob
  <2> QED
    BY <1>3, <2>1, GoToType DEF deleteCronJob, caches, Steps
<1>4. CASE createCronJob
  <2>1. cron.uid + 1 \in Nat
    BY <1>1
  <2>2. BuiltCronJob(bk.gen, cron.uid + 1) \in CronJob
    BY <1>1, <2>1 DEF BuiltCronJob, CronJob
  <2> QED
    BY <1>4, <2>2, GoToType DEF createCronJob, caches, Steps
<1>5. CASE CronJobRejected \/ RecordNotFound
  BY <1>5, FinishType DEF CronJobRejected, RecordNotFound, Retry, caches, clusterVars
<1>6. CASE CronJobExists
  <2>1. ClusterTypeOK' /\ CacheTypeOK'
    BY <1>6 DEF CronJobExists, caches, clusterVars
  <2>2. WorkerTypeOK'
    BY <1>6, FinishType DEF CronJobExists, Retry, WorkerTypeOK, Steps
  <2> QED
    BY <2>1, <2>2
<1>7. CASE hasRunningBackupJob
  BY <1>7, ReadType, GoToType DEF hasRunningBackupJob, caches, Steps
<1>8. CASE triggerManualBackupJob
  <2>1. NewJob("manual", cron.uid) \in Job
    BY <1>1 DEF NewJob, Job
  <2> QED
    BY <1>8, <2>1, CreatedType, GoToType DEF triggerManualBackupJob, caches, Steps
<1>9. CASE AlreadyRecorded
  BY <1>9, GoToType DEF AlreadyRecorded, caches, clusterVars, Steps
<1>10. CASE recordObservedGeneration
  <2>1. [backup EXCEPT !.obs = bk.gen] \in Backup
    BY <1>1 DEF Backup
  <2> QED
    BY <1>10, <2>1 DEF recordObservedGeneration, caches, WorkerTypeOK, Steps
<1> QED
  BY <1>2, <1>3, <1>4, <1>5, <1>6, <1>7, <1>8, <1>9, <1>10

\* And the status update that ends a reconcile.
LEMMA ReportType ==
    ASSUME TypeOK,
           NothingToReport \/ reconcileJobStatus
             \/ UpdateStatus \/ StatusConflict \/ StatusNotFound
    PROVE  TypeOK'
<1> USE DEF TypeOK, ClusterTypeOK, CacheTypeOK
<1>0. queued \in BOOLEAN
  BY DEF WorkerTypeOK
<1>1. ASSUME ListJobs
      PROVE  ClusterTypeOK' /\ CacheTypeOK'
  BY <1>1, ReadType DEF ListJobs, caches
<1>2. CASE NothingToReport
  BY <1>0, <1>1, <1>2, DoneType DEF NothingToReport
<1>3. CASE reconcileJobStatus
  <2>1. run' \in Run
    BY <1>3, ObservedType DEF reconcileJobStatus
  <2> QED
    BY <1>1, <1>3, <2>1 DEF reconcileJobStatus, WorkerTypeOK, Steps
<1>4. CASE UpdateStatus
  <2>1. StatusAfter(bk, run) \in Backup
    BY StatusAfterKeeps DEF WorkerTypeOK
  <2>2. WorkerTypeOK' /\ faults' \in Nat
    BY <1>0, <1>4, DoneType, FinishType, FaultType DEF UpdateStatus, Retry
  <2> QED
    BY <1>4, <2>1, <2>2 DEF UpdateStatus, caches
<1>5. CASE StatusConflict
  BY <1>0, <1>5, DoneType DEF StatusConflict, caches, clusterVars
<1>6. CASE StatusNotFound
  BY <1>6, FinishType DEF StatusNotFound, Retry, caches, clusterVars
<1> QED
  BY <1>2, <1>3, <1>4, <1>5, <1>6

LEMMA TypeInit == Init => TypeOK
<1> SUFFICES ASSUME Init PROVE TypeOK
  OBVIOUS
<1>1. manifest \in Seq(Kinds)
  BY ClusterAssumption DEF Init, ClusterInit
<1>2. backup \in Backup
  BY NoBackupType DEF Init, ClusterInit, Backup
<1> QED
  BY <1>1, <1>2, NoBackupType, NoCronType, NoRunType, EmptySeq
  DEF Init, ClusterInit, TypeOK, ClusterTypeOK, CacheTypeOK, WorkerTypeOK, Steps

LEMMA TypeStep == TypeOK /\ [Next]_vars => TypeOK'
<1> SUFFICES ASSUME TypeOK, [Next]_vars PROVE TypeOK'
  OBVIOUS
<1> USE DEF TypeOK, ClusterTypeOK, CacheTypeOK
<1>1. CASE ClusterNext /\ UNCHANGED <<caches, workerVars>>
  BY <1>1, ClusterStepType DEF caches, workerVars, WorkerTypeOK
<1>2. CASE Watch
  <2>1. (queued \/ \E j \in Names : JobEvent(j)) \in BOOLEAN
    BY DEF WorkerTypeOK
  <2>2. clusterVars' = clusterVars
    BY <1>2 DEF Watch, WatchBackup, WatchCronJob, WatchJobs
  <2>3. ClusterTypeOK' /\ CacheTypeOK'
    BY <1>2, <2>2 DEF Watch, WatchBackup, WatchCronJob, WatchJobs, clusterVars
  <2>4. WorkerTypeOK'
    BY <1>2, <2>1 DEF Watch, WatchBackup, WatchCronJob, WatchJobs, WorkerTypeOK
  <2> QED
    BY <2>3, <2>4
<1>3. CASE Resync
  BY <1>3 DEF Resync, caches, clusterVars, WorkerTypeOK
<1>4. CASE Reconcile
  BY <1>4, RouteType, BuildType, ReportType DEF Reconcile
<1>5. CASE RequestFails
  BY <1>5, FaultType, FinishType DEF RequestFails, Retry, caches
<1>6. CASE OperatorRestart
  BY <1>6, FaultType, FinishType DEF OperatorRestart, Retry
<1>7. CASE UNCHANGED vars
  BY <1>7 DEF vars, clusterVars, caches, workerVars, WorkerTypeOK
<1> QED
  BY <1>1, <1>2, <1>3, <1>4, <1>5, <1>6, <1>7 DEF Next

\* The type invariant holds of every reachable state.
THEOREM TypeCorrect == Spec => []TypeOK
BY TypeInit, TypeStep, PTL DEF Spec
-----------------------------------------------------------------------------
(* The schedule.                                                           *)

\* All that ScheduleInv says anything about, apart from the worker.
View == <<manifest, backup.state, backup.gen, backup.obs, cron.state, cron.gen,
          secret, cBackup.state, cBackup.gen>>

\* The numbers ScheduleInv compares.
LEMMA Numbers ==
    ASSUME TypeOK
    PROVE  /\ backup.gen \in Nat /\ backup.obs \in Nat
           /\ cBackup.gen \in Nat /\ bk.gen \in Nat
           /\ cron.gen \in Nat /\ secret \in Nat
           /\ Len(manifest) \in Nat
<1>1. Len(manifest) \in Nat
  BY LenProperties DEF TypeOK, ClusterTypeOK
<1> QED
  BY <1>1 DEF TypeOK, ClusterTypeOK, CacheTypeOK, WorkerTypeOK, Backup, CronJob

LEMMA ScheduleInit == Init => ScheduleInv
<1> SUFFICES ASSUME Init PROVE ScheduleInv
  OBVIOUS
<1>1. Len(manifest) = 1
  BY DEF Init, ClusterInit
<1>2. backup.state = "live" /\ backup.gen = 1 /\ backup.obs = 0
  BY DEF Init, ClusterInit, NoBackup
<1> QED
  BY <1>1, <1>2 DEF Init, ClusterInit, ScheduleInv, BackupInv, CacheInv, CronInv,
                    WorkerInv, SecretInv, NoBackup, NoCron, Holding, Building

\* A step that leaves the view alone, and drops the worker's copy or takes it
\* on without creating anything, preserves the invariant.
LEMMA ScheduleFrame ==
    ASSUME ScheduleInv, UNCHANGED View,
           pc' \in Holding =>
             /\ bk' = bk /\ pc \in Holding
             /\ pc' \in Constructed => pc \in Constructed
             /\ pc' \in Building \ {"secret"} => pc \in Building \ {"secret"}
    PROVE  ScheduleInv'
<1>1. WorkerInv'
  BY DEF View, ScheduleInv, WorkerInv
<1>2. SecretInv'
  BY DEF View, ScheduleInv, SecretInv, Holding
<1> QED
  BY <1>1, <1>2 DEF View, ScheduleInv, BackupInv, CacheInv, CronInv

\* The user, the other controllers and the garbage collector.
LEMMA ScheduleCluster ==
    ASSUME TypeOK, TypeOK', ScheduleInv, ClusterNext, UNCHANGED <<caches, workerVars>>
    PROVE  ScheduleInv'
<1>1. cBackup' = cBackup /\ pc' = pc /\ bk' = bk
  BY DEF caches, workerVars
<1> USE Numbers
<1> USE DEF ScheduleInv, BackupInv, CacheInv, CronInv, WorkerInv, SecretInv
<1>2. CASE EditBackup
  <2>1. Len(manifest') = Len(manifest) + 1
    BY <1>2, AppendProperties DEF EditBackup, TypeOK, ClusterTypeOK
  <2>2. /\ backup'.state = backup.state /\ backup'.obs = backup.obs
        /\ backup'.gen = backup.gen + 1 /\ backup.state = "live"
        /\ cron' = cron /\ secret' = secret
    BY <1>2 DEF EditBackup, TypeOK, ClusterTypeOK, Backup
  <2> QED
    BY <1>1, <2>1, <2>2
<1>3. CASE DeleteBackup \/ GcBackup
  <2>1. \/ backup'.state = "absent" /\ backup'.gen = 0 /\ backup'.obs = 0
        \/ /\ backup'.state = "deleting" /\ backup.state = "live"
           /\ backup'.gen = backup.gen /\ backup'.obs = backup.obs
    <3>1. backup \in Backup
      BY DEF TypeOK, ClusterTypeOK
    <3>2. CASE backup' = [backup EXCEPT !.state = "deleting"]
      BY <1>3, <3>1, <3>2 DEF DeleteBackup, GcBackup, NoBackup, Backup
    <3>3. CASE backup' = NoBackup
      BY <3>3 DEF NoBackup
    <3> QED
      BY <1>3, <3>2, <3>3 DEF DeleteBackup, GcBackup
  <2>2. cron' = cron /\ secret' = secret /\ manifest' = manifest
    BY <1>3 DEF DeleteBackup, GcBackup
  <2> QED
    BY <1>1, <2>1, <2>2
<1>4. CASE KillCronJob \/ GcOrphans \/ GcCronJob
  <2>1. cron'.state = "absent"
    BY <1>4 DEF KillCronJob, GcOrphans, GcCronJob, NoCron
  <2>2. backup' = backup /\ secret' = secret /\ manifest' = manifest
    BY <1>4 DEF KillCronJob, GcOrphans, GcCronJob
  <2> QED
    BY <1>1, <2>1, <2>2
<1>5. CASE GcSecret
  BY <1>1, <1>5 DEF GcSecret
<1>6. CASE ScheduleJob \/ ForeignJob
           \/ \E j \in Names : PodStarts(j) \/ PodFails(j) \/ PodSucceeds(j)
                               \/ JobFinishes(j) \/ JobRemoved(j) \/ GcJob(j)
  <2>1. UNCHANGED <<manifest, backup, cron, secret>>
    BY <1>6 DEF ScheduleJob, ForeignJob, PodStarts, PodFails, PodSucceeds, PodEnds,
                JobFinishes, JobRemoved, GcJob, JobStep
  <2> QED
    BY <1>1, <2>1
<1> QED
  BY <1>2, <1>3, <1>4, <1>5, <1>6 DEF ClusterNext, Gc

\* The steps of a reconcile.
LEMMA ScheduleReconcile ==
    ASSUME TypeOK, TypeOK', ScheduleInv, Reconcile
    PROVE  ScheduleInv'
<1>1. CASE \/ SkipDeleted \/ RejectInvalid \/ KeepSchedule
           \/ handleBackupCreate \/ handleBackupUpdate
  <2>1. UNCHANGED View
    BY <1>1 DEF SkipDeleted, RejectInvalid, KeepSchedule, handleBackupCreate,
       handleBackupUpdate, Build, Dequeue, Route, View, caches
  <2>2. \/ pc' \in {"idle", "jobs"}
        \/ pc = "route" /\ pc' = "secret" /\ bk' = bk
    BY <1>1 DEF SkipDeleted, RejectInvalid, KeepSchedule, handleBackupCreate,
       handleBackupUpdate, Build, Route, Retry, Finish, GoTo
  <2> QED
    BY <2>1, <2>2, ScheduleFrame DEF Holding, Building, Constructed
<1>2. CASE TakeBackup
  <2>1. /\ cBackup.state = "live" /\ bk' = cBackup /\ pc' = "route"
        /\ UNCHANGED <<manifest, backup, cron, secret, cBackup>>
    BY <1>2 DEF TakeBackup, Dequeue, caches
  <2> QED
    BY <2>1, Numbers DEF ScheduleInv, BackupInv, CacheInv, CronInv, WorkerInv, SecretInv,
       Building, Constructed
<1>3. CASE CreateSecret
  <2>1. /\ pc = "secret" /\ pc' \in {"create", "delete"} /\ secret' = bk.gen
        /\ UNCHANGED <<manifest, backup, cron, cBackup, bk>>
    BY <1>3 DEF CreateSecret, GoTo, caches
  <2> QED
    BY <2>1, Numbers DEF ScheduleInv, BackupInv, CacheInv, CronInv, WorkerInv, SecretInv,
       Holding, Building, Constructed
<1>4. CASE deleteCronJob
  <2>1. /\ pc = "delete" /\ pc' = "create" /\ cron'.state # "live"
        /\ UNCHANGED <<manifest, backup, secret, cBackup, bk>>
    BY <1>4 DEF deleteCronJob, Deleted, GoTo, caches, TypeOK, ClusterTypeOK, CronJob
  <2> QED
    BY <2>1 DEF ScheduleInv, BackupInv, CacheInv, CronInv, WorkerInv, SecretInv,
       Holding, Building, Constructed
<1>5. CASE createCronJob
  <2>1. /\ pc = "create" /\ pc' \in {"record", "check"}
        /\ cron'.state = "live" /\ cron'.gen = bk.gen
        /\ UNCHANGED <<manifest, backup, secret, cBackup, bk>>
    BY <1>5 DEF createCronJob, BuiltCronJob, GoTo, caches
  <2> QED
    BY <2>1, Numbers DEF ScheduleInv, BackupInv, CacheInv, CronInv, WorkerInv, SecretInv,
       Holding, Building, Constructed
<1>6. CASE CronJobRejected \/ CronJobExists \/ RecordNotFound \/ AlreadyRecorded
  BY <1>6, ScheduleFrame DEF CronJobRejected, CronJobExists, RecordNotFound,
     AlreadyRecorded, Retry, Finish, GoTo, View, caches, clusterVars, Holding, Building
<1>7. CASE hasRunningBackupJob
  BY <1>7, ScheduleFrame DEF hasRunningBackupJob, GoTo, View, caches, Holding, Building, Constructed
<1>8. CASE triggerManualBackupJob
  BY <1>8, ScheduleFrame DEF triggerManualBackupJob, GoTo, View, caches, Holding, Building,
     Constructed
<1>9. CASE recordObservedGeneration
  <2>1. /\ pc = "record" /\ pc' = "jobs" /\ backup.state # "absent"
        /\ backup'.state = backup.state /\ backup'.gen = backup.gen
        /\ backup'.obs = bk.gen
        /\ UNCHANGED <<manifest, cron, secret, cBackup>>
    BY <1>9 DEF recordObservedGeneration, caches, TypeOK, ClusterTypeOK, Backup
  <2> QED
    BY <2>1, Numbers DEF ScheduleInv, BackupInv, CacheInv, CronInv, WorkerInv, SecretInv,
       Holding, Building, Constructed
<1>10. CASE NothingToReport \/ reconcileJobStatus
  BY <1>10, ScheduleFrame DEF NothingToReport, reconcileJobStatus, ListJobs, Done,
     Finish, View, caches, Holding, Building
<1>11. CASE UpdateStatus
  <2>1. /\ backup'.state = backup.state /\ backup'.gen = backup.gen
        /\ backup'.obs = backup.obs
    <3>1. bk = backup /\ backup' = StatusAfter(bk, run)
      BY <1>11 DEF UpdateStatus
    <3>2. run \in Run /\ bk \in Backup
      BY DEF TypeOK, WorkerTypeOK
    <3>3. /\ StatusAfter(bk, run).state = bk.state
          /\ StatusAfter(bk, run).gen = bk.gen
          /\ StatusAfter(bk, run).obs = bk.obs
      BY <3>2, StatusAfterKeeps
    <3> QED
      BY <3>1, <3>3
  <2> QED
    BY <1>11, <2>1, ScheduleFrame DEF UpdateStatus, Done, Retry, Finish, View, caches, Holding, Building
<1>12. CASE StatusConflict \/ StatusNotFound
  BY <1>12, ScheduleFrame DEF StatusConflict, StatusNotFound, Done, Retry, Finish, View,
     caches, clusterVars, Holding, Building
<1> QED
  BY <1>1, <1>2, <1>3, <1>4, <1>5, <1>6, <1>7, <1>8, <1>9, <1>10, <1>11, <1>12
  DEF Reconcile

LEMMA ScheduleStep == TypeOK /\ TypeOK' /\ ScheduleInv /\ [Next]_vars => ScheduleInv'
<1> SUFFICES ASSUME TypeOK, TypeOK', ScheduleInv, [Next]_vars PROVE ScheduleInv'
  OBVIOUS
<1>1. CASE ClusterNext /\ UNCHANGED <<caches, workerVars>>
  BY <1>1, ScheduleCluster
<1>2. CASE WatchBackup
  <2>1. cBackup' = backup /\ UNCHANGED <<manifest, backup, cron, secret, pc, bk>>
    BY <1>2 DEF WatchBackup, clusterVars
  <2> QED
    BY <2>1, Numbers DEF ScheduleInv, BackupInv, CacheInv, CronInv, WorkerInv, SecretInv
<1>3. CASE WatchCronJob \/ WatchJobs \/ Resync \/ UNCHANGED vars
  BY <1>3, ScheduleFrame DEF WatchCronJob, WatchJobs, Resync, View, vars, clusterVars,
     caches, workerVars
<1>4. CASE Reconcile
  BY <1>4, ScheduleReconcile
<1>5. CASE RequestFails
  BY <1>5, ScheduleFrame DEF RequestFails, Retry, Finish, View, caches, Holding, Building
<1>6. CASE OperatorRestart
  <2>1. /\ cBackup' = backup /\ pc' = "idle"
        /\ UNCHANGED <<manifest, backup, cron, secret>>
    BY <1>6 DEF OperatorRestart, Retry, Finish
  <2> QED
    BY <2>1, Numbers DEF ScheduleInv, BackupInv, CacheInv, CronInv, WorkerInv, SecretInv,
       Holding, Building
<1> QED
  BY <1>1, <1>2, <1>3, <1>4, <1>5, <1>6 DEF Next, Watch

LEMMA ScheduleCorrect == Spec => []ScheduleInv
BY TypeCorrect, ScheduleInit, ScheduleStep, PTL DEF Spec

\* A live CronJob is never older than the generation the status acknowledges,
\* for every number of edits, faults and retries.
THEOREM ObservedSound == Spec => []ObservedImpliesBuilt
<1>1. ScheduleInv => ObservedImpliesBuilt
  BY DEF ScheduleInv, CronInv, ObservedImpliesBuilt
<1> QED
  BY <1>1, ScheduleCorrect, PTL

\* The Secret of a live Backup is never older than its CronJob.
THEOREM SecretSound == Spec => []SecretCoversSchedule
<1>1. ScheduleInv => SecretCoversSchedule
  BY DEF ScheduleInv, SecretInv, SecretCoversSchedule
<1> QED
  BY <1>1, ScheduleCorrect, PTL

\* The ways a step can touch what the contract sees.
LEMMA ContractSteps ==
    ASSUME TypeOK, [Next]_vars
    PROVE  \/ EditBackup \/ DeleteBackup \/ GcBackup \/ recordObservedGeneration
           \/ /\ backup' = backup /\ manifest' = manifest
              /\ cron.state = "live" => cron'.state # "live"
           \/ UNCHANGED <<manifest, backup.state, backup.obs, cron>>
<1>1. CASE ClusterNext
  BY <1>1 DEF ClusterNext, Gc, KillCronJob, ScheduleJob, ForeignJob, PodStarts, PodFails,
     PodSucceeds, PodEnds, JobFinishes, JobRemoved, GcJob, JobStep, GcOrphans, GcCronJob,
     GcSecret, NoCron
<1>2. CASE Watch \/ Resync \/ RequestFails \/ OperatorRestart \/ UNCHANGED vars
  BY <1>2 DEF Watch, WatchBackup, WatchCronJob, WatchJobs, Resync, RequestFails,
     OperatorRestart, vars, clusterVars
<1>3. CASE UpdateStatus
  <2>1. backup'.state = backup.state /\ backup'.obs = backup.obs
    <3>1. bk = backup /\ backup' = StatusAfter(bk, run)
      BY <1>3 DEF UpdateStatus
    <3>2. run \in Run /\ bk \in Backup
      BY DEF TypeOK, WorkerTypeOK
    <3>3. StatusAfter(bk, run).state = bk.state /\ StatusAfter(bk, run).obs = bk.obs
      BY <3>2, StatusAfterKeeps
    <3> QED
      BY <3>1, <3>3
  <2> QED
    BY <1>3, <2>1 DEF UpdateStatus
<1>4. CASE deleteCronJob
  BY <1>4 DEF deleteCronJob, Deleted, TypeOK, ClusterTypeOK, CronJob
<1>5. CASE createCronJob
  BY <1>5 DEF createCronJob
<1>6. CASE \/ SkipDeleted \/ TakeBackup \/ RejectInvalid \/ KeepSchedule
           \/ handleBackupCreate \/ handleBackupUpdate
  BY <1>6 DEF SkipDeleted, TakeBackup, RejectInvalid, KeepSchedule, handleBackupCreate,
     handleBackupUpdate, Build, Dequeue, Route
<1>7. CASE \/ CreateSecret \/ CronJobRejected \/ CronJobExists
           \/ hasRunningBackupJob \/ triggerManualBackupJob
           \/ AlreadyRecorded \/ RecordNotFound
           \/ NothingToReport \/ reconcileJobStatus
           \/ StatusConflict \/ StatusNotFound
  BY <1>7 DEF CreateSecret, CronJobRejected, CronJobExists, hasRunningBackupJob,
     triggerManualBackupJob, AlreadyRecorded, RecordNotFound, NothingToReport, ListJobs,
     reconcileJobStatus, StatusConflict, StatusNotFound, clusterVars
<1> QED
  BY <1>1, <1>2, <1>3, <1>4, <1>5, <1>6, <1>7 DEF Next, Reconcile

\* A Secret is never of a generation to come.
LEMMA SecretBounded == Spec => [](secret <= Len(manifest))
<1>1. Init => secret <= Len(manifest)
  BY DEF Init, ClusterInit
<1>2. TypeOK /\ TypeOK' /\ ScheduleInv /\ secret <= Len(manifest) /\ [Next]_vars =>
          (secret <= Len(manifest))'
  <2> SUFFICES ASSUME TypeOK, TypeOK', ScheduleInv, secret <= Len(manifest), [Next]_vars
               PROVE  secret' <= Len(manifest')
    OBVIOUS
  <2>1. Len(manifest) <= Len(manifest')
    <3>1. CASE EditBackup
      BY <3>1, Numbers, AppendProperties DEF EditBackup, TypeOK, ClusterTypeOK
    <3>2. CASE ~EditBackup
      <4>1. manifest' = manifest
        BY <3>2, ContractSteps DEF DeleteBackup, GcBackup, recordObservedGeneration
      <4> QED
        BY <4>1, Numbers
    <3> QED
      BY <3>1, <3>2
  <2>2. secret' = secret \/ secret' = 0 \/ CreateSecret
    BY DEF Next, ClusterNext, Gc, EditBackup, DeleteBackup, KillCronJob, ScheduleJob,
       ForeignJob, PodStarts, PodFails, PodSucceeds, PodEnds, JobFinishes, JobRemoved, GcJob,
       JobStep, GcOrphans, GcCronJob, GcSecret, GcBackup, Watch, WatchBackup, WatchCronJob,
       WatchJobs, Resync, RequestFails, OperatorRestart, Reconcile, SkipDeleted,
       TakeBackup, RejectInvalid, KeepSchedule, handleBackupCreate, handleBackupUpdate,
       Build, Dequeue, Route,
       deleteCronJob, createCronJob, CronJobRejected, CronJobExists, hasRunningBackupJob,
       triggerManualBackupJob, AlreadyRecorded, recordObservedGeneration, RecordNotFound,
       NothingToReport, ListJobs, reconcileJobStatus, UpdateStatus, StatusConflict,
       StatusNotFound, vars, clusterVars
  <2>3. CASE CreateSecret
    BY <2>1, <2>3, Numbers, LenProperties
    DEF CreateSecret, ScheduleInv, WorkerInv, Holding, Building, TypeOK, ClusterTypeOK
  <2>4. Len(manifest') \in Nat
    BY LenProperties DEF TypeOK, ClusterTypeOK
  <2> QED
    BY <2>1, <2>2, <2>3, <2>4, Numbers
<1> QED
  BY <1>1, <1>2, TypeCorrect, ScheduleCorrect, PTL DEF Spec

\* When the status of a Backup that lives acknowledges its newest generation,
\* the CronJob in force and the Secret its Jobs mount are of that generation:
\* what a client waits for when it compares observedGeneration to generation.
THEOREM AcknowledgedIsCurrent ==
    Spec => [](backup.state = "live" /\ backup.obs = backup.gen /\ cron.state = "live" =>
                   cron.gen = backup.gen /\ secret = backup.gen)
<1>1. TypeOK /\ ScheduleInv /\ secret <= Len(manifest) =>
          (backup.state = "live" /\ backup.obs = backup.gen /\ cron.state = "live" =>
              cron.gen = backup.gen /\ secret = backup.gen)
  BY Numbers DEF ScheduleInv, BackupInv, CronInv, SecretInv
<1> QED
  BY <1>1, TypeCorrect, ScheduleCorrect, SecretBounded, PTL

\* Every step of the controller and of the cluster is a step of the contract
\* of a schedule, or leaves it alone.
THEOREM ContractKept == Spec => ImplementsContract
<1> USE DEF Contract!vars
<1>1. Init => Contract!Init
  BY DEF Init, ClusterInit, NoCron, NoBackup, Contract!Init
<1>2. TypeOK /\ TypeOK' /\ ScheduleInv /\ ScheduleInv' /\ [Next]_vars => [Contract!Next]_(Contract!vars)
  <2> SUFFICES ASSUME TypeOK, TypeOK', ScheduleInv, ScheduleInv', [Next]_vars
               PROVE  Contract!Next \/ UNCHANGED Contract!vars
    OBVIOUS
  <2>1. CASE EditBackup
    <3>1. Len(manifest') = Len(manifest) + 1
      BY <2>1, AppendProperties DEF EditBackup, TypeOK, ClusterTypeOK
    <3>2. /\ backup'.state = backup.state /\ backup.state = "live"
          /\ backup'.obs = backup.obs /\ cron' = cron
      BY <2>1 DEF EditBackup, TypeOK, ClusterTypeOK, Backup
    <3> QED
      BY <3>1, <3>2 DEF Contract!Next, Contract!Edit
  <2>2. CASE backup' = backup /\ manifest' = manifest
             /\ (cron.state = "live" => cron'.state # "live")
    <3>1. CASE cron.state = "live"
      BY <2>2, <3>1, Numbers DEF Contract!Next, Contract!Withdraw, ScheduleInv, CronInv
    <3>2. CASE cron.state # "live" /\ cron'.state # "live"
      BY <2>2, <3>2
    <3>3. CASE cron.state # "live" /\ cron'.state = "live"
      <4>1. /\ cron'.gen \in 1 .. Len(manifest)
            /\ cron'.gen >= backup.obs
        BY <2>2, <3>3, Numbers DEF ScheduleInv, CronInv, TypeOK, ClusterTypeOK, CronJob
      <4> QED
        BY <2>2, <3>3, <4>1 DEF Contract!Next, Contract!Build
    <3> QED
      BY <3>1, <3>2, <3>3
  <2>3. CASE recordObservedGeneration
    <3>1. /\ pc = "record" /\ backup.state # "absent" /\ bk.gen # bk.obs
          /\ backup'.state = backup.state /\ backup'.obs = bk.gen
          /\ UNCHANGED <<manifest, cron>>
      BY <2>3 DEF recordObservedGeneration, Reconciled, TypeOK, ClusterTypeOK, Backup
    <3>2. /\ bk.gen \in backup.obs .. Len(manifest)
          /\ cron.state = "live" => cron.gen = bk.gen
      BY <3>1, Numbers DEF ScheduleInv, WorkerInv, Holding, Building, Constructed
    <3>3. CASE bk.gen = backup.obs
      BY <3>1, <3>3
    <3>4. CASE bk.gen # backup.obs
      <4>1. bk.gen \in (backup.obs + 1) .. Len(manifest)
        BY <3>2, <3>4, Numbers
      <4> QED
        BY <3>1, <3>2, <4>1 DEF Contract!Next, Contract!Acknowledge
    <3> QED
      BY <3>3, <3>4
  <2>4. CASE DeleteBackup \/ GcBackup
    <3>1. /\ backup.state # "absent" /\ UNCHANGED <<manifest, cron>>
          /\ \/ backup'.state = "absent" /\ backup'.obs = 0
             \/ backup'.state = "deleting" /\ backup'.obs = backup.obs
      BY <2>4 DEF DeleteBackup, GcBackup, NoBackup, TypeOK, ClusterTypeOK, Backup
    <3> QED
      BY <3>1 DEF Contract!Next, Contract!Retire
  <2>5. CASE UNCHANGED <<manifest, backup.state, backup.obs, cron>>
    BY <2>5
  <2> QED
    BY <2>1, <2>2, <2>3, <2>4, <2>5, ContractSteps
<1>3. Spec => Contract!Init /\ [][Contract!Next]_(Contract!vars)
  BY <1>1, <1>2, TypeCorrect, ScheduleCorrect, PTL DEF Spec
<1> QED
  BY <1>3 DEF ImplementsContract, Contract!Spec
-----------------------------------------------------------------------------
(* The recent runs.                                                        *)

\* Only a status update changes a Backup's runs and counts, unless it goes.
LEMMA RecentSteps ==
    ASSUME TypeOK, [Next]_vars
    PROVE  \/ UNCHANGED <<backup.last, backup.recent, backup.succ, backup.fail>>
           \/ backup' = NoBackup
           \/ UpdateStatus
<1>1. CASE EditBackup \/ DeleteBackup \/ GcBackup \/ recordObservedGeneration
  BY <1>1 DEF EditBackup, DeleteBackup, GcBackup, recordObservedGeneration,
     TypeOK, ClusterTypeOK, Backup
<1>2. CASE backup' = backup
  BY <1>2
<1>3. CASE ClusterNext
  BY <1>1, <1>2, <1>3
  DEF ClusterNext, Gc, KillCronJob, ScheduleJob, ForeignJob, PodStarts, PodFails,
      PodSucceeds, PodEnds, JobFinishes, JobRemoved, GcJob, JobStep, GcOrphans, GcCronJob,
      GcSecret
<1>4. CASE Watch \/ Resync \/ RequestFails \/ OperatorRestart \/ UNCHANGED vars
  BY <1>2, <1>4 DEF Watch, WatchBackup, WatchCronJob, WatchJobs, Resync, RequestFails,
     OperatorRestart, vars, clusterVars
<1>5. CASE \/ SkipDeleted \/ TakeBackup \/ RejectInvalid \/ KeepSchedule
           \/ handleBackupCreate \/ handleBackupUpdate
  BY <1>2, <1>5 DEF SkipDeleted, TakeBackup, RejectInvalid, KeepSchedule,
     handleBackupCreate, handleBackupUpdate, Build, Dequeue, Route
<1>6. CASE \/ CreateSecret \/ deleteCronJob \/ createCronJob
           \/ CronJobRejected \/ CronJobExists
           \/ hasRunningBackupJob \/ triggerManualBackupJob
           \/ AlreadyRecorded \/ RecordNotFound
           \/ NothingToReport \/ reconcileJobStatus
           \/ StatusConflict \/ StatusNotFound
  BY <1>2, <1>6 DEF CreateSecret, deleteCronJob, createCronJob, CronJobRejected,
     CronJobExists, hasRunningBackupJob, triggerManualBackupJob, AlreadyRecorded,
     RecordNotFound, NothingToReport, ListJobs, reconcileJobStatus, StatusConflict,
     StatusNotFound, clusterVars
<1> QED
  BY <1>1, <1>3, <1>4, <1>5, <1>6 DEF Next, Reconcile

\* The last run is always among the recent runs, each Job once, in the window.
THEOREM RecentRunsSound == Spec => []LastRunListed
<1>1. Init => LastRunListed
  BY MaxRecentRunsAssumption DEF Init, ClusterInit, NoBackup, LastRunListed
<1>2. TypeOK /\ LastRunListed /\ [Next]_vars => LastRunListed'
  <2> SUFFICES ASSUME TypeOK, LastRunListed, [Next]_vars PROVE LastRunListed'
    OBVIOUS
  <2>1. CASE UNCHANGED <<backup.last, backup.recent, backup.succ, backup.fail>>
    BY <2>1 DEF LastRunListed
  <2>2. CASE backup' = NoBackup
    BY <2>2, MaxRecentRunsAssumption DEF NoBackup, LastRunListed
  <2>3. CASE UpdateStatus
    <3>1. backup' = StatusAfter(backup, run) /\ run \in Run /\ backup \in Backup
      BY <2>3 DEF UpdateStatus, TypeOK, ClusterTypeOK, WorkerTypeOK
    <3>2. backup'.last = run /\ backup'.recent = addToRecentRuns(backup.recent, run)
      BY <3>1, StatusAfterKeeps
    <3>3. /\ backup.recent \in Seq(Run)
          /\ NamesDiffer(backup.recent)
          /\ Len(backup.recent) <= MaxRecentRuns
      BY <3>1 DEF Backup, LastRunListed, NamesDiffer
    <3> QED
      BY <3>1, <3>2, <3>3, WindowKept DEF LastRunListed, NamesDiffer
  <2> QED
    BY <2>1, <2>2, <2>3, RecentSteps
<1> QED
  BY <1>1, <1>2, TypeCorrect, PTL DEF Spec
=============================================================================
