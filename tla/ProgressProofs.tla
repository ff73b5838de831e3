---------------------------- MODULE ProgressProofs ---------------------------
(***************************************************************************)
(* The controller at rest, for every value of the constants: it comes to   *)
(* rest only with the schedule built, and a schedule built and noticed     *)
(* stays.  These are the halves of Converges that need no fairness.        *)
(***************************************************************************)
EXTENDS BackupControllerProofs

\* The cache knows of no later CronJob than there is, and of the absence of
\* this one only if it is gone.  The one a rebuild has created is news to it,
\* unless its event is on the queue.
CronSeenInv ==
    /\ cCron.uid <= cron.uid
    /\ cCron.uid = cron.uid /\ cCron.state = "absent" => cron.state = "absent"
    /\ pc \in Constructed => queued \/ cCron.uid < cron.uid

\* The cache shows a Backup that lives as it was at some time.
BackupSeenInv ==
    backup.state = "live" =>
        /\ cBackup.state # "deleting"
        /\ cBackup.state = "absent" => cBackup.gen = 0
        /\ cBackup.obs <= backup.obs

\* The copy the worker has taken is still the cached one, unless a newer one is
\* on the queue.
TakenInv == pc = "route" => queued \/ bk = cBackup

\* Who knows of the newest generation and of the present CronJob, and neither
\* builds nor will, has built it.
BuiltInv ==
    /\ GoodSpec /\ pc \notin Holding /\ ~queued
    /\ cBackup.gen = backup.gen /\ cCron = cron /\ cron.state # "terminating"
    => cron.state = "live" /\ backup.obs = backup.gen

ProgressInv == CronSeenInv /\ BackupSeenInv /\ TakenInv /\ BuiltInv
-----------------------------------------------------------------------------
(* The ways a step can touch the CronJob, the caches and the queue.        *)

\* A CronJob is created, keeps its number while it goes, or stays as it is.
LEMMA CronNumberSteps ==
    ASSUME TypeOK, [Next]_vars
    PROVE  \/ cron' = cron
           \/ createCronJob
           \/ /\ cron'.uid = cron.uid /\ cron.state # "absent"
              /\ cron'.state = "absent" \/ deleteCronJob
<1>1. CASE ClusterNext /\ UNCHANGED <<caches, workerVars>>
  BY <1>1 DEF ClusterNext, Gc, EditBackup, DeleteBackup, KillCronJob, ScheduleJob, ForeignJob,
     PodStarts, PodFails, PodSucceeds, PodEnds, JobFinishes, JobRemoved, GcJob, JobStep,
     GcOrphans, GcCronJob, GcSecret, GcBackup, NoCron
<1>2. CASE Watch \/ Resync \/ RequestFails \/ OperatorRestart \/ UNCHANGED vars
  BY <1>2 DEF Watch, WatchBackup, WatchCronJob, WatchJobs, Resync, RequestFails,
     OperatorRestart, vars, clusterVars
<1>3. CASE deleteCronJob
  BY <1>3 DEF deleteCronJob, Deleted, TypeOK, ClusterTypeOK, CronJob
<1>4. CASE \/ SkipDeleted \/ TakeBackup \/ RejectInvalid \/ KeepSchedule
           \/ handleBackupCreate \/ handleBackupUpdate
  BY <1>4 DEF SkipDeleted, TakeBackup, RejectInvalid, KeepSchedule, handleBackupCreate,
     handleBackupUpdate, Build, Dequeue, Route
<1>5. CASE \/ CreateSecret \/ CronJobRejected \/ CronJobExists
           \/ hasRunningBackupJob \/ triggerManualBackupJob
           \/ AlreadyRecorded \/ recordObservedGeneration \/ RecordNotFound
           \/ NothingToReport \/ reconcileJobStatus
           \/ UpdateStatus \/ StatusConflict \/ StatusNotFound
  BY <1>5 DEF CreateSecret, CronJobRejected, CronJobExists, hasRunningBackupJob,
     triggerManualBackupJob, AlreadyRecorded, recordObservedGeneration, RecordNotFound,
     NothingToReport, ListJobs, reconcileJobStatus, UpdateStatus, StatusConflict,
     StatusNotFound, clusterVars
<1> QED
  BY <1>1, <1>2, <1>3, <1>4, <1>5 DEF Next, Reconcile

\* A cache stays, or catches up and the Backup is queued.
LEMMA CacheSteps ==
    ASSUME [Next]_vars
    PROVE  /\ cBackup' = cBackup \/ (cBackup' = backup /\ backup' = backup /\ queued')
           /\ cCron' = cCron \/ (cCron' = cron /\ cron' = cron /\ queued')
<1>1. CASE ClusterNext /\ UNCHANGED <<caches, workerVars>>
  BY <1>1 DEF caches
<1>2. CASE Watch \/ Resync \/ RequestFails \/ OperatorRestart \/ UNCHANGED vars
  BY <1>2 DEF Watch, WatchBackup, WatchCronJob, WatchJobs, Resync, RequestFails,
     OperatorRestart, Finish, vars, clusterVars, caches
<1>3. CASE Reconcile
  BY <1>3 DEF Reconcile, SkipDeleted, TakeBackup, RejectInvalid, KeepSchedule,
     handleBackupCreate, handleBackupUpdate, Build, Dequeue, Route, CreateSecret, deleteCronJob, createCronJob,
     CronJobRejected, CronJobExists, hasRunningBackupJob, triggerManualBackupJob,
     AlreadyRecorded, recordObservedGeneration, RecordNotFound, NothingToReport, ListJobs,
     reconcileJobStatus, UpdateStatus, StatusConflict, StatusNotFound, caches
<1> QED
  BY <1>1, <1>2, <1>3 DEF Next

\* A rebuild past the creation of the CronJob goes on, ends, or has just begun.
LEMMA ConstructedSteps ==
    ASSUME TypeOK, [Next]_vars, pc' \in Constructed
    PROVE  createCronJob \/ (pc \in Constructed /\ (queued => queued'))
<1>1. CASE ClusterNext /\ UNCHANGED <<caches, workerVars>>
  BY <1>1 DEF workerVars
<1>2. CASE Watch \/ Resync \/ UNCHANGED vars
  <2>1. pc' = pc
    BY <1>2 DEF Watch, WatchBackup, WatchCronJob, WatchJobs, Resync, vars, workerVars
  <2>2. queued => queued'
    BY <1>2 DEF Watch, WatchBackup, WatchCronJob, WatchJobs, Resync, vars, workerVars
  <2> QED
    BY <2>1, <2>2
<1>3. CASE RequestFails \/ OperatorRestart
  BY <1>3 DEF RequestFails, OperatorRestart, Retry, Finish, Constructed
<1>4. CASE Reconcile
  BY <1>4 DEF Reconcile, SkipDeleted, TakeBackup, RejectInvalid, KeepSchedule,
     handleBackupCreate, handleBackupUpdate, Build, CreateSecret, deleteCronJob,
     CronJobRejected, CronJobExists, hasRunningBackupJob, triggerManualBackupJob,
     AlreadyRecorded, recordObservedGeneration, RecordNotFound, NothingToReport,
     reconcileJobStatus, UpdateStatus, StatusConflict, StatusNotFound,
     GoTo, Retry, Done, Finish, Constructed
<1> QED
  BY <1>1, <1>2, <1>3, <1>4 DEF Next

\* What a step leaves off the queue: a rebuild that reached its end, or a
\* request that had nothing to build.
LEMMA QueueSteps ==
    ASSUME [Next]_vars, ~queued', pc' \notin Holding
    PROVE  /\ pc \in Building => pc \in Constructed /\ ~queued
           /\ pc = "route" => KeepSchedule
           /\ queued => SkipDeleted
<1>1. CASE ClusterNext /\ UNCHANGED <<caches, workerVars>>
  BY <1>1 DEF workerVars, Holding
<1>2. CASE Watch \/ Resync \/ UNCHANGED vars
  <2>1. pc' = pc
    BY <1>2 DEF Watch, WatchBackup, WatchCronJob, WatchJobs, Resync, vars, workerVars
  <2>2. queued => queued'
    BY <1>2 DEF Watch, WatchBackup, WatchCronJob, WatchJobs, Resync, vars, workerVars
  <2> QED
    BY <2>1, <2>2 DEF Holding
<1>3. CASE RequestFails \/ OperatorRestart
  BY <1>3 DEF RequestFails, OperatorRestart, Retry, Finish
<1>4. CASE \/ SkipDeleted \/ TakeBackup \/ RejectInvalid \/ KeepSchedule
           \/ handleBackupCreate \/ handleBackupUpdate
  BY <1>4 DEF SkipDeleted, TakeBackup, RejectInvalid, KeepSchedule, handleBackupCreate,
     handleBackupUpdate, Build, Dequeue, Route, GoTo, Retry, Finish, Holding, Building
<1>5. CASE \/ CreateSecret \/ deleteCronJob \/ createCronJob
           \/ CronJobRejected \/ CronJobExists
           \/ hasRunningBackupJob \/ triggerManualBackupJob
           \/ AlreadyRecorded \/ recordObservedGeneration \/ RecordNotFound
  BY <1>5 DEF CreateSecret, deleteCronJob, createCronJob, CronJobRejected, CronJobExists,
     hasRunningBackupJob, triggerManualBackupJob, AlreadyRecorded,
     recordObservedGeneration, RecordNotFound, GoTo, Retry, Finish,
     Holding, Building, Constructed
<1>6. CASE \/ NothingToReport \/ reconcileJobStatus
           \/ UpdateStatus \/ StatusConflict \/ StatusNotFound
  <2>1. pc \notin Holding
    BY <1>6 DEF NothingToReport, reconcileJobStatus, ListJobs, UpdateStatus, StatusConflict,
       StatusNotFound, Holding, Building
  <2>2. queued => queued'
    BY <1>6 DEF NothingToReport, reconcileJobStatus, UpdateStatus, StatusConflict,
       StatusNotFound, Retry, Done, Finish
  <2> QED
    BY <2>1, <2>2 DEF Holding
<1> QED
  BY <1>1, <1>2, <1>3, <1>4, <1>5, <1>6 DEF Next, Reconcile
-----------------------------------------------------------------------------
(* The invariant.                                                          *)

LEMMA ProgressInit == Init => ProgressInv
BY DEF Init, ClusterInit, NoBackup, NoCron, ProgressInv, CronSeenInv, BackupSeenInv,
   TakenInv, BuiltInv, Constructed

LEMMA CronSeenStep ==
    ASSUME TypeOK, TypeOK', CronSeenInv, [Next]_vars
    PROVE  CronSeenInv'
<1>1. /\ cron.uid \in Nat /\ cron'.uid \in Nat /\ cCron.uid \in Nat /\ cCron'.uid \in Nat
  BY DEF TypeOK, ClusterTypeOK, CacheTypeOK, CronJob
<1>2. CASE createCronJob
  <2>1. cCron' = cCron /\ cron'.uid = cron.uid + 1
    BY <1>2 DEF createCronJob, BuiltCronJob, caches
  <2> QED
    BY <1>1, <2>1 DEF CronSeenInv
<1>3. CASE ~createCronJob
  <2>1. /\ cron'.uid = cron.uid
        /\ cron' = cron \/ (cron.state # "absent" /\ (cron'.state = "absent" \/ deleteCronJob))
    BY <1>3, CronNumberSteps
  <2>2. pc' \in Constructed => pc \in Constructed /\ (queued => queued')
    BY <1>3, ConstructedSteps
  <2>3. CASE cCron' = cCron
    BY <1>1, <2>1, <2>2, <2>3 DEF CronSeenInv
  <2>4. CASE cCron' = cron /\ cron' = cron /\ queued'
    BY <1>1, <2>4 DEF CronSeenInv
  <2> QED
    BY <2>3, <2>4, CacheSteps
<1> QED
  BY <1>2, <1>3

LEMMA BackupSeenStep ==
    ASSUME TypeOK, TypeOK', ScheduleInv, BackupSeenInv, [Next]_vars
    PROVE  BackupSeenInv'
<1> SUFFICES ASSUME backup'.state = "live"
             PROVE  /\ cBackup'.state # "deleting"
                    /\ cBackup'.state = "absent" => cBackup'.gen = 0
                    /\ cBackup'.obs <= backup'.obs
  BY DEF BackupSeenInv
<1>1. /\ backup.obs \in Nat /\ backup'.obs \in Nat /\ cBackup.obs \in Nat
      /\ backup \in Backup /\ bk.gen \in Nat
  BY DEF TypeOK, ClusterTypeOK, CacheTypeOK, WorkerTypeOK, Backup
<1>2. backup.state = "live" /\ backup.obs <= backup'.obs
  <2>1. CASE EditBackup \/ DeleteBackup \/ GcBackup
    <3>1. EditBackup
      <4>1. backup'.state # "live" \/ EditBackup
        BY <1>1, <2>1 DEF DeleteBackup, GcBackup, NoBackup, Backup
      <4> QED
        BY <4>1
    <3>2. backup.state = "live" /\ backup'.obs = backup.obs
      BY <1>1, <3>1 DEF EditBackup, Backup
    <3> QED
      BY <1>1, <3>2
  <2>2. CASE recordObservedGeneration
    BY <1>1, <2>2 DEF recordObservedGeneration, ScheduleInv, WorkerInv, Holding, Building, Backup
  <2>3. CASE backup' = backup \/ UNCHANGED <<backup.state, backup.obs>>
    BY <1>1, <2>3
  <2> QED
    BY <2>1, <2>2, <2>3, ContractSteps
<1>3. CASE cBackup' = cBackup
  BY <1>1, <1>2, <1>3 DEF BackupSeenInv
<1>4. CASE cBackup' = backup /\ backup' = backup
  BY <1>1, <1>2, <1>4
<1> QED
  BY <1>3, <1>4, CacheSteps

LEMMA TakenStep ==
    ASSUME TakenInv, [Next]_vars
    PROVE  TakenInv'
<1> SUFFICES ASSUME pc' = "route", ~queued'
             PROVE  bk' = cBackup'
  BY DEF TakenInv
<1>1. cBackup' = cBackup
  BY CacheSteps
<1>2. CASE TakeBackup
  BY <1>1, <1>2 DEF TakeBackup
<1>3. CASE ~TakeBackup
  <2>1. ~Reconcile /\ ~RequestFails /\ ~OperatorRestart
    BY <1>3 DEF Reconcile, SkipDeleted, RejectInvalid, KeepSchedule, handleBackupCreate,
       handleBackupUpdate, Build, CreateSecret, deleteCronJob, createCronJob,
       CronJobRejected, CronJobExists, hasRunningBackupJob, triggerManualBackupJob,
       AlreadyRecorded, recordObservedGeneration, RecordNotFound, NothingToReport,
       reconcileJobStatus, UpdateStatus, StatusConflict, StatusNotFound, GoTo, Done, Retry,
       Finish, RequestFails, OperatorRestart
  <2>2. pc' = pc /\ bk' = bk
    BY <2>1 DEF Next, Watch, WatchBackup, WatchCronJob, WatchJobs, Resync, vars, workerVars
  <2>3. queued => queued'
    BY <2>1 DEF Next, Watch, WatchBackup, WatchCronJob, WatchJobs, Resync, vars, workerVars
  <2> QED
    BY <1>1, <2>2, <2>3 DEF TakenInv
<1> QED
  BY <1>2, <1>3

LEMMA BuiltStep ==
    ASSUME TypeOK, TypeOK', ScheduleInv, ScheduleInv', ProgressInv, [Next]_vars
    PROVE  BuiltInv'
<1> SUFFICES ASSUME GoodSpec', pc' \notin Holding, ~queued',
                    cBackup'.gen = backup'.gen, cCron' = cron', cron'.state # "terminating"
             PROVE  cron'.state = "live" /\ backup'.obs = backup'.gen
  BY DEF BuiltInv
<1>0. /\ Len(manifest) \in Nat /\ backup.gen \in Nat /\ backup.obs \in Nat /\ cBackup.obs \in Nat
      /\ cron.uid \in Nat /\ cCron.uid \in Nat
      /\ cCron.state \in {"absent", "live", "terminating"}
      /\ cBackup.state \in {"absent", "live", "deleting"}
  BY LenProperties DEF TypeOK, ClusterTypeOK, CacheTypeOK, Backup, CronJob
<1>1. cBackup' = cBackup /\ cCron' = cCron
  BY CacheSteps
<1>2. /\ pc \in Building => pc \in Constructed /\ ~queued
      /\ pc = "route" => KeepSchedule
      /\ queued => SkipDeleted
  BY QueueSteps
<1>3. ~EditBackup /\ ~DeleteBackup /\ ~GcBackup
  <2>1. ~EditBackup
    BY <1>0, <1>1, AppendProperties
    DEF EditBackup, GoodSpec, ScheduleInv, BackupInv, CacheInv, TypeOK, ClusterTypeOK
  <2> QED
    BY <2>1 DEF DeleteBackup, GcBackup, GoodSpec, NoBackup, TypeOK, ClusterTypeOK, Backup
<1>4. /\ manifest' = manifest /\ backup.state = "live" /\ backup'.gen = backup.gen
      /\ ~recordObservedGeneration => backup'.obs = backup.obs
  <2>1. recordObservedGeneration => manifest' = manifest /\ backup'.state = backup.state
    BY DEF recordObservedGeneration, TypeOK, ClusterTypeOK, Backup
  <2>2. /\ manifest' = manifest /\ backup'.state = backup.state
        /\ ~recordObservedGeneration => backup'.obs = backup.obs
    BY <1>3, <2>1, ContractSteps
  <2> QED
    BY <2>2 DEF GoodSpec, ScheduleInv, BackupInv
<1>5. cron' = cron
  <2>1. ~createCronJob
    BY DEF createCronJob, GoTo, Holding, Building
  <2>2. ~deleteCronJob
    BY DEF deleteCronJob, GoTo, Holding, Building
  <2> QED
    BY <1>1, <2>1, <2>2, CronNumberSteps DEF ProgressInv, CronSeenInv
<1>6. pc \notin Building
  <2>1. cCron.uid = cron.uid
    BY <1>1, <1>5
  <2>2. pc \in Constructed => queued
    BY <1>0, <2>1 DEF ProgressInv, CronSeenInv
  <2> QED
    BY <1>2, <2>2
<1>7. ~recordObservedGeneration
  BY <1>6 DEF recordObservedGeneration, Building
<1>8. GoodSpec
  BY <1>4 DEF GoodSpec
<1>9. CASE ~queued /\ pc # "route"
  BY <1>1, <1>4, <1>5, <1>6, <1>7, <1>8, <1>9 DEF ProgressInv, BuiltInv, Holding
<1>10. CASE SkipDeleted
  BY <1>0, <1>1, <1>4, <1>10
  DEF SkipDeleted, ProgressInv, BackupSeenInv, ScheduleInv, BackupInv
<1>11. CASE KeepSchedule
  <2>0. bk = cBackup
    BY <1>11 DEF KeepSchedule, Route, GoTo, ProgressInv, TakenInv
  <2>1. Kind(bk) = Last(manifest)
    BY <1>1, <1>4, <2>0 DEF Kind, Last, ScheduleInv, BackupInv
  <2>2. cCron.state # "absent" /\ cBackup.gen = cBackup.obs
    BY <1>8, <1>11, <2>0, <2>1 DEF KeepSchedule, GoodSpec, Schedulable, Reconciled
  <2>3. cBackup.obs <= backup.obs /\ backup.obs <= backup.gen
    BY <1>4 DEF ProgressInv, BackupSeenInv, ScheduleInv, BackupInv
  <2> QED
    BY <1>0, <1>1, <1>4, <1>5, <1>7, <2>2, <2>3
<1> QED
  BY <1>2, <1>9, <1>10, <1>11

LEMMA ProgressCorrect == Spec => []ProgressInv
<1>1. TypeOK /\ TypeOK' /\ ScheduleInv /\ ScheduleInv' /\ ProgressInv /\ [Next]_vars => ProgressInv'
  BY CronSeenStep, BackupSeenStep, TakenStep, BuiltStep DEF ProgressInv
<1> QED
  BY <1>1, ProgressInit, TypeCorrect, ScheduleCorrect, PTL DEF Spec

\* The controller never comes to rest with a good spec unbuilt: no error path,
\* early return, lagging cache, lost answer or restart loses the request that
\* is still needed (Reconcile, SetupWithManager).
THEOREM NeverForgotten == Spec => []NothingForgotten
<1>1. TypeOK /\ ScheduleInv /\ ProgressInv /\ secret <= Len(manifest) => NothingForgotten
  <2> SUFFICES ASSUME TypeOK, ScheduleInv, ProgressInv, secret <= Len(manifest),
                      GoodSpec, Resting
               PROVE  Settled
    BY DEF NothingForgotten
  <2>1. cron.state = "live" /\ backup.obs = backup.gen
    BY DEF ProgressInv, BuiltInv, Resting, Holding, Building
  <2> QED
    BY <2>1, Numbers DEF ScheduleInv, BackupInv, CronInv, SecretInv, GoodSpec, Settled
<1> QED
  BY <1>1, TypeCorrect, ScheduleCorrect, ProgressCorrect, SecretBounded, PTL
-----------------------------------------------------------------------------
(* What a settled schedule keeps.                                          *)

\* Once the cache shows the acknowledgement, no step but an edit, a deletion or
\* the loss of the CronJob touches the schedule or begins a rebuild that would
\* (handleBackupUpdate).
THEOREM SettledSound == Spec => SettledStays
<1>1. TypeOK /\ TypeOK' /\ ScheduleInv /\ [Next]_vars =>
          (Noticed => Noticed' \/ EditBackup \/ DeleteBackup \/ KillCronJob)
  <2> SUFFICES ASSUME TypeOK, TypeOK', ScheduleInv, [Next]_vars, Noticed,
                      ~EditBackup, ~DeleteBackup, ~KillCronJob
               PROVE  Noticed'
    OBVIOUS
  <2>1. /\ backup.state = "live" /\ backup.gen = Len(manifest) /\ backup.obs = Len(manifest)
        /\ cron.state = "live" /\ cron.gen = Len(manifest) /\ secret = Len(manifest)
        /\ cBackup.gen = Len(manifest) /\ cBackup.obs = Len(manifest)
    BY DEF Noticed, Settled, ScheduleInv, BackupInv
  <2>2. CASE ClusterNext /\ UNCHANGED <<caches, workerVars>>
    <3>1. UNCHANGED <<manifest, backup, cron, secret>>
      BY <2>1, <2>2 DEF ClusterNext, Gc, ScheduleJob, ForeignJob, PodStarts, PodFails,
         PodSucceeds, PodEnds, JobFinishes, JobRemoved, GcJob, JobStep, GcOrphans,
         GcCronJob, GcSecret, GcBackup
    <3> QED
      BY <2>2, <3>1 DEF Noticed, Settled, caches, workerVars
  <2>3. CASE Watch \/ Resync \/ UNCHANGED vars
    <3>1. /\ UNCHANGED <<manifest, backup, cron, secret, pc, op, bk>>
          /\ cBackup' \in {cBackup, backup}
      BY <2>3 DEF Watch, WatchBackup, WatchCronJob, WatchJobs, Resync, vars, clusterVars,
         caches, workerVars
    <3> QED
      BY <2>1, <3>1 DEF Noticed, Settled
  <2>4. CASE RequestFails \/ OperatorRestart
    <3>1. /\ UNCHANGED <<manifest, backup, cron, secret>> /\ pc' = "idle"
          /\ cBackup' \in {cBackup, backup}
      BY <2>4 DEF RequestFails, OperatorRestart, Retry, Finish, caches
    <3> QED
      BY <2>1, <3>1 DEF Noticed, Settled
  <2>5. CASE SkipDeleted \/ TakeBackup
    <3>1. /\ UNCHANGED <<manifest, backup, cron, secret, cBackup>>
          /\ pc' = "idle" \/ (pc' = "route" /\ bk' = cBackup)
      BY <2>5 DEF SkipDeleted, TakeBackup, Dequeue, Finish, caches
    <3> QED
      BY <2>1, <3>1 DEF Noticed, Settled, Reconciled
  <2>6. CASE RejectInvalid \/ KeepSchedule \/ handleBackupCreate \/ handleBackupUpdate
    <3>1. bk.gen = Len(manifest) /\ Reconciled(bk)
      BY <2>6 DEF Noticed, RejectInvalid, KeepSchedule, handleBackupCreate,
         handleBackupUpdate, Build, Route
    <3>2. /\ UNCHANGED <<manifest, backup, cron, secret, cBackup>>
          /\ pc' \in {"idle", "jobs"} \/ (pc' = "secret" /\ op' = "create" /\ bk' = bk)
      BY <2>6, <3>1 DEF RejectInvalid, KeepSchedule, handleBackupCreate, handleBackupUpdate,
         Build, Route, Retry, Finish, GoTo, caches
    <3> QED
      BY <2>1, <3>1, <3>2 DEF Noticed, Settled
  <2>7. CASE CreateSecret
    BY <2>1, <2>7 DEF CreateSecret, GoTo, caches, Noticed, Settled
  <2>8. CASE CronJobRejected \/ CronJobExists
    BY <2>1, <2>8 DEF CronJobRejected, CronJobExists, Retry, Finish, clusterVars, caches,
       Noticed, Settled
  <2>9. ~createCronJob
    BY <2>1 DEF createCronJob
  <2>10. /\ ~deleteCronJob /\ ~hasRunningBackupJob /\ ~triggerManualBackupJob
         /\ ~AlreadyRecorded /\ ~recordObservedGeneration /\ ~RecordNotFound
    BY DEF Noticed, deleteCronJob, hasRunningBackupJob, triggerManualBackupJob,
       AlreadyRecorded, recordObservedGeneration, RecordNotFound
  <2>11. CASE \/ NothingToReport \/ reconcileJobStatus \/ UpdateStatus
              \/ StatusConflict \/ StatusNotFound
    <3>1. /\ UNCHANGED <<manifest, cron, secret, cBackup>> /\ pc' \in {"idle", "status"}
      BY <2>11 DEF NothingToReport, reconcileJobStatus, ListJobs, UpdateStatus,
         StatusConflict, StatusNotFound, Retry, Done, Finish, clusterVars, caches
    <3>2. backup'.state = backup.state /\ backup'.obs = backup.obs
      <4>1. ~EditBackup /\ ~DeleteBackup /\ ~GcBackup /\ ~recordObservedGeneration
        BY <2>1, <2>10 DEF GcBackup
      <4> QED
        BY <4>1, ContractSteps
    <3> QED
      BY <2>1, <3>1, <3>2 DEF Noticed, Settled
  <2> QED
    BY <2>2, <2>3, <2>4, <2>5, <2>6, <2>7, <2>8, <2>9, <2>10, <2>11 DEF Next, Reconcile
<1> QED
  BY <1>1, TypeCorrect, ScheduleCorrect, PTL DEF Spec, SettledStays
=============================================================================
