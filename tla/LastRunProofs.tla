--------------------------- MODULE LastRunProofs ---------------------------
(***************************************************************************)
(* The last run of a Backup never goes back, for every value of the        *)
(* constants under which Jobs are created in different seconds: however    *)
(* far the caches lag and however often requests fail, are repeated or     *)
(* overtaken.                                                              *)
(***************************************************************************)
EXTENDS JobHistoryProofs

\* Jobs are created one after the other.
BornInv == \A i, k \in Names : i < k => jobs[i].born < jobs[k].born

\* The cached Jobs are an earlier state of the Jobs.
CopyInv == JobsFollow(cJobs, jobs)

\* What a run status says of its Job is still so, or the Job is gone.
Reports(r, js) ==
    r.job # 0 =>
        /\ r.job \in DOMAIN js
        /\ js[r.job].gone \/ (Terminal(r.phase) => Terminal(getJobPhase(js[r.job])))

\* The run status next takes the place of last.
Replaces(next, last, js) ==
    \/ next.job > last.job
    \/ next.job < last.job /\ js[last.job].gone
    \/ next.job = last.job /\ (Terminal(last.phase) => Terminal(next.phase))

\* The run to be written is newer than the last one, unless the worker's copy
\* is out of date and the update will be refused.
PendingInv ==
    pc = "status" =>
        /\ run.job # 0 /\ Reports(run, cJobs)
        /\ bk.last = backup.last => Replaces(run, backup.last, cJobs)

LastRunInv == BornInv /\ CopyInv /\ Reports(backup.last, cJobs) /\ PendingInv
-----------------------------------------------------------------------------
(* Jobs.                                                                   *)

\* What is said of a Job stays so.
LEMMA ReportsOn ==
    ASSUME NEW a \in Seq(Job), NEW b \in Seq(Job), JobsFollow(a, b), NEW r, Reports(r, a)
    PROVE  Reports(r, b)
<1> SUFFICES ASSUME r.job # 0
             PROVE  /\ r.job \in DOMAIN b
                    /\ b[r.job].gone \/ (Terminal(r.phase) => Terminal(getJobPhase(b[r.job])))
  BY DEF Reports
<1>1. r.job \in DOMAIN a /\ r.job \in DOMAIN b
  BY LenProperties DEF Reports, JobsFollow
<1>2. Follows(a[r.job], b[r.job]) /\ a[r.job] \in Job /\ b[r.job] \in Job
  BY <1>1 DEF JobsFollow
<1> QED
  BY <1>1, <1>2, TerminalStays DEF Reports, Follows

\* Creation times keep their order.
LEMMA BornStep ==
    ASSUME TypeOK, "ties" \notin Events, BornInv, [Next]_vars
    PROVE  BornInv'
<1>0. /\ jobs \in Seq(Job) /\ Len(jobs) \in Nat /\ Names = 1 .. Len(jobs)
      /\ \A j \in Names : jobs[j].born \in Nat
  <2>1. jobs \in Seq(Job)
    BY DEF TypeOK, ClusterTypeOK
  <2>2. \A j \in Names : jobs[j] \in Job
    BY <2>1 DEF Names
  <2> QED
    BY <2>1, <2>2, LenProperties DEF Names, Job
<1>1. CASE ScheduleJob \/ ForeignJob \/ triggerManualBackupJob
  <2>1. PICK job \in Job : JobAdded(job)
    BY <1>1, JobsCreated
  <2>2. /\ Names' = Names \cup {Len(jobs) + 1}
        /\ \A j \in Names : jobs'[j] = jobs[j]
        /\ jobs'[Len(jobs) + 1] = job
        /\ job.born = LastBorn + 1
    BY <2>1, JobsMore DEF JobAdded
  <2>3. \A j \in Names : jobs[j].born < job.born
    <3> SUFFICES ASSUME NEW j \in Names PROVE jobs[j].born < job.born
      OBVIOUS
    <3>1. Len(jobs) \in Names /\ jobs # <<>>
      BY <1>0, EmptySeq
    <3>2. LastBorn = jobs[Len(jobs)].born
      BY <3>1 DEF LastBorn
    <3>3. j < Len(jobs) \/ j = Len(jobs)
      BY <1>0
    <3>4. jobs[j].born <= jobs[Len(jobs)].born
      BY <1>0, <3>1, <3>3 DEF BornInv
    <3> QED
      BY <1>0, <2>2, <3>1, <3>2, <3>4
  <2>4. ASSUME NEW i \in Names', NEW k \in Names', i < k
        PROVE  jobs'[i].born < jobs'[k].born
    <3>1. i \in Names
      BY <1>0, <2>2, <2>4
    <3>2. k \in Names \/ k = Len(jobs) + 1
      BY <1>0, <2>2
    <3> QED
      BY <2>2, <2>3, <2>4, <3>1, <3>2 DEF BornInv
  <2> QED
    BY <2>4 DEF BornInv
<1>2. CASE ~(ScheduleJob \/ ForeignJob \/ triggerManualBackupJob)
  <2>1. Len(jobs') = Len(jobs) /\ JobsFollow(jobs, jobs')
    BY <1>0, <1>2, JobSteps, JobsReleased, JobsLess, JobsFollowSame DEF JobsProgress
  <2>2. jobs' \in Seq(Job)
    BY TypeStep DEF TypeOK, ClusterTypeOK
  <2>3. Names' = Names
    BY <1>0, <2>1, <2>2, LenProperties DEF Names
  <2>4. \A j \in Names : jobs'[j].born = jobs[j].born
    BY <2>1 DEF JobsFollow, Follows, Names
  <2> QED
    BY <2>3, <2>4 DEF BornInv
<1> QED
  BY <1>1, <1>2
-----------------------------------------------------------------------------
(* Reports.                                                                *)

\* The latest of the cached Jobs takes the place of any run reported before.
LEMMA LatestReplaces ==
    ASSUME TypeOK, BornInv, CopyInv, NEW last \in Run, Reports(last, cJobs),
           NEW r \in Observed
    PROVE  r.job # 0 /\ Reports(r, cJobs) /\ Replaces(r, last, cJobs)
<1>1. PICK j \in LatestJobs(cJobs) : r = buildRunStatus(j, cJobs[j])
  BY DEF Observed
<1>2. r.job = j /\ r.phase = getJobPhase(cJobs[j])
  BY <1>1 DEF buildRunStatus
<1>3. /\ cJobs \in Seq(Job) /\ jobs \in Seq(Job)
      /\ Len(cJobs) \in Nat /\ Len(jobs) \in Nat
      /\ DOMAIN cJobs = 1 .. Len(cJobs) /\ Names = 1 .. Len(jobs)
      /\ Len(cJobs) <= Len(jobs)
  BY LenProperties DEF TypeOK, ClusterTypeOK, CacheTypeOK, CopyInv, JobsFollow, Names
<1>4. j \in DOMAIN cJobs /\ ~cJobs[j].gone
      /\ \A i \in DOMAIN cJobs : ~cJobs[i].gone => cJobs[i].born <= cJobs[j].born
  BY DEF LatestJobs, Related
<1>5. \A i \in DOMAIN cJobs : cJobs[i].born = jobs[i].born /\ cJobs[i].born \in Nat
  <2>1. \A i \in DOMAIN cJobs : cJobs[i] \in Job
    BY <1>3
  <2>2. \A i \in DOMAIN cJobs : Follows(cJobs[i], jobs[i])
    BY DEF CopyInv, JobsFollow
  <2> QED
    BY <2>1, <2>2 DEF Follows, Job
<1>6. r.job # 0 /\ Reports(r, cJobs)
  BY <1>2, <1>3, <1>4 DEF Reports
<1>7. Replaces(r, last, cJobs)
  <2>1. last.job \in Nat /\ j \in Nat
    BY <1>3, <1>4 DEF Run
  <2>2. CASE last.job = 0
    BY <1>2, <1>3, <1>4, <2>1, <2>2 DEF Replaces
  <2>3. CASE last.job # 0 /\ cJobs[last.job].gone
    BY <1>2, <1>4, <2>1, <2>3 DEF Replaces
  <2>4. CASE last.job # 0 /\ ~cJobs[last.job].gone
    <3>1. /\ last.job \in DOMAIN cJobs
          /\ Terminal(last.phase) => Terminal(getJobPhase(cJobs[last.job]))
      BY <2>4 DEF Reports
    <3>2. cJobs[last.job].born <= cJobs[j].born
      BY <1>4, <2>4, <3>1
    <3>3. ~(j < last.job)
      <4> SUFFICES ASSUME j < last.job PROVE FALSE
        OBVIOUS
      <4>1. j \in Names /\ last.job \in Names
        BY <1>3, <1>4, <3>1
      <4>2. jobs[j].born < jobs[last.job].born
        BY <4>1 DEF BornInv
      <4> QED
        BY <1>4, <1>5, <3>1, <3>2, <4>2
    <3> QED
      BY <1>2, <2>1, <3>1, <3>3 DEF Replaces
  <2> QED
    BY <2>2, <2>3, <2>4
<1> QED
  BY <1>6, <1>7
-----------------------------------------------------------------------------
(* The last run.                                                           *)

LEMMA LastRunInit == Init => LastRunInv
BY EmptySeq DEF Init, ClusterInit, NoBackup, NoRun, LastRunInv, BornInv, CopyInv, JobsFollow,
                Reports, PendingInv, Names

\* The steps that change the caches, the worker's copy or its run.
LEMMA CopySteps ==
    ASSUME TypeOK, [Next]_vars
    PROVE  /\ cJobs' = cJobs \/ (cJobs' = jobs /\ jobs' = jobs)
           /\ \/ pc' # "status"
              \/ UNCHANGED <<pc, run, bk>>
              \/ reconcileJobStatus
<1>1. CASE ClusterNext /\ UNCHANGED <<caches, workerVars>>
  BY <1>1 DEF caches, workerVars
<1>2. CASE Watch \/ Resync \/ RequestFails \/ OperatorRestart \/ UNCHANGED vars
  BY <1>2 DEF Watch, WatchBackup, WatchCronJob, WatchJobs, Resync, RequestFails,
     OperatorRestart, Retry, Finish, vars, clusterVars, caches, workerVars
<1>3. CASE \/ SkipDeleted \/ TakeBackup \/ RejectInvalid \/ KeepSchedule
           \/ handleBackupCreate \/ handleBackupUpdate
  BY <1>3 DEF SkipDeleted, TakeBackup, RejectInvalid, KeepSchedule, handleBackupCreate,
     handleBackupUpdate, Build, Dequeue, Route, caches, Retry, Finish, GoTo
<1>4. CASE \/ CreateSecret \/ deleteCronJob \/ createCronJob \/ CronJobRejected \/ CronJobExists
           \/ hasRunningBackupJob \/ triggerManualBackupJob
  BY <1>4 DEF CreateSecret, deleteCronJob, createCronJob, CronJobRejected, CronJobExists,
     hasRunningBackupJob, triggerManualBackupJob, GoTo, Retry, Finish, caches
<1>5. CASE \/ AlreadyRecorded \/ recordObservedGeneration \/ RecordNotFound
           \/ NothingToReport \/ UpdateStatus \/ StatusConflict \/ StatusNotFound
  BY <1>5 DEF AlreadyRecorded, recordObservedGeneration, RecordNotFound, NothingToReport,
     ListJobs, UpdateStatus, StatusConflict, StatusNotFound, GoTo, Retry, Done, Finish, caches
<1>6. CASE reconcileJobStatus
  BY <1>6 DEF reconcileJobStatus, ListJobs, caches
<1> QED
  BY <1>1, <1>2, <1>3, <1>4, <1>5, <1>6 DEF Next, Reconcile

\* The cached Jobs stay an earlier state of the Jobs, and become a later one of
\* what they were.
LEMMA CopyStep ==
    ASSUME TypeOK, TypeOK', CopyInv, [Next]_vars
    PROVE  JobsFollow(cJobs, cJobs') /\ CopyInv'
<1>0. /\ cJobs \in Seq(Job) /\ jobs \in Seq(Job) /\ cJobs' \in Seq(Job) /\ jobs' \in Seq(Job)
  BY DEF TypeOK, ClusterTypeOK, CacheTypeOK
<1>1. JobsFollow(jobs, jobs')
  BY JobsStepFollow
<1>2. JobsFollow(cJobs, cJobs')
  BY <1>0, CopySteps, JobsFollowSame DEF CopyInv
<1>3. JobsFollow(cJobs', jobs')
  BY <1>0, <1>1, CopySteps, JobsFollowOn, JobsFollowSame DEF CopyInv
<1> QED
  BY <1>2, <1>3 DEF CopyInv

\* What a status update does to the last run.
LEMMA UpdateReplaces ==
    ASSUME TypeOK, LastRunInv, UpdateStatus
    PROVE  /\ backup'.last = run /\ Reports(run, cJobs)
           /\ Replaces(run, backup.last, cJobs)
<1>1. pc = "status" /\ bk = backup /\ backup' = StatusAfter(bk, run)
  BY DEF UpdateStatus
<1>2. backup'.last = run
  BY <1>1, StatusAfterKeeps DEF TypeOK, WorkerTypeOK
<1> QED
  BY <1>1, <1>2 DEF LastRunInv, PendingInv

LEMMA LastRunStep ==
    ASSUME TypeOK, TypeOK', "ties" \notin Events, LastRunInv, [Next]_vars
    PROVE  LastRunInv'
<1>0. /\ cJobs \in Seq(Job) /\ jobs \in Seq(Job) /\ cJobs' \in Seq(Job) /\ jobs' \in Seq(Job)
      /\ backup.last \in Run
      /\ BornInv /\ CopyInv /\ Reports(backup.last, cJobs) /\ PendingInv
  BY DEF TypeOK, ClusterTypeOK, CacheTypeOK, Backup, LastRunInv
<1>2. JobsFollow(cJobs, cJobs') /\ CopyInv'
  BY <1>0, CopyStep
<1>3. BornInv'
  BY <1>0, BornStep
<1>4. \A r : Reports(r, cJobs) => Reports(r, cJobs')
  BY <1>0, <1>2, ReportsOn
<1>5. \/ backup'.last = backup.last
      \/ backup'.last = NoRun
      \/ UpdateStatus
  BY RecentSteps DEF NoBackup
<1>6. Reports(backup'.last, cJobs')
  <2>1. CASE backup'.last = NoRun
    BY <2>1 DEF Reports, NoRun
  <2>2. CASE UpdateStatus
    BY <1>4, <2>2, UpdateReplaces
  <2> QED
    BY <1>0, <1>4, <1>5, <2>1, <2>2
<1>7. PendingInv'
  <2> SUFFICES ASSUME pc' = "status"
               PROVE  /\ run'.job # 0 /\ Reports(run', cJobs')
                      /\ bk'.last = backup'.last => Replaces(run', backup'.last, cJobs')
    BY DEF PendingInv, Reports, Replaces
  <2>1. CASE reconcileJobStatus
    <3>1. run' \in Observed /\ backup' = backup /\ cJobs' = cJobs
      BY <2>1 DEF reconcileJobStatus, ListJobs, caches
    <3> QED
      BY <1>0, <3>1, LatestReplaces
  <2>2. CASE UNCHANGED <<pc, run, bk>>
    <3>1. pc = "status" /\ run' = run /\ bk' = bk
      BY <2>2
    <3>2. run.job # 0 /\ Reports(run, cJobs')
      BY <1>0, <1>4, <3>1 DEF PendingInv
    <3>3. ~UpdateStatus
      BY <3>1 DEF UpdateStatus, Done, Retry, Finish
    <3>4. ASSUME bk.last = backup'.last
          PROVE  Replaces(run, backup'.last, cJobs')
      <4>1. CASE backup'.last = NoRun
        <5>1. run.job \in Nat
          BY DEF TypeOK, WorkerTypeOK, Run
        <5> QED
          BY <3>2, <4>1, <5>1 DEF Replaces, NoRun
      <4>2. CASE backup'.last = backup.last /\ backup.last # NoRun
        <5>1. Replaces(run, backup.last, cJobs)
          BY <1>0, <3>1, <3>4, <4>2 DEF PendingInv
        <5>2. CASE run.job < backup.last.job /\ cJobs[backup.last.job].gone
          <6>1. run.job \in Nat /\ backup.last.job \in Nat
            BY <1>0 DEF TypeOK, WorkerTypeOK, Run
          <6>2. backup.last.job # 0
            BY <5>2, <6>1
          <6>3. backup.last.job \in DOMAIN cJobs
            BY <1>0, <6>2 DEF Reports
          <6>4. cJobs'[backup.last.job].gone
            BY <1>2, <5>2, <6>3 DEF JobsFollow, Follows
          <6> QED
            BY <4>2, <5>2, <6>4 DEF Replaces
        <5> QED
          BY <4>2, <5>1, <5>2 DEF Replaces
      <4> QED
        BY <1>5, <3>3, <4>1, <4>2
    <3> QED
      BY <3>1, <3>2, <3>4
  <2> QED
    BY <2>1, <2>2, CopySteps
<1> QED
  BY <1>2, <1>3, <1>6, <1>7 DEF LastRunInv, Reports

\* The recorded run never goes back to an older Job that is still there, nor
\* from an outcome to a run in progress, if no two Jobs of a Backup are
\* created within one second (reconcileJobStatus).
THEOREM LastRunSound ==
    ASSUME "ties" \notin Events
    PROVE  Spec => LastRunForward
<1>1. LastRunInv /\ TypeOK /\ [Next]_vars =>
          (backup'.last # backup.last /\ backup'.state # "absent" =>
              \/ backup'.last.job > backup.last.job
              \/ backup'.last.job < backup.last.job /\ jobs[backup.last.job].gone
              \/ /\ backup'.last.job = backup.last.job
                 /\ Terminal(backup.last.phase) => Terminal(backup'.last.phase))
  <2> SUFFICES ASSUME LastRunInv, TypeOK, [Next]_vars,
                      backup'.last # backup.last, backup'.state # "absent"
               PROVE  \/ backup'.last.job > backup.last.job
                      \/ backup'.last.job < backup.last.job /\ jobs[backup.last.job].gone
                      \/ /\ backup'.last.job = backup.last.job
                         /\ Terminal(backup.last.phase) => Terminal(backup'.last.phase)
    OBVIOUS
  <2>1. UpdateStatus
    BY RecentSteps DEF NoBackup
  <2>2. backup'.last = run /\ Replaces(run, backup.last, cJobs)
    BY <2>1, UpdateReplaces
  <2>3. CASE run.job < backup.last.job /\ cJobs[backup.last.job].gone
    <3>1. run.job \in Nat /\ backup.last.job \in Nat
      BY DEF TypeOK, WorkerTypeOK, ClusterTypeOK, Backup, Run
    <3>2. backup.last.job # 0
      BY <2>3, <3>1
    <3>3. backup.last.job \in DOMAIN cJobs
      BY <3>2 DEF LastRunInv, Reports
    <3>4. jobs[backup.last.job].gone
      BY <2>3, <3>3 DEF LastRunInv, CopyInv, JobsFollow, Follows
    <3> QED
      BY <2>2, <2>3, <3>4
  <2> QED
    BY <2>2, <2>3 DEF Replaces
<1>2. LastRunInv /\ TypeOK /\ TypeOK' /\ [Next]_vars => LastRunInv'
  BY LastRunStep
<1> QED
  BY <1>1, <1>2, LastRunInit, TypeCorrect, PTL DEF Spec, LastRunForward
=============================================================================
