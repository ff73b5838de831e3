-------------------------- MODULE JobHistoryProofs --------------------------
(***************************************************************************)
(* The history of the Jobs, for every value of the constants: what a later *)
(* state of a Job keeps of an earlier one, the ways a step may touch the   *)
(* Jobs, and what the owner references protect.                            *)
(***************************************************************************)
EXTENDS BackupControllerProofs

\* A later state of a Job: perhaps released, perhaps removed, and with the
\* successes and failures it had.
Follows(old, new) ==
    /\ new.by = old.by /\ new.born = old.born
    /\ new.owner \in {old.owner, 0}
    /\ old.gone => new.gone
    /\ old.succeeded = 1 => new.succeeded = 1
    /\ old.failed > 0 => new.gone \/ new.failed > 0

\* Later states of the same Jobs, and perhaps more Jobs.
JobsFollow(old, new) ==
    /\ Len(old) <= Len(new)
    /\ \A j \in DOMAIN old : Follows(old[j], new[j])

\* Jobs change in place, and none is removed.
JobsProgress ==
    /\ Len(jobs') = Len(jobs)
    /\ JobsFollow(jobs, jobs')
    /\ \A j \in Names : jobs'[j].gone = jobs[j].gone

\* One Job is removed.
JobGoes(j) == JobRemoved(j) \/ GcJob(j)

\* A new Job, in a later second than all others unless there are ties.
JobAdded(job) ==
    /\ jobs' = Append(jobs, job)
    /\ ~job.gone
    /\ "ties" \notin Events => job.born = LastBorn + 1
-----------------------------------------------------------------------------
(* Jobs.                                                                   *)

LEMMA TerminalCounts ==
    ASSUME NEW job
    PROVE  Terminal(getJobPhase(job)) <=> job.succeeded > 0 \/ job.failed > 0
BY DEF Terminal, getJobPhase

\* A Job that has an outcome keeps one, or goes.
LEMMA TerminalStays ==
    ASSUME NEW a \in Job, NEW b \in Job, Follows(a, b), Terminal(getJobPhase(a))
    PROVE  b.gone \/ Terminal(getJobPhase(b))
<1>1. a.succeeded \in {0, 1} /\ b.succeeded \in {0, 1}
  BY DEF Job
<1> QED
  BY <1>1, TerminalCounts DEF Follows

LEMMA FollowsSame ==
    ASSUME NEW job
    PROVE  Follows(job, job)
BY DEF Follows

LEMMA FollowsOn ==
    ASSUME NEW a, NEW b, NEW c, a.gone \in BOOLEAN, b.gone \in BOOLEAN, c.gone \in BOOLEAN,
           Follows(a, b), Follows(b, c)
    PROVE  Follows(a, c)
BY DEF Follows

LEMMA JobsFollowSame ==
    ASSUME NEW js \in Seq(Job)
    PROVE  JobsFollow(js, js)
BY LenProperties, FollowsSame DEF JobsFollow

LEMMA JobsFollowOn ==
    ASSUME NEW a \in Seq(Job), NEW b \in Seq(Job), NEW c \in Seq(Job),
           JobsFollow(a, b), JobsFollow(b, c)
    PROVE  JobsFollow(a, c)
<1>1. /\ Len(a) \in Nat /\ Len(b) \in Nat /\ Len(c) \in Nat
      /\ DOMAIN a = 1 .. Len(a) /\ DOMAIN b = 1 .. Len(b) /\ DOMAIN c = 1 .. Len(c)
  BY LenProperties
<1>2. Len(a) <= Len(b) /\ Len(b) <= Len(c)
  BY DEF JobsFollow
<1>3. ASSUME NEW j \in DOMAIN a
      PROVE  Follows(a[j], c[j])
  <2>1. j \in DOMAIN b /\ j \in DOMAIN c
    BY <1>1, <1>2
  <2>2. a[j] \in Job /\ b[j] \in Job /\ c[j] \in Job
    BY <2>1, ElementOfSeq, <1>1
  <2>3. Follows(a[j], b[j]) /\ Follows(b[j], c[j])
    BY <2>1 DEF JobsFollow
  <2>4. a[j].gone \in BOOLEAN /\ b[j].gone \in BOOLEAN /\ c[j].gone \in BOOLEAN
    BY <2>2 DEF Job
  <2> QED
    BY <2>3, <2>4, FollowsOn
<1> QED
  BY <1>1, <1>2, <1>3 DEF JobsFollow

\* The Jobs that are there, by name.
LEMMA NamesType ==
    ASSUME TypeOK
    PROVE  /\ jobs \in Seq(Job) /\ cJobs \in Seq(Job)
           /\ Len(jobs) \in Nat /\ Names = 1 .. Len(jobs)
           /\ \A j \in Names : jobs[j] \in Job
<1>1. jobs \in Seq(Job) /\ cJobs \in Seq(Job)
  BY DEF TypeOK, ClusterTypeOK, CacheTypeOK
<1> QED
  BY <1>1, LenProperties DEF Names
-----------------------------------------------------------------------------
(* What a step may do to the Jobs.                                         *)

\* One Job changes in place.
LEMMA JobChanges ==
    ASSUME jobs \in Seq(Job), NEW j \in Names, NEW job \in Job, JobStep(j, job),
           Follows(jobs[j], job)
    PROVE  /\ Len(jobs') = Len(jobs) /\ JobsFollow(jobs, jobs')
           /\ \A i \in Names : jobs'[i] = IF i = j THEN job ELSE jobs[i]
<1>1. Len(jobs') = Len(jobs) /\ DOMAIN jobs = 1 .. Len(jobs) /\ Len(jobs) \in Nat
  BY ExceptSeq, LenProperties DEF JobStep, Names
<1>2. \A i \in Names : jobs'[i] = IF i = j THEN job ELSE jobs[i]
  BY DEF JobStep, Names
<1> QED
  BY <1>1, <1>2, FollowsSame DEF JobsFollow, Names

\* A Job is removed.
LEMMA JobsLess ==
    ASSUME jobs \in Seq(Job), NEW j \in Names, JobGoes(j)
    PROVE  /\ Len(jobs') = Len(jobs) /\ JobsFollow(jobs, jobs')
           /\ jobs'[j].gone
           /\ \A i \in Names : i # j => jobs'[i] = jobs[i]
<1>1. jobs[j] \in Job
  BY DEF Names
<1>2. Removed(jobs[j]) \in Job /\ Follows(jobs[j], Removed(jobs[j])) /\ Removed(jobs[j]).gone
  BY <1>1 DEF Job, Removed, Follows
<1>3. JobStep(j, Removed(jobs[j]))
  BY DEF JobGoes, JobRemoved, GcJob
<1> QED
  BY <1>2, <1>3, JobChanges

\* A Pod starts or ends, or the Job is found finished.
LEMMA JobEvolves ==
    ASSUME jobs \in Seq(Job), NEW j \in Names,
           PodStarts(j) \/ PodFails(j) \/ PodSucceeds(j) \/ JobFinishes(j)
    PROVE  JobsProgress
<1>1. jobs[j] \in Job
  BY DEF Names
<1>2. ASSUME NEW job \in Job, JobStep(j, job), job.by = jobs[j].by, job.born = jobs[j].born,
             job.owner = jobs[j].owner, job.gone = jobs[j].gone,
             jobs[j].succeeded = 1 => job.succeeded = 1,
             jobs[j].failed > 0 => job.failed > 0
      PROVE  JobsProgress
  <2>1. Follows(jobs[j], job)
    BY <1>2 DEF Follows
  <2> QED
    BY <1>2, <2>1, JobChanges DEF JobsProgress
<1>3. CASE PodStarts(j)
  <2>. DEFINE job == [jobs[j] EXCEPT !.active = 1]
  <2>1. /\ job \in Job /\ job.by = jobs[j].by /\ job.born = jobs[j].born
        /\ job.owner = jobs[j].owner /\ job.gone = jobs[j].gone
        /\ job.succeeded = jobs[j].succeeded /\ job.failed = jobs[j].failed
    BY <1>1 DEF Job
  <2>2. JobStep(j, job)
    BY <1>3 DEF PodStarts
  <2>. HIDE DEF job
  <2> QED
    BY <1>2, <2>1, <2>2
<1>4. CASE JobFinishes(j)
  <2>. DEFINE job == [jobs[j] EXCEPT !.finished = TRUE]
  <2>1. /\ job \in Job /\ job.by = jobs[j].by /\ job.born = jobs[j].born
        /\ job.owner = jobs[j].owner /\ job.gone = jobs[j].gone
        /\ job.succeeded = jobs[j].succeeded /\ job.failed = jobs[j].failed
    BY <1>1 DEF Job
  <2>2. JobStep(j, job)
    BY <1>4 DEF JobFinishes
  <2>. HIDE DEF job
  <2> QED
    BY <1>2, <2>1, <2>2
<1>5. ASSUME NEW ended \in Job, PodEnds(j, ended), ended.by = jobs[j].by,
             ended.born = jobs[j].born, ended.owner = jobs[j].owner,
             ended.gone = jobs[j].gone, jobs[j].succeeded = 1 => ended.succeeded = 1,
             jobs[j].failed > 0 => ended.failed > 0
      PROVE  JobsProgress
  <2>1. PICK finished \in BOOLEAN :
             JobStep(j, [ended EXCEPT !.active = 0, !.finished = finished])
    BY <1>5 DEF PodEnds
  <2>. DEFINE job == [ended EXCEPT !.active = 0, !.finished = finished]
  <2>2. /\ job \in Job /\ job.by = ended.by /\ job.born = ended.born
        /\ job.owner = ended.owner /\ job.gone = ended.gone
        /\ job.succeeded = ended.succeeded /\ job.failed = ended.failed
    BY <1>5 DEF Job
  <2>3. JobStep(j, job)
    BY <2>1
  <2>. HIDE DEF job
  <2> QED
    BY <1>2, <1>5, <2>2, <2>3
<1>6. CASE PodFails(j)
  <2>1. jobs[j].failed + 1 \in Nat /\ jobs[j].failed + 1 > 0
    BY <1>1 DEF Job
  <2>2. PICK n \in Nat : n > 0 /\ PodEnds(j, [jobs[j] EXCEPT !.failed = n])
    BY <1>6, <2>1 DEF PodFails
  <2>. DEFINE ended == [jobs[j] EXCEPT !.failed = n]
  <2>3. /\ ended \in Job /\ ended.by = jobs[j].by /\ ended.born = jobs[j].born
        /\ ended.owner = jobs[j].owner /\ ended.gone = jobs[j].gone
        /\ ended.succeeded = jobs[j].succeeded /\ ended.failed = n
    BY <1>1 DEF Job
  <2>4. PodEnds(j, ended)
    BY <2>2
  <2>. HIDE DEF ended
  <2> QED
    BY <1>5, <2>2, <2>3, <2>4
<1>7. CASE PodSucceeds(j)
  <2>. DEFINE ended == [jobs[j] EXCEPT !.succeeded = 1]
  <2>1. /\ ended \in Job /\ ended.by = jobs[j].by /\ ended.born = jobs[j].born
        /\ ended.owner = jobs[j].owner /\ ended.gone = jobs[j].gone
        /\ ended.succeeded = 1 /\ ended.failed = jobs[j].failed
    BY <1>1 DEF Job
  <2>2. PodEnds(j, ended)
    BY <1>7 DEF PodSucceeds
  <2>. HIDE DEF ended
  <2> QED
    BY <1>5, <2>1, <2>2
<1> QED
  BY <1>3, <1>4, <1>6, <1>7

\* The orphan finalizer releases the Jobs of the CronJob, and no others.
LEMMA JobsReleased ==
    ASSUME jobs \in Seq(Job), GcOrphans
    PROVE  /\ JobsProgress
           /\ \A j \in Names : ~jobs[j].gone /\ jobs[j].owner = cron.uid => jobs'[j].owner = 0
<1>1. /\ Names = 1 .. Len(jobs) /\ Len(jobs) \in Nat
      /\ \A j \in Names : jobs[j] \in Job
  BY LenProperties DEF Names
<1>. DEFINE freed(job) == [job EXCEPT !.owner = 0]
<1>2. jobs' = [j \in Names |-> IF jobs[j].owner = cron.uid /\ ~jobs[j].gone
                               THEN freed(jobs[j]) ELSE jobs[j]]
  BY DEF GcOrphans
<1>3. ASSUME NEW job \in Job
      PROVE  Follows(job, freed(job)) /\ freed(job).gone = job.gone /\ freed(job).owner = 0
  <2>1. /\ freed(job).by = job.by /\ freed(job).born = job.born
        /\ freed(job).owner = 0 /\ freed(job).gone = job.gone
        /\ freed(job).succeeded = job.succeeded /\ freed(job).failed = job.failed
    BY DEF Job
  <2>. HIDE DEF freed
  <2> QED
    BY <2>1 DEF Follows
<1>. HIDE DEF freed
<1>4. \A j \in Names : /\ Follows(jobs[j], jobs'[j]) /\ jobs'[j].gone = jobs[j].gone
                       /\ ~jobs[j].gone /\ jobs[j].owner = cron.uid => jobs'[j].owner = 0
  BY <1>1, <1>2, <1>3, FollowsSame
<1>5. DOMAIN jobs' = 1 .. Len(jobs)
  BY <1>1, <1>2
<1>6. Len(jobs') = Len(jobs)
  <2>1. \A job \in Job : freed(job) \in Job
    BY DEF freed, Job
  <2>2. jobs' \in [1 .. Len(jobs) -> Job]
    BY <1>1, <1>2, <2>1
  <2>3. jobs' \in Seq(Job)
    BY <1>1, <2>2
  <2> QED
    BY <1>1, <1>5, <2>3, LenProperties
<1> QED
  BY <1>1, <1>4, <1>6 DEF JobsFollow, JobsProgress, Names

\* A Job created is the one asked for, but for the second of its creation.
LEMMA CreatedJob ==
    ASSUME jobs \in Seq(Job), NEW job \in Job, ~job.gone, Created(job)
    PROVE  \E new \in Job : /\ JobAdded(new)
                            /\ new.by = job.by /\ new.owner = job.owner
<1>1. PICK second \in {LastBorn, LastBorn + 1} :
          /\ second = LastBorn => "ties" \in Events
          /\ jobs' = Append(jobs, [job EXCEPT !.born = second])
  BY DEF Created
<1>2. LastBorn \in Nat
  <2>1. CASE jobs = <<>>
    BY <2>1 DEF LastBorn
  <2>2. CASE jobs # <<>>
    <3>1. Len(jobs) \in 1 .. Len(jobs)
      BY <2>2, EmptySeq, LenProperties
    <3>2. jobs[Len(jobs)] \in Job
      BY <3>1, ElementOfSeq
    <3> QED
      BY <2>2, <3>2 DEF LastBorn, Job
  <2> QED
    BY <2>1, <2>2
<1>3. second \in Nat /\ ("ties" \notin Events => second = LastBorn + 1)
  BY <1>1, <1>2
<1>. DEFINE new == [job EXCEPT !.born = second]
<1>4. /\ new \in Job /\ new.born = second /\ new.gone = job.gone
      /\ new.by = job.by /\ new.owner = job.owner
  BY <1>3 DEF Job
<1>5. jobs' = Append(jobs, new)
  BY <1>1
<1>. HIDE DEF new
<1> QED
  BY <1>3, <1>4, <1>5 DEF JobAdded

\* The three that create Jobs, and whose Jobs they are.
LEMMA JobsCreated ==
    ASSUME TypeOK, ScheduleJob \/ ForeignJob \/ triggerManualBackupJob
    PROVE  \E job \in Job :
               /\ JobAdded(job)
               /\ job.by = "manual" => triggerManualBackupJob
               /\ job.owner # 0 =>
                      job.owner = cron.uid /\ (ScheduleJob \/ triggerManualBackupJob)
<1>1. jobs \in Seq(Job) /\ cron \in CronJob
  BY DEF TypeOK, ClusterTypeOK
<1>2. /\ NewJob("cron", cron.uid) \in Job /\ NewJob("manual", cron.uid) \in Job
      /\ NewJob("other", 0) \in Job
  BY <1>1 DEF NewJob, Job, CronJob
<1>3. \A by, owner : /\ NewJob(by, owner).by = by /\ NewJob(by, owner).owner = owner
                     /\ ~NewJob(by, owner).gone
  BY DEF NewJob
<1>4. CASE ScheduleJob
  <2>1. \E job \in Job : JobAdded(job) /\ job.by = "cron" /\ job.owner = cron.uid
    BY <1>1, <1>2, <1>3, <1>4, CreatedJob DEF ScheduleJob
  <2> QED
    BY <1>4, <2>1
<1>5. CASE ForeignJob
  <2>1. \E job \in Job : JobAdded(job) /\ job.by = "other" /\ job.owner = 0
    BY <1>1, <1>2, <1>3, <1>5, CreatedJob DEF ForeignJob
  <2> QED
    BY <2>1
<1>6. CASE triggerManualBackupJob
  <2>1. \E job \in Job : JobAdded(job) /\ job.owner = cron.uid
    BY <1>1, <1>2, <1>3, <1>6, CreatedJob DEF triggerManualBackupJob
  <2> QED
    BY <1>6, <2>1
<1> QED
  BY <1>4, <1>5, <1>6

\* What is left of a Job added.
LEMMA JobsMore ==
    ASSUME TypeOK, NEW job \in Job, JobAdded(job)
    PROVE  /\ Len(jobs') = Len(jobs) + 1 /\ Names' = Names \cup {Len(jobs) + 1}
           /\ \A j \in Names : jobs'[j] = jobs[j]
           /\ jobs'[Len(jobs) + 1] = job
           /\ JobsFollow(jobs, jobs')
<1>1. jobs' = Append(jobs, job) /\ jobs' \in Seq(Job)
  BY NamesType, AppendProperties DEF JobAdded
<1>2. /\ Len(jobs') = Len(jobs) + 1
      /\ \A j \in Names : jobs'[j] = jobs[j]
      /\ jobs'[Len(jobs) + 1] = job
  BY <1>1, NamesType, AppendProperties
<1>3. Names' = 1 .. (Len(jobs) + 1)
  BY <1>1, <1>2, LenProperties DEF Names
<1>4. Names' = Names \cup {Len(jobs) + 1}
  BY <1>3, NamesType
<1>5. JobsFollow(jobs, jobs')
  BY <1>2, NamesType, FollowsSame DEF JobsFollow, Names
<1> QED
  BY <1>2, <1>4, <1>5

\* All that can happen to the Jobs in one step.
LEMMA JobSteps ==
    ASSUME TypeOK, [Next]_vars
    PROVE  \/ UNCHANGED jobs
           \/ GcOrphans
           \/ JobsProgress /\ UNCHANGED <<backup, cron, faults>>
           \/ \E j \in Names : JobGoes(j)
           \/ ScheduleJob \/ ForeignJob \/ triggerManualBackupJob
<1>0. jobs \in Seq(Job)
  BY NamesType
<1>1. CASE \E j \in Names : PodStarts(j) \/ PodFails(j) \/ PodSucceeds(j) \/ JobFinishes(j)
  <2>1. JobsProgress
    BY <1>0, <1>1, JobEvolves
  <2>2. UNCHANGED <<backup, cron, faults>>
    BY <1>1 DEF PodStarts, PodFails, PodSucceeds, PodEnds, JobFinishes, JobStep
  <2> QED
    BY <2>1, <2>2
<1>2. CASE EditBackup \/ DeleteBackup \/ KillCronJob \/ GcCronJob \/ GcSecret \/ GcBackup
  BY <1>2 DEF EditBackup, DeleteBackup, KillCronJob, GcCronJob, GcSecret, GcBackup
<1>3. CASE Watch \/ Resync \/ RequestFails \/ OperatorRestart \/ UNCHANGED vars
  BY <1>3 DEF Watch, WatchBackup, WatchCronJob, WatchJobs, Resync, RequestFails,
     OperatorRestart, vars, clusterVars
<1>4. CASE Reconcile
  BY <1>4 DEF Reconcile, SkipDeleted, TakeBackup, RejectInvalid, KeepSchedule,
     handleBackupCreate, handleBackupUpdate, Build, Dequeue, Route, CreateSecret,
     deleteCronJob, createCronJob,
     CronJobRejected, CronJobExists, hasRunningBackupJob, AlreadyRecorded,
     recordObservedGeneration, RecordNotFound, NothingToReport, ListJobs, reconcileJobStatus,
     UpdateStatus, StatusConflict, StatusNotFound, clusterVars
<1> QED
  BY <1>1, <1>2, <1>3, <1>4 DEF Next, ClusterNext, Gc, JobGoes

\* Whatever happens, the Jobs of the next state are later states of these.
LEMMA JobsStepFollow ==
    ASSUME TypeOK, [Next]_vars
    PROVE  JobsFollow(jobs, jobs')
<1>1. jobs \in Seq(Job)
  BY NamesType
<1>2. CASE ScheduleJob \/ ForeignJob \/ triggerManualBackupJob
  BY <1>2, JobsCreated, JobsMore
<1>3. CASE \E j \in Names : JobGoes(j)
  BY <1>1, <1>3, JobsLess
<1> QED
  BY <1>1, <1>2, <1>3, JobSteps, JobsReleased, JobsFollowSame DEF JobsProgress

\* Only the history limits, a TTL and the garbage collector remove a Job.
LEMMA GoneSteps ==
    ASSUME TypeOK, [Next]_vars, NEW j \in Names, ~jobs[j].gone, jobs'[j].gone
    PROVE  JobGoes(j)
<1>0. jobs \in Seq(Job)
  BY NamesType
<1>1. ~(ScheduleJob \/ ForeignJob \/ triggerManualBackupJob)
  BY JobsCreated, JobsMore
<1>2. ~JobsProgress
  BY DEF JobsProgress
<1>3. \A i \in Names : JobGoes(i) => i = j
  BY <1>0, JobsLess
<1> QED
  BY <1>0, <1>1, <1>2, <1>3, JobSteps, JobsReleased
-----------------------------------------------------------------------------
(* What a rebuild takes away: nothing that has not finished.               *)

\* No owner the garbage collector would miss.
Held(job) == job.owner = 0 \/ (cron.state # "absent" /\ job.owner = cron.uid)

\* While the Backup lives, every Job is held by the CronJob there is or by
\* none, and a manual Job is created only once the CronJob is.
OwnersInv ==
    backup.state = "live" =>
        /\ \A j \in Names : jobs[j].gone \/ Held(jobs[j])
        /\ pc \in {"check", "trigger"} => cron.state = "live"

\* A Backup that is not live stays so.
LEMMA LiveBefore ==
    ASSUME TypeOK, [Next]_vars, backup'.state = "live"
    PROVE  backup.state = "live"
BY ContractSteps DEF EditBackup, DeleteBackup, GcBackup, recordObservedGeneration,
   NoBackup, TypeOK, ClusterTypeOK, Backup

\* What a step may do to the CronJob of a Backup that lives.
LEMMA CronSteps ==
    ASSUME TypeOK, [Next]_vars, "kill" \notin Events, backup.state = "live"
    PROVE  \/ cron' = cron /\ (pc' \in {"check", "trigger"} => pc \in {"check", "trigger"})
           \/ GcOrphans /\ UNCHANGED pc
           \/ deleteCronJob /\ pc' = "create"
           \/ createCronJob
<1>1. CASE ClusterNext /\ UNCHANGED <<caches, workerVars>>
  <2>1. ~KillCronJob /\ ~GcCronJob
    BY DEF KillCronJob, Fault, GcCronJob
  <2>2. cron' = cron \/ GcOrphans
    BY <1>1, <2>1 DEF ClusterNext, Gc, EditBackup, DeleteBackup, ScheduleJob, ForeignJob,
       PodStarts, PodFails, PodSucceeds, PodEnds, JobFinishes, JobRemoved, GcJob, JobStep,
       GcSecret, GcBackup
  <2> QED
    BY <1>1, <2>2 DEF workerVars
<1>2. CASE Watch \/ Resync \/ RequestFails \/ OperatorRestart \/ UNCHANGED vars
  BY <1>2 DEF Watch, WatchBackup, WatchCronJob, WatchJobs, Resync, RequestFails,
     OperatorRestart, Retry, Finish, vars, clusterVars, workerVars
<1>3. CASE \/ SkipDeleted \/ TakeBackup \/ RejectInvalid \/ KeepSchedule
           \/ handleBackupCreate \/ handleBackupUpdate
  BY <1>3 DEF SkipDeleted, TakeBackup, RejectInvalid, KeepSchedule, handleBackupCreate,
     handleBackupUpdate, Build, Dequeue, Route, Retry, Finish, GoTo
<1>4. CASE \/ CreateSecret \/ CronJobRejected \/ CronJobExists
           \/ hasRunningBackupJob \/ triggerManualBackupJob
  BY <1>4 DEF CreateSecret, CronJobRejected, CronJobExists, hasRunningBackupJob,
     triggerManualBackupJob, GoTo, Retry, Finish, clusterVars
<1>5. CASE \/ AlreadyRecorded \/ recordObservedGeneration \/ RecordNotFound
           \/ NothingToReport \/ reconcileJobStatus \/ UpdateStatus
           \/ StatusConflict \/ StatusNotFound
  BY <1>5 DEF AlreadyRecorded, recordObservedGeneration, RecordNotFound, NothingToReport,
     ListJobs, reconcileJobStatus, UpdateStatus, StatusConflict, StatusNotFound, GoTo, Retry,
     Done, Finish, clusterVars
<1>6. CASE deleteCronJob
  BY <1>6 DEF deleteCronJob, GoTo
<1> QED
  BY <1>1, <1>2, <1>3, <1>4, <1>5, <1>6 DEF Next, Reconcile

\* A Job created has the present CronJob for its owner, or none.
LEMMA OwnersCreated ==
    ASSUME TypeOK, OwnersInv, backup.state = "live", cron' = cron,
           ScheduleJob \/ ForeignJob \/ triggerManualBackupJob
    PROVE  \A j \in Names' : jobs'[j].gone \/ Held(jobs'[j])
<1>1. PICK job \in Job :
          /\ JobAdded(job)
          /\ job.owner # 0 => job.owner = cron.uid /\ (ScheduleJob \/ triggerManualBackupJob)
  BY JobsCreated
<1>2. ScheduleJob \/ triggerManualBackupJob => cron.state = "live"
  BY DEF ScheduleJob, triggerManualBackupJob, OwnersInv
<1>3. Held(job)
  BY <1>1, <1>2 DEF Held
<1>4. /\ Names' = Names \cup {Len(jobs) + 1}
      /\ \A j \in Names : jobs'[j] = jobs[j]
      /\ jobs'[Len(jobs) + 1] = job
  BY <1>1, JobsMore
<1> QED
  BY <1>3, <1>4 DEF OwnersInv

\* Later states of the Jobs are held by the same CronJob.
LEMMA OwnersStay ==
    ASSUME TypeOK, TypeOK', \A j \in Names : jobs[j].gone \/ Held(jobs[j]),
           Len(jobs') = Len(jobs), JobsFollow(jobs, jobs'),
           cron'.uid = cron.uid, cron.state # "absent" => cron'.state # "absent"
    PROVE  \A j \in Names' : jobs'[j].gone \/ Held(jobs[j])' 
<1>1. Names' = Names /\ Names = 1 .. Len(jobs)
  BY NamesType, LenProperties DEF Names, TypeOK, ClusterTypeOK
<1>2. \A j \in Names : Follows(jobs[j], jobs'[j])
  BY DEF JobsFollow, Names
<1> QED
  BY <1>1, <1>2 DEF Follows, Held

LEMMA OwnersStep ==
    ASSUME TypeOK, TypeOK', "kill" \notin Events, OwnersInv, [Next]_vars
    PROVE  OwnersInv'
<1> SUFFICES ASSUME backup'.state = "live"
             PROVE  /\ \A j \in Names' : jobs'[j].gone \/ Held(jobs[j])'
                    /\ pc' \in {"check", "trigger"} => cron'.state = "live"
  BY DEF OwnersInv
<1>1. backup.state = "live"
  BY LiveBefore
<1>2. \A j \in Names : jobs[j].gone \/ Held(jobs[j])
  BY <1>1 DEF OwnersInv
<1>3. CASE GcOrphans /\ UNCHANGED pc
  <2>1. JobsProgress /\ \A j \in Names : ~jobs[j].gone /\ jobs[j].owner = cron.uid => jobs'[j].owner = 0
    BY <1>3, NamesType, JobsReleased
  <2>2. Names' = Names
    BY <2>1, NamesType, LenProperties DEF Names, TypeOK, ClusterTypeOK, JobsProgress
  <2>3. \A j \in Names : Follows(jobs[j], jobs'[j]) /\ jobs'[j].gone = jobs[j].gone
    BY <2>1 DEF JobsProgress, JobsFollow, Names
  <2>4. pc' \notin {"check", "trigger"}
    BY <1>1, <1>3 DEF GcOrphans, OwnersInv
  <2> QED
    BY <1>2, <2>1, <2>2, <2>3, <2>4 DEF Held, Follows
<1>4. CASE deleteCronJob /\ pc' = "create"
  <2>1. /\ jobs' = jobs /\ cron'.uid = cron.uid
        /\ cron.state # "absent" => cron'.state # "absent"
    BY <1>4 DEF deleteCronJob, Deleted, TypeOK, ClusterTypeOK, CronJob
  <2> QED
    BY <1>2, <1>4, <2>1, NamesType, JobsFollowSame, OwnersStay
<1>5. CASE createCronJob
  <2>1. /\ jobs' = jobs /\ cron.state = "absent" /\ cron'.state = "live"
    BY <1>5 DEF createCronJob, BuiltCronJob
  <2> QED
    BY <1>2, <2>1 DEF Held, Names
<1>6. CASE cron' = cron /\ (pc' \in {"check", "trigger"} => pc \in {"check", "trigger"})
  <2>1. pc' \in {"check", "trigger"} => cron'.state = "live"
    BY <1>1, <1>6 DEF OwnersInv
  <2>2. CASE ScheduleJob \/ ForeignJob \/ triggerManualBackupJob
    BY <1>1, <1>6, <2>1, <2>2, OwnersCreated DEF Held
  <2>3. CASE ~(ScheduleJob \/ ForeignJob \/ triggerManualBackupJob)
    <3>1. Len(jobs') = Len(jobs) /\ JobsFollow(jobs, jobs')
      BY <2>3, JobSteps, NamesType, JobsReleased, JobsLess, JobsFollowSame DEF JobsProgress
    <3> QED
      BY <1>2, <1>6, <2>1, <3>1, OwnersStay
  <2> QED
    BY <2>2, <2>3
<1> QED
  BY <1>1, <1>3, <1>4, <1>5, <1>6, CronSteps

\* Unless someone else deletes the CronJob, the Jobs of a Backup that lives
\* always have the owner they need: across rebuilds, their failures, their
\* repetitions and restarts of the operator.
LEMMA OwnersCorrect ==
    ASSUME "kill" \notin Events
    PROVE  Spec => []OwnersInv
<1>1. Init => OwnersInv
  BY EmptySeq DEF Init, ClusterInit, OwnersInv, Names
<1>2. TypeOK /\ TypeOK' /\ OwnersInv /\ [Next]_vars => OwnersInv'
  BY OwnersStep
<1> QED
  BY <1>1, <1>2, TypeCorrect, PTL DEF Spec

\* No step takes away a Job that has not finished while the Backup lives,
\* unless someone else deletes the CronJob (deleteCronJob orphans its Jobs).
THEOREM RunningJobsSound ==
    ASSUME "kill" \notin Events
    PROVE  Spec => InProgressSurvives
<1>1. TypeOK /\ OwnersInv /\ [Next]_vars =>
          \A j \in Names : Unfinished(jobs[j]) /\ jobs'[j].gone => backup.state # "live"
  <2> SUFFICES ASSUME TypeOK, OwnersInv, [Next]_vars, backup.state = "live",
                      NEW j \in Names, Unfinished(jobs[j]), jobs'[j].gone
               PROVE  FALSE
    OBVIOUS
  <2>1. ~jobs[j].gone /\ ~jobs[j].finished
    BY DEF Unfinished
  <2>2. JobRemoved(j) \/ GcJob(j)
    BY <2>1, GoneSteps DEF JobGoes
  <2>3. Held(jobs[j])
    BY <2>1 DEF OwnersInv
  <2> QED
    BY <2>1, <2>2, <2>3 DEF JobRemoved, GcJob, OwnerGone, Held
<1> QED
  BY <1>1, OwnersCorrect, TypeCorrect, PTL DEF Spec, InProgressSurvives
-----------------------------------------------------------------------------
(* What a deletion leaves: nothing that could come back.                   *)

\* The collector is done with a deleted Backup, and the worker has no copy of it.
Collected == CleanedUp /\ cBackup.state # "live" /\ pc \notin Holding

\* Where a rebuild begins.
LEMMA BuildSteps ==
    ASSUME [Next]_vars, pc \notin Holding, cBackup.state # "live"
    PROVE  /\ pc' \notin Holding
           /\ cBackup' = cBackup \/ cBackup' = backup
           /\ cron' = cron \/ cron.state # "absent"
           /\ secret' = secret \/ secret' = 0
           /\ ~triggerManualBackupJob /\ ~recordObservedGeneration
<1>1. CASE ClusterNext /\ UNCHANGED <<caches, workerVars>>
  BY <1>1 DEF ClusterNext, Gc, EditBackup, DeleteBackup, KillCronJob, ScheduleJob,
     ForeignJob, PodStarts, PodFails, PodSucceeds, PodEnds, JobFinishes, JobRemoved, GcJob,
     JobStep, GcOrphans, GcCronJob, GcSecret, GcBackup, caches, workerVars,
     triggerManualBackupJob, recordObservedGeneration, Holding, Building
<1>2. CASE Watch \/ Resync \/ RequestFails \/ OperatorRestart \/ UNCHANGED vars
  BY <1>2 DEF Watch, WatchBackup, WatchCronJob, WatchJobs, Resync, RequestFails,
     OperatorRestart, Retry, Finish, vars, clusterVars, caches, workerVars,
     triggerManualBackupJob, recordObservedGeneration, Holding, Building
<1>3. CASE Reconcile
  BY <1>3 DEF Reconcile, SkipDeleted, TakeBackup, RejectInvalid, KeepSchedule,
     handleBackupCreate, handleBackupUpdate, Build, Dequeue, Route, CreateSecret,
     deleteCronJob, createCronJob,
     CronJobRejected, CronJobExists, hasRunningBackupJob, triggerManualBackupJob,
     AlreadyRecorded, recordObservedGeneration, RecordNotFound, NothingToReport, ListJobs,
     reconcileJobStatus, UpdateStatus, StatusConflict, StatusNotFound, Done, Retry, Finish,
     GoTo, caches, clusterVars, Holding, Building
<1> QED
  BY <1>1, <1>2, <1>3 DEF Next

LEMMA CollectedStep ==
    ASSUME TypeOK, TypeOK', Collected, [Next]_vars
    PROVE  Collected'
<1>1. /\ backup.state = "absent" /\ cron.state = "absent" /\ secret = 0
      /\ \A j \in Names : jobs[j].gone \/ jobs[j].owner = 0
      /\ cBackup.state # "live" /\ pc \notin Holding
  BY DEF Collected, CleanedUp
<1>2. /\ pc' \notin Holding /\ (cBackup' = cBackup \/ cBackup' = backup)
      /\ cron' = cron /\ secret' = 0
      /\ ~triggerManualBackupJob
  BY <1>1, BuildSteps
<1>3. backup'.state = "absent"
  BY <1>1, ContractSteps DEF EditBackup, DeleteBackup, GcBackup, recordObservedGeneration
<1>4. \A j \in Names' : jobs'[j].gone \/ jobs'[j].owner = 0
  <2>1. CASE ScheduleJob \/ ForeignJob
    <3>1. ~ScheduleJob
      BY <1>1 DEF ScheduleJob
    <3>2. PICK job \in Job : JobAdded(job) /\ job.owner = 0
      BY <1>2, <2>1, <3>1, JobsCreated
    <3>3. /\ Names' = Names \cup {Len(jobs) + 1}
          /\ \A j \in Names : jobs'[j] = jobs[j]
          /\ jobs'[Len(jobs) + 1] = job
      BY <3>2, JobsMore
    <3> QED
      BY <1>1, <3>2, <3>3
  <2>2. CASE ~(ScheduleJob \/ ForeignJob)
    <3>1. Len(jobs') = Len(jobs) /\ JobsFollow(jobs, jobs')
      BY <1>2, <2>2, JobSteps, NamesType, JobsReleased, JobsLess, JobsFollowSame
      DEF JobsProgress
    <3>2. Names' = Names
      BY <3>1, NamesType, LenProperties DEF Names, TypeOK, ClusterTypeOK
    <3>3. \A j \in Names : Follows(jobs[j], jobs'[j])
      BY <3>1 DEF JobsFollow, Names
    <3> QED
      BY <1>1, <3>2, <3>3 DEF Follows
  <2> QED
    BY <2>1, <2>2
<1> QED
  BY <1>1, <1>2, <1>3, <1>4 DEF Collected, CleanedUp

\* Once a deleted Backup has been collected and the worker has noticed, nothing
\* of it ever comes back, whatever faults, restarts and resyncs follow: the
\* safety half of DeletionCompletes (SkipDeleted).
THEOREM DeletionFinal == Spec => [](Collected => []CleanedUp)
<1>1. TypeOK /\ TypeOK' /\ Collected /\ [Next]_vars => Collected'
  BY CollectedStep
<1>2. Collected => CleanedUp
  BY DEF Collected
<1> QED
  BY <1>1, <1>2, TypeCorrect, PTL DEF Spec
=============================================================================
