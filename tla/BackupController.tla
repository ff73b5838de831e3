-------------------------- MODULE BackupController --------------------------
(***************************************************************************)
(* The operator's Backup controller (internal/controller/                  *)
(* backup_controller.go): one worker that reconciles one Backup, split at  *)
(* every API call so that the user, the other controllers, lagging caches, *)
(* failed requests and restarts fall between any two of them.              *)
(*                                                                         *)
(* Reads of the Backup, the CronJob and the Jobs go to informer caches,    *)
(* which follow the API server at their own pace; writes and the Secret go *)
(* to the API server.                                                      *)
(***************************************************************************)
EXTENDS Cluster

VARIABLES
    cBackup, cCron, cJobs,  \* The informer caches
    queued,     \* The work queue holds this Backup (or will, after a delay)
    pc,         \* The API call the worker makes next; "idle" between requests
    op,         \* The handler the request was routed to
    bk,         \* The worker's copy of the Backup
    run         \* The run status to be written

caches == <<cBackup, cCron, cJobs>>

workerVars == <<queued, pc, op, bk, run>>

vars == <<clusterVars, caches, workerVars>>

Steps == {"idle", "route", "secret", "delete", "create", "check", "trigger", "record",
          "jobs", "status"}

CacheTypeOK ==
    /\ cBackup \in Backup
    /\ cCron \in CronJob
    /\ cJobs \in Seq(Job)

WorkerTypeOK ==
    /\ queued \in BOOLEAN
    /\ pc \in Steps
    /\ op \in {"none", "create", "update"}
    /\ bk \in Backup
    /\ run \in Run

\* Every variable stays in its type: the API server's state, the caches and
\* the worker's (a phase outside the four would break the last, for example).
TypeOK == ClusterTypeOK /\ CacheTypeOK /\ WorkerTypeOK

\* The operator starts while the Backup is being created.
Init ==
    /\ ClusterInit
    /\ cBackup = NoBackup /\ cCron = NoCron /\ cJobs = <<>>
    /\ queued = FALSE
    /\ pc = "idle" /\ op = "none"
    /\ bk = NoBackup /\ run = NoRun

Last(kinds) == kinds[Len(kinds)]

\* A read of a cache that is up to date, or counts as stale.
Read(upToDate) ==
    \/ upToDate /\ UNCHANGED faults
    \/ ~upToDate /\ Fault("stale")

\* The request is over; again says whether it goes back to the queue.
Finish(again) ==
    /\ pc' = "idle" /\ op' = "none"
    /\ bk' = NoBackup /\ run' = NoRun
    /\ queued' = again

\* Mutant: the error is only logged.
GiveUp == Finish(queued)

\* An error returned by Reconcile: a rate-limited retry.
Retry == Finish(TRUE)

\* Mutant: no second look at a run in progress.
DoneForGood(lastRun) == Finish(queued)

\* A Backup whose last run is in progress is looked at again in 30 seconds.
Done(lastRun) == Finish(queued \/ InProgress(lastRun.phase))

GoTo(step) == pc' = step /\ UNCHANGED <<queued, op, bk, run>>
-----------------------------------------------------------------------------
(* The manager: informers and the work queue.                              *)

\* For(&Backup{}): every change of the Backup is queued.
WatchBackup ==
    /\ cBackup # backup
    /\ cBackup' = backup
    /\ queued' = TRUE
    /\ UNCHANGED <<clusterVars, cCron, cJobs, pc, op, bk, run>>

\* Owns(&CronJob{}): every change of the CronJob queues its Backup.
WatchCronJob ==
    /\ cCron # cron
    /\ cCron' = cron
    /\ queued' = TRUE
    /\ UNCHANGED <<clusterVars, cBackup, cJobs, pc, op, bk, run>>

\* A Job leads to its Backup through its CronJob owner reference only.
findBackupForJob(job) == job.owner # 0

\* An update is mapped from the old and from the new object.
JobEvent(j) ==
    IF j \in DOMAIN cJobs
    THEN /\ cJobs[j] # jobs[j]
         /\ findBackupForJob(cJobs[j]) \/ findBackupForJob(jobs[j])
    ELSE findBackupForJob(jobs[j])

WatchJobs ==
    /\ cJobs # jobs
    /\ cJobs' = jobs
    /\ queued' = (queued \/ \E j \in Names : JobEvent(j))
    /\ UNCHANGED <<clusterVars, cBackup, cCron, pc, op, bk, run>>

\* The informers' periodic resync queues the Backup although nothing changed.
Resync ==
    /\ "resync" \in Events
    /\ cBackup.state # "absent" /\ ~queued
    /\ queued' = TRUE
    /\ UNCHANGED <<clusterVars, caches, pc, op, bk, run>>
-----------------------------------------------------------------------------
(* Reconcile, up to the first call that writes.                            *)

\* Take the request off the queue and read the Backup.
Dequeue ==
    /\ pc = "idle" /\ queued
    /\ Read(cBackup = backup)
    /\ UNCHANGED <<manifest, backup, cron, secret, jobs, caches>>

Kind(b) == manifest[b.gen]

\* Mutant: the generation is not compared, every reconcile rebuilds.
NeverReconciled(b) == FALSE

Reconciled(b) == b.gen = b.obs

\* The Backup is gone or being deleted.
SkipDeleted ==
    /\ Dequeue
    /\ cBackup.state # "live"
    /\ Finish(FALSE)

TakeBackup ==
    /\ Dequeue
    /\ cBackup.state = "live"
    /\ pc' = "route"
    /\ bk' = cBackup
    /\ queued' = FALSE
    /\ UNCHANGED <<op, run>>

\* Read the CronJob, to choose the handler and what it has to do.
Route ==
    /\ pc = "route"
    /\ Read(cCron = cron)
    /\ UNCHANGED <<manifest, backup, cron, secret, jobs, caches>>

\* Validation fails: the error is returned before the Jobs are looked at.
RejectInvalid ==
    /\ Route
    /\ Kind(bk) = "invalid"
    /\ Retry

\* Nothing to build: no schedule, or the spec was built before.
KeepSchedule ==
    /\ Route
    /\ \/ Kind(bk) = "unscheduled"
       \/ /\ Kind(bk) # "invalid"
          /\ cCron.state # "absent"
          /\ Reconciled(bk)
    /\ GoTo("jobs")

\* The handler builds the schedule.
Build(handler) ==
    /\ Route
    /\ Kind(bk) \notin {"unscheduled", "invalid"}
    /\ pc' = "secret"
    /\ op' = handler
    /\ UNCHANGED <<queued, bk, run>>

handleBackupCreate == cCron.state = "absent" /\ Build("create")

handleBackupUpdate ==
    /\ cCron.state # "absent"
    /\ ~Reconciled(bk)
    /\ Build("update")
-----------------------------------------------------------------------------
(* The calls of handleBackupCreate and handleBackupUpdate, in order.       *)

\* Mutant: an update refreshes the Secret and leaves the CronJob alone.
RefreshSecretOnly ==
    /\ pc = "secret"
    /\ secret' = bk.gen
    /\ GoTo(IF op = "create" THEN "create" ELSE "record")
    /\ UNCHANGED <<manifest, backup, cron, jobs, faults, caches>>

\* Mutant: an existing Secret is left as it is.
CreateSecretOnce ==
    /\ pc = "secret"
    /\ secret' = IF secret = 0 THEN bk.gen ELSE secret
    /\ GoTo(IF op = "create" THEN "create" ELSE "delete")
    /\ UNCHANGED <<manifest, backup, cron, jobs, faults, caches>>

\* The config Secret is created or updated from the worker's copy.
CreateSecret ==
    /\ pc = "secret"
    /\ secret' = bk.gen
    /\ GoTo(IF op = "create" THEN "create" ELSE "delete")
    /\ UNCHANGED <<manifest, backup, cron, jobs, faults, caches>>

\* Mutant: background propagation instead of Orphan.
DeletedInBackground(c) == [NoCron EXCEPT !.uid = c.uid]

\* Orphan deletion, by name: the CronJob stays until the collector has
\* released its Jobs.  A missing CronJob is fine.
Deleted(c) == IF c.state = "live" THEN [c EXCEPT !.state = "terminating"] ELSE c

deleteCronJob ==
    /\ pc = "delete"
    /\ cron' = Deleted(cron)
    /\ GoTo("create")
    /\ UNCHANGED <<manifest, backup, secret, jobs, faults, caches>>

\* Mutant: no SetControllerReference.
UnownedCronJob(gen, uid) ==
    [state |-> "live", gen |-> gen, uid |-> uid, owned |-> FALSE]

BuiltCronJob(gen, uid) ==
    [state |-> "live", gen |-> gen, uid |-> uid, owned |-> TRUE]

createCronJob ==
    /\ pc = "create"
    /\ Kind(bk) # "rejected"
    /\ cron.state = "absent"
    /\ cron' = BuiltCronJob(bk.gen, cron.uid + 1)
    /\ GoTo(IF op = "create" THEN "record" ELSE "check")
    /\ UNCHANGED <<manifest, backup, secret, jobs, faults, caches>>

\* The API server's validation refuses the CronJob.
CronJobRejected ==
    /\ pc = "create"
    /\ Kind(bk) = "rejected"
    /\ Retry
    /\ UNCHANGED <<clusterVars, caches>>

\* AlreadyExists: an error for a create, a retry in 2 seconds for an update,
\* which still goes on to the Jobs.
CronJobExists ==
    /\ pc = "create"
    /\ Kind(bk) # "rejected"
    /\ cron.state # "absent"
    /\ IF op = "create"
       THEN Retry
       ELSE pc' = "jobs" /\ queued' = TRUE /\ UNCHANGED <<op, bk, run>>
    /\ UNCHANGED <<clusterVars, caches>>

\* The name prefix, which other Backups' Jobs may share, is all that counts.
Related(js) == {j \in DOMAIN js : ~js[j].gone}

hasRunningBackupJob ==
    /\ pc = "check"
    /\ Read(cJobs = jobs)
    /\ GoTo(IF \E j \in Related(cJobs) : InProgress(getJobPhase(cJobs[j]))
            THEN "record" ELSE "trigger")
    /\ UNCHANGED <<manifest, backup, cron, secret, jobs, caches>>

triggerManualBackupJob ==
    /\ pc = "trigger"
    /\ Len(jobs) < MaxJobs
    /\ Created(NewJob("manual", cron.uid))
    /\ GoTo("record")
    /\ UNCHANGED <<manifest, backup, cron, secret, faults, caches>>
-----------------------------------------------------------------------------
(* recordObservedGeneration: a merge patch, with no resourceVersion to     *)
(* conflict on; its response replaces the worker's copy.                   *)

AlreadyRecorded ==
    /\ pc = "record"
    /\ Reconciled(bk)
    /\ GoTo("jobs")
    /\ UNCHANGED <<clusterVars, caches>>

\* Mutant: the newest generation is recorded instead of the one reconciled.
recordNewestGeneration ==
    /\ pc = "record"
    /\ ~Reconciled(bk)
    /\ backup.state # "absent"
    /\ backup' = [backup EXCEPT !.obs = backup.gen]
    /\ bk' = backup'
    /\ pc' = "jobs"
    /\ UNCHANGED <<manifest, cron, secret, jobs, faults, caches, queued, op, run>>

recordObservedGeneration ==
    /\ pc = "record"
    /\ ~Reconciled(bk)
    /\ backup.state # "absent"
    /\ backup' = [backup EXCEPT !.obs = bk.gen]
    /\ bk' = backup'
    /\ pc' = "jobs"
    /\ UNCHANGED <<manifest, cron, secret, jobs, faults, caches, queued, op, run>>

RecordNotFound ==
    /\ pc = "record"
    /\ ~Reconciled(bk)
    /\ backup.state = "absent"
    /\ Retry
    /\ UNCHANGED <<clusterVars, caches>>
-----------------------------------------------------------------------------
(* reconcileJobStatus, and the end of Reconcile.                           *)

\* Mutant: whatever comes first in the list is taken for the latest.
AnyJob(js) == Related(js)

\* Strictly later creation times win; within one second the cache's order
\* decides, which is arbitrary.
LatestJobs(js) ==
    {j \in Related(js) : \A i \in Related(js) : js[i].born <= js[j].born}

\* What the cached Jobs have to say about this Backup: one run status each.
Observed == {buildRunStatus(j, cJobs[j]) : j \in LatestJobs(cJobs)}

ListJobs ==
    /\ pc = "jobs"
    /\ Read(cJobs = jobs)
    /\ UNCHANGED <<manifest, backup, cron, secret, jobs, caches>>

NothingToReport ==
    /\ ListJobs
    /\ \/ Observed = {}
       \/ \E r \in Observed : AlreadyProcessed(bk.last, r)
    /\ Done(bk.last)

reconcileJobStatus ==
    /\ ListJobs
    /\ \E r \in Observed : ~AlreadyProcessed(bk.last, r) /\ run' = r
    /\ pc' = "status"
    /\ UNCHANGED <<queued, op, bk>>

\* Status().Update carries the copy's resourceVersion.  Its answer may be lost:
\* an error after a write that took effect.
UpdateStatus ==
    /\ pc = "status"
    /\ bk = backup /\ backup.state # "absent"
    /\ backup' = StatusAfter(bk, run)
    /\ \/ Done(run) /\ UNCHANGED faults
       \/ Retry /\ Fault("request")
    /\ UNCHANGED <<manifest, cron, secret, jobs, caches>>

\* A conflict is not an error: the request ends as if it had succeeded.
StatusConflict ==
    /\ pc = "status"
    /\ bk # backup /\ backup.state # "absent"
    /\ Done(run)
    /\ UNCHANGED <<clusterVars, caches>>

StatusNotFound ==
    /\ pc = "status"
    /\ backup.state = "absent"
    /\ Retry
    /\ UNCHANGED <<clusterVars, caches>>
-----------------------------------------------------------------------------
(* Mishaps of the operator.                                                *)

\* Any call may fail, or succeed without its answer arriving (the next one then
\* fails in its place; for the last call, see UpdateStatus).
RequestFails ==
    /\ pc # "idle"
    /\ Fault("request")
    /\ Retry
    /\ UNCHANGED <<manifest, backup, cron, secret, jobs, caches>>

\* A new process lists everything afresh and starts with a full queue.
OperatorRestart ==
    /\ Fault("crash")
    /\ Finish(TRUE)
    /\ cBackup' = backup /\ cCron' = cron /\ cJobs' = jobs
    /\ UNCHANGED <<manifest, backup, cron, secret, jobs>>
-----------------------------------------------------------------------------
Watch == WatchBackup \/ WatchCronJob \/ WatchJobs

Reconcile ==
    \/ SkipDeleted \/ TakeBackup
    \/ RejectInvalid \/ KeepSchedule
    \/ handleBackupCreate \/ handleBackupUpdate
    \/ CreateSecret \/ deleteCronJob
    \/ createCronJob \/ CronJobRejected \/ CronJobExists
    \/ hasRunningBackupJob \/ triggerManualBackupJob
    \/ AlreadyRecorded \/ recordObservedGeneration \/ RecordNotFound
    \/ NothingToReport \/ reconcileJobStatus
    \/ UpdateStatus \/ StatusConflict \/ StatusNotFound

Next ==
    \/ ClusterNext /\ UNCHANGED <<caches, workerVars>>
    \/ Watch \/ Resync
    \/ Reconcile
    \/ RequestFails \/ OperatorRestart

Spec == Init /\ [][Next]_vars

\* The worker runs, the watches deliver, the garbage collector collects.
\* Nothing is assumed of the user, the schedule, the Pods or the mishaps.
Fairness ==
    /\ WF_vars(Reconcile)
    /\ WF_vars(WatchBackup) /\ WF_vars(WatchCronJob) /\ WF_vars(WatchJobs)
    /\ WF_vars(Gc /\ UNCHANGED <<caches, workerVars>>)

FairSpec == Spec /\ Fairness
-----------------------------------------------------------------------------
(* What the operator promises.                                             *)

\* A live CronJob is at least as new as the generation the status claims to
\* have reconciled: between any two calls, whatever the caches served
\* (recordObservedGeneration runs after createCronJob, never before).
ObservedImpliesBuilt == cron.state = "live" => cron.gen >= backup.obs

\* While the Backup lives, the Secret its scheduled Jobs mount is at least as
\* new as the schedule (CreateSecret runs before createCronJob).
SecretCoversSchedule ==
    backup.state = "live" /\ cron.state = "live" => secret >= cron.gen

\* The last run is one of the recent runs, which list each Job once and stay
\* within the window (reconcileJobStatus, addToRecentRuns, MaxItems=5).
LastRunListed ==
    /\ backup.last # NoRun => \E i \in DOMAIN backup.recent : backup.recent[i] = backup.last
    /\ \A i, k \in DOMAIN backup.recent :
          backup.recent[i].job = backup.recent[k].job => i = k
    /\ Len(backup.recent) <= MaxRecentRuns

\* Each Job's success or failure is counted at most once, across conflicts,
\* stale caches, restarts and retries, as long as Jobs are removed oldest
\* first, no two are created within one second, and nobody deletes the Backup
\* or its CronJob (shouldIncrementCounters).
CountedOnce ==
    /\ backup.succ <= Cardinality({j \in Names : jobs[j].succeeded = 1})
    /\ backup.fail <= Cardinality({j \in Names : jobs[j].gone \/ jobs[j].failed > 0})

ListedSuccesses ==
    {j \in Names : \E i \in DOMAIN backup.recent :
        backup.recent[i].job = j /\ backup.recent[i].phase = "Succeeded"}

\* No success is listed that was not counted, whatever dropped conflicts and
\* repeated requests came between (reconcileJobStatus, shouldIncrementCounters).
ListedAreCounted == Cardinality(ListedSuccesses) <= backup.succ

\* No outcome is listed that did not happen, whatever became of the Job while
\* the caches lagged: a listed success is its Job's, a listed failure that of
\* one of its Pods, unless the Job was removed since (getJobPhase).
ReportsHappened ==
    \A i \in DOMAIN backup.recent :
        LET listed == backup.recent[i] IN
        /\ listed.job \in Names
        /\ listed.phase = "Succeeded" => jobs[listed.job].succeeded = 1
        /\ listed.phase = "Failed" => jobs[listed.job].gone \/ jobs[listed.job].failed > 0

\* The last run never goes back: not from an outcome to a run in progress, and
\* to an older Job only if its own is gone, however far the caches, the worker's
\* copy and its retries lag behind (reconcileJobStatus).
LastRunForward ==
    [][backup'.last # backup.last /\ backup'.state # "absent" =>
          \/ backup'.last.job > backup.last.job
          \/ backup'.last.job < backup.last.job /\ jobs[backup.last.job].gone
          \/ /\ backup'.last.job = backup.last.job
             /\ Terminal(backup.last.phase) => Terminal(backup'.last.phase)]_vars

\* An edit starts at most one immediate run; only a fault can make the
\* controller start it again (recordObservedGeneration ends the rebuild).
ManualRunsBounded ==
    Cardinality({j \in Names : jobs[j].by = "manual"}) <= Len(manifest) - 1 + faults

\* A schedule rebuild never takes away a Job that has not finished, unless
\* someone else deletes the CronJob (deleteCronJob orphans its Jobs).
InProgressSurvives ==
    [][\A j \in Names : Unfinished(jobs[j]) /\ jobs'[j].gone => backup.state # "live"]_vars

\* The CronJob, the Secret and the status as the API server holds them
\* implement the contract of a schedule, step by step.
Contract == INSTANCE ScheduleContract WITH
    generation   <- Len(manifest),
    built        <- IF cron.state = "live" THEN cron.gen ELSE 0,
    acknowledged <- backup.obs,
    retired      <- backup.state = "absent"

ImplementsContract == Contract!Spec

GoodSpec == backup.state = "live" /\ Schedulable(Last(manifest))

Settled ==
    /\ cron.state = "live" /\ cron.gen = Len(manifest)
    /\ backup.obs = Len(manifest)
    /\ secret = Len(manifest)

\* Nobody has anything left to do for the Backup: the worker, the watches, the
\* collector of its old CronJob.
Resting ==
    /\ pc = "idle" /\ ~queued
    /\ cBackup = backup /\ cCron = cron
    /\ cron.state # "terminating"

\* The controller never comes to rest with a good spec unbuilt: no error path,
\* early return, lagging cache or restart loses the request that is still
\* needed (the returns of Reconcile, SetupWithManager).
NothingForgotten == GoodSpec /\ Resting => Settled

\* A settled schedule, and no rebuild under way or to come: the cache shows the
\* generation acknowledged.  A create that the lag of the other cache starts
\* writes the same Secret and finds the CronJob there.
Noticed ==
    /\ backup.state = "live" /\ Settled
    /\ cBackup.gen = Len(manifest) /\ cBackup.obs = Len(manifest)
    /\ \/ pc \in {"idle", "jobs", "status"}
       \/ pc = "route" /\ bk.gen = Len(manifest) /\ Reconciled(bk)
       \/ pc \in {"secret", "create"} /\ op = "create" /\ bk.gen = Len(manifest)

\* Once the cache shows the acknowledgement, the schedule stays as it is, across
\* restarts, failed requests and status updates, until someone edits or deletes
\* the Backup or deletes the CronJob (handleBackupUpdate compares generations).
SettledStays ==
    [][Noticed => Noticed' \/ EditBackup \/ DeleteBackup \/ KillCronJob]_vars

\* A Backup that stays, with a good spec, gets the schedule of its last edit,
\* and then keeps it.
Converges == <>[]GoodSpec => <>[]Settled

CleanedUp ==
    /\ backup.state = "absent" /\ cron.state = "absent" /\ secret = 0
    /\ \A j \in Names : jobs[j].gone \/ jobs[j].owner = 0

\* A deleted Backup leaves no CronJob, no Secret and no Job owned by one, even
\* if the worker was in the middle of a build (SkipDeleted, the owner
\* references).
DeletionCompletes == backup.state # "live" ~> []CleanedUp

Reported == \A j \in LatestJobs(jobs) :
    backup.last.job = j /\ backup.last.phase = getJobPhase(jobs[j])

\* The newest Job sends no events that reach this Backup, and nobody looks
\* again: a Job that was orphaned and succeeds after an attempt that failed
\* (the failure was the last thing recorded), or another Backup's Job.
Unheard == \E j \in LatestJobs(jobs) :
    /\ ~findBackupForJob(jobs[j])
    /\ jobs[j].by = "other" \/ (jobs[j].failed > 0 /\ jobs[j].succeeded = 1)

\* For a Backup that stays and has a good spec, the state of the newest Job,
\* scheduled or immediate, keeps reaching the status: through every attempt of
\* a Job that has its owner, and through the first one of an orphaned Job,
\* although conflicts are dropped.  It is not promised for a Job that is
\* Unheard: a retry of an orphaned Job is lost (findBackupForJob, the requeue
\* after 30 seconds; PhaseIsCurrent is the claim without the exception).
OutcomeRecorded == <>[]GoodSpec => []<>(Reported \/ Unheard)
=============================================================================
