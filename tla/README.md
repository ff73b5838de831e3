# A TLA+ model of the GoBackup operator

The operator turns a `Backup` object into a Secret (the `gobackup.yml`
configuration) and a CronJob, rebuilds both when the manifest is edited, starts
a run after an edit, and writes what became of the Jobs into the Backup's
status. The code is small; what is hard about it is everything that happens
between two of its API calls. These modules model that, TLC checks it on small
instances, and TLAPS proves the main results for all of them.

All line numbers are those of `internal/controller/backup_controller.go` unless
another file is named.

## The system

| Part | State | Operations | Talks to |
|---|---|---|---|
| Backup reconciler (`backup_controller.go`) | none of its own between requests: a local copy of the Backup while a request runs | `Reconcile`, `handleBackupCreate`, `handleBackupUpdate` and the calls they make, `reconcileJobStatus` | API server (writes), informer caches (reads), config Secret builder |
| Manager (`cmd/main.go`, `SetupWithManager`) | work queue, informer caches | watches of Backups, CronJobs and Jobs; one worker | API server, reconciler |
| Config Secret builder (`pkg/k8sutil/secret.go`, `crd.go`) | none of its own between builds: the configuration under construction | `CreateSecret`, `resolveSecretReferences`, `ensureOwnerReference`, `GetCRD` | API server (no cache): Databases, Storages, credential Secrets, the config Secret |
| Database, Storage, credential Secret (`api/v1/database_types.go`, `storage_types.go`) | a configuration, given as values and as `<field>_ref` | edited, deleted and created by the user; not watched | |
| Backup object (`api/v1/backup_types.go`) | spec with `metadata.generation`, status | edited by the user, status written by the reconciler | |
| Kubernetes (external) | CronJob, Secret, Jobs | CronJob controller, Job controller, garbage collector, TTL controller | |

How they interact. An edit of the spec bumps `generation`; the Backup's watch
queues it; the worker reads Backup and CronJob from the caches. No CronJob: it is
a *create* (Secret, CronJob, record the generation). A CronJob, and a generation
other than `status.observedGeneration`: it is an *update* (Secret, delete the old
CronJob with Orphan propagation, create the new one, start a manual Job unless
one is in progress, record the generation). Either way, unless an error was
returned, `reconcileJobStatus` then lists the Jobs whose name starts with
`<backup>-`, takes the newest and writes its phase, the counters and the window
of recent runs. A Job leads back to its Backup only through its CronJob owner
reference, which Orphan deletion removes.

What is hard: stale caches; edits, restarts and failed calls between any two
steps; the asynchronous deletion of the CronJob; a status update that drops
conflicts beside a merge patch that cannot conflict; Jobs that are orphaned,
retried, removed, or share a creation second; deletion in the middle of a build;
a configuration put together from several objects that change between the reads,
written by get-then-update into a Secret that others may hold.
`PROJECT.json` lists each hazard at its line, with the property that covers it or
the reason none does yet.

What makes each part correct: the acknowledged generation, CronJob and Secret
stay in order; a good spec is eventually built and kept; an edit starts one run
and takes none away; what becomes of the newest Job is recorded, unless it is the
retry of an orphaned Job, which is lost; no outcome is counted twice and no success
is listed uncounted, under the conditions stated with those properties; a deleted
Backup leaves nothing behind. Of the config Secret: it is written
whole, from one build of one spec, with each value as its source had it during
that build; it arrives in the end, and it goes with its Backup.

## The modules

| Module | Models |
|---|---|
| `RunStatus` | pure operators of the status bookkeeping: `getJobPhase`, `buildRunStatus`, `shouldIncrementCounters`, `addToRecentRuns`, `StatusAfter` |
| `Cluster` | the API server's objects, the user, the CronJob and Job controllers, the garbage collector (external) |
| `BackupController` | the manager and the reconciler, composed with `Cluster`; the properties |
| `ScheduleContract` | the abstract specification: what the owner of a Backup may rely on |
| `ConfigSources` | what a configuration is made of: the Backup's specs over all its lives, the Databases, Storages and credential Secrets with their versions, and the user who changes them (external) |
| `GobackupSecret` | the config Secret builder, split at its API calls; the properties |
| `ConfigContract` | the abstract specification: what the Secret of a Backup may hold |
| `MCBackupController`, `MCGobackupSecret` | the two as the passing configurations instantiate them |
| `BackupClaims`, `SecretClaims` | sentences of the comments and docs that the code does not keep |
| `RunStatusProofs` | proofs about the status bookkeeping: the window of recent runs |
| `BackupControllerProofs` | types, the order of generations, the refinement of `ScheduleContract` |
| `JobHistoryProofs` | what becomes of Jobs: the rebuild takes none away, a deletion is final |
| `LastRunProofs`, `CounterProofs` | the recorded run, the outcomes listed, the outcomes counted |
| `ManualRunProofs` | the immediate runs that edits start |
| `ProgressProofs` | the controller at rest |
| `GobackupSecretProofs` | types, the refinement of `ConfigContract` |

`BackupController` EXTENDS `Cluster`, which EXTENDS `RunStatus`; it INSTANCEs
`ScheduleContract` with a refinement mapping. `GobackupSecret` and
`ConfigContract` both EXTEND `ConfigSources`; the first INSTANCEs the second.
Each module of proofs EXTENDS the one whose lemmas it cites: `RunStatusProofs`,
`BackupControllerProofs`, `JobHistoryProofs`, then `LastRunProofs` with
`CounterProofs` on top of it, and `ManualRunProofs` beside them; `ProgressProofs`
needs only `BackupControllerProofs`.

The two systems overlap in one place. `BackupController` takes `CreateSecret` as
one write of the generation it was built from, and has everything around it;
`GobackupSecret` has every call of it, and reduces what is around it to when a
build begins, from which spec, and whether the rest of the handler succeeds.

### State of the Backup controller

| Variable | Stands for |
|---|---|
| `manifest` | the specs applied so far, as kinds: `scheduled`, `suspended`, `unscheduled` (lines 150, 201), `invalid` (lines 285-311), `rejected` (passes the operator's check of five fields, refused by the API server). The index is the generation |
| `backup` | the Backup object: its life, `generation`, `observedGeneration`, `lastRun`, `recentRuns` and the two counters. `status.phase` always equals `lastRun.phase` and is left out |
| `cron` | the CronJob, with the generation it was built from (its whole contents), its uid and whether the Backup owns it |
| `secret` | the generation the Secret was built from |
| `jobs` | every Job ever created, in order; removed ones are marked `gone`. `owner` is the CronJob uid in the owner reference, `born` the second of `creationTimestamp` |
| `cBackup`, `cCron`, `cJobs` | the informer caches |
| `queued` | the work queue holds the Backup, now or after a delay |
| `pc`, `op`, `bk`, `run` | the running request: the API call it makes next, its handler, its copy of the Backup, the run status to be written |
| `faults` | how many faults have happened (a bound) |

### Actions of the Backup controller

The reconciler is cut at its API calls: everything between two calls is local
and belongs to the action of the later one.

| `pc` | Actions | Code |
|---|---|---|
| `idle` | `SkipDeleted`, `TakeBackup` | 78-92: the read of the Backup |
| `route` | `RejectInvalid`, `KeepSchedule`, `handleBackupCreate`, `handleBackupUpdate` | 94-121: the read of the CronJob, and the early returns of both handlers |
| `secret` | `CreateSecret` | `secret.go` 36-261 |
| `delete` | `deleteCronJob` | 460-470 |
| `create` | `createCronJob`, `CronJobRejected`, `CronJobExists` | 409-455, 239-253 |
| `check` | `hasRunningBackupJob` | 475-492 |
| `trigger` | `triggerManualBackupJob` | 499-521 |
| `record` | `recordObservedGeneration`, `AlreadyRecorded`, `RecordNotFound` | 527-537 |
| `jobs` | `reconcileJobStatus`, `NothingToReport` | 540-609 |
| `status` | `UpdateStatus`, `StatusConflict`, `StatusNotFound` | 611-647 |
| any | `RequestFails`, `OperatorRestart` | every error return; the process |

`Retry` is a returned error, which puts the request back on the queue; `Done` is
the end of `Reconcile` with its 30-second requeue (lines 128-138). Delays are not
measured: a delayed request is a queued one.

Abstractions worth knowing:

- A cache is a snapshot of the server's object that catches up in one step
  (`WatchBackup`, ...). The state a cache skips is not seen, as with a merged
  watch event. A request served while its cache lags counts as a `stale` fault,
  so that a run can bound how often it happens; without the event `stale` the
  worker reads only caches that are up to date.
  The runs with fairness leave `stale` out: lagging reads that go on for ever
  would excuse the operator from everything.
- An optimistic-lock conflict is "the copy differs from the object". A resource
  version also changes when contents do not; every write modelled changes the
  contents.
- The status patch is a merge patch without resource version: it sets
  `observedGeneration` on whatever the object is now, and its answer becomes the
  worker's copy.
- `CreateSecret` is one write of the generation it was built from. Its failures
  (a missing Database, Storage or Secret, a conflict) are `RequestFails`.
  `RequestFails` also stands for a call that succeeds while its answer is lost:
  the action of the call, then the failure at the next step. The status update is
  the last call and has no next step: there `UpdateStatus` itself may lose the
  answer.
- The names of Jobs are their positions; a collision of two manual names within
  one second is a failed request.
- A CronJob's suspend flag is that of the manifest it was built from.

### State of the config Secret builder

| Variable | Stands for |
|---|---|
| `manifest`, `live` | the specs applied so far, over all lives of the Backup, each with the uid of its Backup; whether the Backup exists. A spec is its list of references |
| `world` | each source's versions. Of an object, which fields it gives directly and which by reference; of a credential, whether it is there |
| `secret` | the Secret of the Backup's name: the uids in its owner references, and the configuration as the spec it was built from and, for every field of every object, the source and version its value came from. `revision` stands for the resource version as far as other writers move it |
| `cached`, `acknowledged`, `queued` | the Backup in the informer cache, the spec that the last complete reconcile was about, the work queue |
| `pc`, `build`, `found` | the API call `CreateSecret` makes next, its local variables, its copy of the Secret. `build.since` is no variable of the code: it remembers the versions at the start, for the contract |

### Actions of the config Secret builder

Line numbers are those of `pkg/k8sutil/secret.go`.

| `pc` | Actions | Code |
|---|---|---|
| `idle` | `NothingToBuild`, `Begin` | the reconciler decides to build |
| `object` | `GetCRD`, `CRDNotFound` | 48-63, 107-125, `crd.go` 14-33 |
| `reference` | `resolveSecretReferences`, `ReferenceNotFound` | 275-331 |
| `get` | `GetSecret` | 235-247 |
| `create` | `Create`, `AlreadyExists` | 238-245 |
| `update` | `Update`, `UpdateRefused` | 249-260, 263-270 |
| any | `RequestFails`, `OperatorRestart` | the error returns; the process |

Both loops of `CreateSecret` are one: a spec lists its Databases first, then its
Storages. `Proceed` is what happens between two calls: an object with references
left to fetch goes on with them, a finished one joins the model and the loop
moves on. Abstractions:

- `resolveSecretReferences` visits a Go map, in any order. Credentials are
  therefore fetched in any order, and a field given both ways takes either value
  (`Outcomes`).
- `type` is a field of which a Database is itself the source and which a
  reference to a Storage overrides; `keep` and `timeout` are overridden when the
  reference sets them. The other options of the spec (scripts, compression,
  encoding) come from the Backup alone and stand with the spec's number.
- The checks that `spec`, `type` and `config` are there (lines 65-81, 127-139)
  cannot fail for objects the CRD schema admits. The schema also drops unknown
  keys, so the cases that rename camelCase keys are not reached and a key keeps
  its name.
- The API server refuses an update whose Secret was changed, deleted or created
  again since it was read, and one with two controller references.
- The fault `handler` stands for any failure after the Secret was written and
  before the generation is recorded; `rebuild` for a reconcile that builds the
  same spec again (a deleted CronJob, a cache that lags).

## The runs

| Run | Instance | Shows |
|---|---|---|
| `EditsAndFaults` | good specs, one edit, two faults among restart, failed request, stale read, killed CronJob | `ObservedImpliesBuilt`, `SecretCoversSchedule`, `ManualRunsBounded`, `LastRunForward`, `NothingForgotten`, `SettledStays` |
| `AllSpecs` | all five kinds, two edits, under fairness | `TypeOK`, `ImplementsContract`, `Converges` |
| `RunningJobs` | one edit, up to two scheduled Jobs and a manual one, window of 2 | `LastRunListed`, `CountedOnce`, `ListedAreCounted`, `ReportsHappened`, `InProgressSurvives` |
| `Outcomes` | one edit, a scheduled Job and a manual one, each with a second attempt, or a Job of another Backup, under fairness | `OutcomeRecorded` |
| `Deletion` | deletion at any point, resyncs, late conditions, under fairness | `DeletionCompletes` |
| `ConfigSecret` | one Database that takes user and password from a credential Secret or gives the password itself, one Storage listed twice, two specs and two lives of the Backup, one fault of six kinds, under fairness | `TypeOK`, `ImplementsConfigContract`, `EventuallyDelivered`, `EventuallyCollected` |

Six more runs must fail: each checks one sentence of the repository
(`BackupClaims`, `SecretClaims`) and TLC finds the behaviour that breaks it.

| Run | Sentence | What happens |
|---|---|---|
| `StackedRun` | 255-256: "so we don't stack a run on top of an in-progress one" | a Job between two attempts has phase `Failed` and is not seen as running |
| `RunAfterEdit` | 193-195: every edit "triggers an immediate run if nothing is already running" | the old CronJob is still terminating, the retry finds none and is a create, which starts no run |
| `FreshCronJob` | 180-182: the next reconcile "does not immediately delete and recreate the freshly created CronJob" | the cached Backup does not show the recorded generation yet |
| `SuccessCount` | `backup_types.go` 146: "SuccessCount tracks total successful backups" | two Jobs of one second: the newest depends on the list order and one is counted twice |
| `Retries` | `backup_types.go` 103: "Phase is the current phase of the backup" | an orphaned Job fails once, is recorded `Failed`, and its later success reaches nobody |
| `RefPrecedence` | `config/samples/storage/README.md` 105: "When both direct value and SecretRef are provided, SecretRef takes precedence." | the value that the iteration over the map visits last is written |

### Bounds, and why they are enough

`MaxGeneration` 2 is one edit: the rebuild compares only the generation being
built with a newer and an older one, and the second edit of a run meets the same
states as the first. `AllSpecs` has two, so that a good spec can replace one that
took the schedule away. `MaxFaults` 2 lets a fault hit the recovery from a fault.
`MaxScheduled` and `MaxJobs` bound the Jobs the schedule and the operator create:
two scheduled Jobs and a manual one make a latest, a previous and an orphaned Job
together. `MaxRecentRuns` is 5 in the code; 1 and 2 make the window overflow.
The Job template leaves `backoffLimit` unset, so it is Kubernetes' default of 6.
`BackoffLimit` is 1 in the runs about attempts, `Outcomes`, `StackedRun` and
`Retries`: a Job that fails and goes on, then succeeds or fails for good. More
attempts only raise `failed`, which the code compares with 0. In the other runs it is
0, one attempt a Job: of their properties the safety ones are theorems for every
limit, and `Converges` and `DeletionCompletes` do not depend on how a Job ends.
`Events` names the optional events a
run includes, so that each question is asked of the smallest instance that has
it. The theorems hold for every value of all of these.

`EditsAndFaults` allows as many manual Jobs (4) as edits and faults can start
and one more, so the bound on them is the code's and not the model's. In it
and elsewhere a full `jobs` disables `triggerManualBackupJob`; in the runs with
fairness `MaxJobs` is at least what the behaviours can create.

`ConfigSecret`: `MaxSpecs` 2 is an edit, or a second Backup under the name of
the deleted one. `MaxVersions` 2 lets the Database and the credential change once
between any two reads, or be missing first and come, or be there and go;
the two references of one Database to one credential make a user and a password of
different versions. The Storage has one version, present or not: a second object
that changes adds interleavings of the same two kinds. Its two references make the
later one replace the entry of the earlier. `MaxFaults` 1 puts one fault at any
point of these; a second one multiplies the states beyond the run, and the proof
of the contract has no bound. `RefPrecedence` needs no edit and no fault.

Deadlock is not checked: the system rests when the user, the schedule and the
Jobs have nothing left to do.

Jobs are removed oldest first and get distinct creation seconds unless a run has
the events `reorder` and `ties`. `CountedOnce` depends on this, as `SuccessCount`
shows of the ties, and on two more things TLC has counterexamples for: with
`delete`, a Backup deleted in the foreground may lose its newest Job, and the
worker, whose copy is the Backup being deleted, then counts the one before it
again; with `kill`, the collector takes the newest Job with the CronJob and the
same happens. Both need the request to go on after the newest Job is gone.
`LastRunForward` depends on the distinct seconds only; `ListedAreCounted`,
`ReportsHappened` and `ManualRunsBounded` on none of these.

### Fairness

Weak fairness of the worker (controller-runtime's workers take whatever is
queued), of each watch (informers relist and reconnect), and of the garbage
collector. Nothing is assumed of the user, the schedule, the Pods or the faults:
a Job may run for ever, and a fault may never happen. `GobackupSecret` assumes
the same of its worker, the Backup's watch and the collector; its users may leave
a source missing for ever, which is why `EventuallyDelivered` asks for sources
that are there from some moment on.

## The proofs

`tlapm` checks every theorem to the last leaf.

- `TypeCorrect`: `Spec => []TypeOK`. The obligations that are not routine are the
  record updates of `StatusAfter` and the window, for which `RunStatusProofs` has
  `PhaseType`, `BuiltRunType` and `RecentRunsType`.
- `ObservedSound`, `SecretSound`: `ObservedImpliesBuilt` and
  `SecretCoversSchedule` are not inductive, because a worker may hold an old copy
  of the Backup, and the CronJob it deletes may not be the one it has read. The
  strengthening `ScheduleInv` orders the generations everywhere, in five parts:
  `BackupInv`, the Backup's generation counts the specs and its status never runs
  ahead of it; `CacheInv`, however far the cache lags, it has seen the generation
  last recorded, because that generation was built from it; `CronInv`, a live
  CronJob lies between what is recorded and what the cache has seen; `WorkerInv`,
  the generation of the copy the worker has taken is at least the recorded one and
  the live CronJob's, already while the handler is chosen, and once the CronJob has
  been created it is the CronJob's; and
  `SecretInv`, after the Secret step the Secret is at least as new as the worker's
  copy. One worker is the only writer of `observedGeneration`, CronJob and Secret,
  which is what makes it inductive. TLC checked `ScheduleInv` as an invariant with
  the constants of `EditsAndFaults`, `AllSpecs` and `Deletion` before the proof.
- `ContractKept`: `Spec => Contract!Spec`, from `ScheduleInv`: `createCronJob`
  maps to `Build`, `recordObservedGeneration` to `Acknowledge`, edits, deletions
  and collections to `Edit`, `Withdraw` and `Retire`, everything else stutters.
- `WindowKept`, `RecentRunsSound`: `addToRecentRuns` keeps the window free of
  duplicates and within `MaxRecentRuns` and puts the new run in it, hence
  `LastRunListed` in every reachable state.
- `AcknowledgedIsCurrent`: from `ScheduleInv` and the fact that no Secret is of a
  generation to come (`SecretBounded`). The orders above bound CronJob and Secret
  from below; this bounds them from above, so that a status that acknowledges the
  newest generation tells the whole truth about the CronJob in force.
- `JobHistoryProofs` first says what a later state of a Job keeps of an earlier
  one (`Follows`) and the ways a step may touch the Jobs (`JobSteps`): one is
  added, one is removed, or they change in place. Everything below rests on it.
  - `RunningJobsSound`: `InProgressSurvives`, if nobody else deletes the CronJob.
    `OwnersInv` says that, while the Backup lives, each Job is held by the CronJob
    there is or by none, so the collector has nothing to take: `deleteCronJob` leaves
    the old CronJob `terminating` until its Jobs are released, and the name is taken
    until then. It also says that a manual Job is only created with its CronJob
    alive. With `kill` the statement is false, by TLC.
  - `DeletionFinal`: once a deleted Backup is collected and the worker is past it
    (`Collected`), nothing of it comes back. `DeletionCompletes` says that this
    point is reached; here is the half of it that needs no fairness.
- `LastRunSound`: `LastRunForward`, if no two Jobs are created within one second.
  `LastRunInv` has four parts: `BornInv`, Jobs are created one after the other;
  `CopyInv`, the cached Jobs are an earlier state of the Jobs; the status says of
  its Job what is still so in the cache, or the Job is gone (`Reports`); and
  `PendingInv`, the run waiting to be written replaces the last one, unless the
  worker's copy is out of date, in which case the update is refused.
- `CountedWhileLive`, `CountedOnceSound`: `CountedOnce`, while the Backup lives
  or, if nobody deletes it, always. A counter is bounded by the outcomes that
  happened, but this is not inductive: nothing says that the next one was not
  counted before. `CountInv` bounds it by the outcomes *accounted for*, those of
  the Jobs up to the last run (`Successes`, `Failures`), and says that the run
  about to be written goes beyond the last one (`Advances`). A run that advances and
  is counted adds a Job to the accounted ones; one that is not leaves them. It
  advances because the newest Job is there as long as any is, which is where the
  hypotheses come in: Jobs go oldest first (no `reorder`), the newest is unique (no
  `ties`), and the collector takes none (no `kill`, by `OwnersInv`, and a Backup
  that lives).
- `ListedSuccessesCounted`, `ReportsSound`: `ListedAreCounted` and
  `ReportsHappened`, with no hypothesis at all. `ListedInv` says of every listed
  run, and of the one about to be written, that it shows what became of its Job
  (`Shows`), and of the latter that it changes what the worker's copy says
  (`~AlreadyProcessed`). A success that is written is therefore of another Job or
  phase than the last run, which is what the increment rule asks, and the update
  that lists it counts it; it makes at most one entry a success, and the trim at the
  other end only takes entries away.
- `ManualRunsSound`: `ManualRunsBounded`, with no hypothesis at all. The bound is
  not inductive, since an update may be under way whose run has not started.
  `RunsInv` is a potential: `TotalInv` charges each run, and the one that is due
  (`Due`), to an edit or a fault; `AcknowledgedInv` says where the balance comes
  from: the runs so far are paid by the generations acknowledged (`PaidInv`), one
  more is due only for a newer one (`DueInv`), or because a fault kept a rebuild
  from its end (`BrokenOffInv`); `RebuildInv` says that neither cache nor worker
  knows of an acknowledgement the status does not have. Between the read of the
  Backup and that of the CronJob the Backup may be edited or go; `ReadyInv` says
  that a run of the copy taken is paid for by then, if there is a CronJob.
- `NeverForgotten`: `NothingForgotten`. When the worker is idle, the queue empty,
  both caches up to date and no old CronJob about to go, a good spec is built.
  `ProgressInv` has four parts: `CronSeenInv`, the CronJob a rebuild has created is
  news to the cache unless its event is queued already, and the cache does not
  believe it absent before it is; `BackupSeenInv`, the cached Backup is an earlier
  state of the one that lives; `TakenInv`, the copy just taken is the cached one
  unless a newer one is queued; and `BuiltInv`, `NothingForgotten` for a worker that
  holds no copy to build from. The proof shows that a rebuild never ends the matter by itself:
  whenever it gets to its end, the event of the CronJob it created is still to
  come, and the request that follows finds everything recorded (`KeepSchedule`).
  An error path that returned no error would break it, whatever the fairness.
- `SettledSound`: `SettledStays`, the converse. `FreshCronJob` shows that a lagging
  cache can make a rebuild start over; this shows that it is the only way: once the
  cache shows the acknowledgement (`Noticed`), even a stale read of the CronJob,
  which starts a create, ends at `AlreadyExists` with the schedule as it was.
- `SecretTypeCorrect`: `TypeOK` of `GobackupSecret`. The reference, the version
  and the fields in hand exist at every step, because specs and versions are only
  added (`Grows`).
- `ConfigContractKept`: `Spec => ImplementsConfigContract`. A change of the
  sources maps to `Change`, `Begin` to `Start`, the error returns and a restart in
  the middle of a build to `Abandon`, `Create` and `Update` to `Deliver`, the
  collector to `Withdraw`; the reads stutter. `Deliver` demands that a finished model is
  explained by versions seen during the build, hence the invariant `SecretInv`:
  `ReadInv`, what has been read for the object in hand was there during the build;
  `ModelInv`, each finished entry is explained, and comes from the last reference
  to its object so far; `OrderInv`, the Secret's spec, the build's and the cache's
  are in this order; `OwnerInv`, a configuration has the one owner it was built
  from. `OrderInv` holds because one worker writes the Secret, `OwnerInv` because
  the API server refuses a second controller. TLC checked `SecretInv` with the
  constants of `ConfigSecret` before the proof.

The assumptions are `MaxRecentRunsAssumption` and `ClusterAssumption`: the
bounds are naturals, the sets of kinds and events are among those defined, at
least one generation and one recent run are allowed.

Of `GobackupSecret` they are `SourcesAssumption` and `FaultsAssumption`: objects
and credentials are distinct, each field has its credential, configurations are
those of their kind of object, and specs list at least one Database and then at
least one Storage (`validateBackupSpec`).

TLC checked the inductive invariants on small instances before their proofs;
`CountedOnce` and `InProgressSurvives` got their hypotheses from its
counterexamples.

Only model-checked are the liveness properties (`Converges`, `OutcomeRecorded`,
`DeletionCompletes`, `EventuallyDelivered`, `EventuallyCollected`), which are
beyond this prover; of the first and the third it has the halves above. Every invariant, action property and refinement that a
passing run checks is a theorem.

## Not modelled

- Several replicas reconciling at once. The manifests the kustomization uses
  (`config/manager/manager.yaml`) and the chart turn leader election on, and a change
  of leader is a restart. `config/manager/deployment.yaml`, which the kustomization
  does not use, passes no `--leader-elect` and asks for one replica. Two workers
  beside `Cluster` are too many states, and the orders proved here rest on one worker.
- A second life of the Backup as far as the CronJob goes (`GobackupSecret` has the
  Secret's side), and several Backups beyond the prefix collision.
- What the Secret is used for: mounts, Pods, and what gobackup does with the file.
- Individual fields of Databases and Storages, defaults and the schema's rules.
- Pod logs, messages and timestamps; client construction; the Helm chart and the
  scripts. `DeleteJob` and `DeleteSecret` have no caller.

`README.md` 189 of the repository offers a `Backup` without schedule "for an
immediate, one-time backup"; the reconciler ignores it (line 150, `KeepSchedule`).
No run shows this, there being no step to show.

## Plan

1. `RunStatus`, `Cluster`, `BackupController`, `ScheduleContract`: done, with the
   runs and theorems above.
2. `ConfigSources`, `GobackupSecret`, `ConfigContract`: done, with their run, the
   sentence about `_ref`, and the refinement proved.
3. Liveness after edits that take the schedule away: done (`AllSpecs`); the
   outcomes of Jobs with a second attempt: done (`Outcomes`).
4. `InProgressSurvives`, `CountedOnce`, `ManualRunsBounded`: proved, each under the
   weakest hypotheses TLC leaves; with them `ListedAreCounted` and
   `ReportsHappened`, which bound the status from the other side.
5. The halves of `Converges` and `DeletionCompletes` that need no fairness: proved
   (`NeverForgotten`, `SettledSound`, `DeletionFinal`).
6. Left: the same for `OutcomeRecorded` and for the liveness of the config Secret,
   and properties for the hazards that have none.
