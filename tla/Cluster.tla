------------------------------ MODULE Cluster ------------------------------
(***************************************************************************)
(* The part of Kubernetes the operator works against, and the user: one    *)
(* Backup object, the CronJob and the Secret of the same name, and every   *)
(* Job whose name starts with "<backup>-".  This is the API server's       *)
(* state, with the CronJob controller, the Job controller and the garbage  *)
(* collector acting on it.  None of it is code of the repository: it is    *)
(* modelled from what the controller relies on.                            *)
(***************************************************************************)
EXTENDS RunStatus, FiniteSets

CONSTANTS
    Manifests,      \* The kinds of spec a user may apply, a subset of Kinds
    MaxGeneration,  \* Bound on spec edits
    MaxScheduled,   \* Bound on Jobs when the CronJob controller adds one
    MaxJobs,        \* Bound on Jobs in all
    BackoffLimit,   \* A Job's retries; the template leaves it unset (6)
    Events,         \* The optional events a run includes, a subset of EventKinds
    MaxFaults       \* Bound on how many of the FaultKinds among them happen

\* scheduled and suspended: a good spec, with schedule.suspend off or on.
\* unscheduled: no schedule, or a blank cron expression.  invalid: refused by
\* the operator (not five cron fields, no storage or no database refs).
\* rejected: five cron fields, but the API server refuses the CronJob.
Kinds == {"scheduled", "suspended", "unscheduled", "invalid", "rejected"}

Schedulable(kind) == kind \in {"scheduled", "suspended"}

\* crash: the operator restarts.  request: one of its API calls fails.  stale:
\* one of its reads is served by a cache that lags.  kill: someone deletes the
\* CronJob.
FaultKinds == {"crash", "request", "stale", "kill"}

\* delete: the user deletes the Backup.  resync: the informers' periodic
\* resync.  foreign: another Backup's Jobs share the name prefix.  ties: Jobs
\* are created within one second.  reorder: a newer Job is removed before an
\* older one.  condition: a Job's Complete or Failed condition comes in a later
\* update than the Pod count it follows from.
EventKinds == FaultKinds \cup
    {"delete", "resync", "foreign", "ties", "reorder", "condition"}

ASSUME ClusterAssumption ==
    /\ Manifests \subseteq Kinds
    /\ MaxGeneration \in Nat \ {0}
    /\ MaxScheduled \in Nat
    /\ MaxJobs \in Nat
    /\ BackoffLimit \in Nat
    /\ Events \subseteq EventKinds
    /\ MaxFaults \in Nat

VARIABLES
    manifest,   \* The specs applied so far; the index is the generation
    backup,     \* The Backup object: metadata and status
    cron,       \* The CronJob, with the generation it was built from
    secret,     \* The generation the Secret was built from, 0 if none
    jobs,       \* The Jobs ever created, in order; removed ones are "gone"
    faults      \* How many faults have happened

clusterVars == <<manifest, backup, cron, secret, jobs, faults>>

NoBackup == [state |-> "absent", gen |-> 0, obs |-> 0, last |-> NoRun,
             recent |-> <<>>, succ |-> 0, fail |-> 0]

\* owned: the Backup is its controller.  While absent, uid is the uid of the
\* CronJob that was there last.
NoCron == [state |-> "absent", gen |-> 0, uid |-> 0, owned |-> FALSE]

Backup == [state: {"absent", "live", "deleting"}, gen: Nat, obs: Nat,
           last: Run, recent: Seq(Run), succ: Nat, fail: Nat]

CronJob == [state: {"absent", "live", "terminating"}, gen: Nat, uid: Nat, owned: BOOLEAN]

\* owner is the uid in the CronJob owner reference, 0 if there is none; born
\* is the second of creationTimestamp; finished is the Complete or Failed
\* condition.
Job == [by: {"cron", "manual", "other"}, owner: Nat, born: Nat,
        active: {0, 1}, failed: Nat, succeeded: {0, 1},
        finished: BOOLEAN, gone: BOOLEAN]

ClusterTypeOK ==
    /\ manifest \in Seq(Kinds)
    /\ backup \in Backup
    /\ cron \in CronJob
    /\ secret \in Nat
    /\ jobs \in Seq(Job)
    /\ faults \in Nat

Names == DOMAIN jobs

Unfinished(job) == ~job.gone /\ ~job.finished

Decided(job) == job.succeeded = 1 \/ job.failed > BackoffLimit

\* What is remembered of a removed Job: where it came from, and its success.
Removed(job) == [job EXCEPT !.gone = TRUE, !.owner = 0, !.active = 0, !.failed = 0,
                            !.finished = TRUE]

LastBorn == IF jobs = <<>> THEN 0 ELSE jobs[Len(jobs)].born

\* A Job created now, in a later second than the last one unless ties happen.
Created(job) ==
    \E second \in {LastBorn, LastBorn + 1} :
        /\ second = LastBorn => "ties" \in Events /\ jobs # <<>>
        /\ jobs' = Append(jobs, [job EXCEPT !.born = second])

NewJob(by, owner) ==
    [by |-> by, owner |-> owner, born |-> 0, active |-> 0, failed |-> 0,
     succeeded |-> 0, finished |-> FALSE, gone |-> FALSE]

\* A fault of this kind happens now.
Fault(kind) ==
    /\ kind \in Events
    /\ faults < MaxFaults
    /\ faults' = faults + 1

ClusterInit ==
    /\ \E kind \in Manifests : manifest = <<kind>>
    /\ backup = [NoBackup EXCEPT !.state = "live", !.gen = 1]
    /\ cron = NoCron
    /\ secret = 0
    /\ jobs = <<>>
    /\ faults = 0
-----------------------------------------------------------------------------
(* The user.                                                               *)

\* kubectl apply of a changed spec: the API server bumps the generation.
EditBackup ==
    /\ backup.state = "live"
    /\ Len(manifest) < MaxGeneration
    /\ \E kind \in Manifests : manifest' = Append(manifest, kind)
    /\ backup' = [backup EXCEPT !.gen = @ + 1]
    /\ UNCHANGED <<cron, secret, jobs, faults>>

\* kubectl delete: at once, or held by a finalizer or foreground deletion.
DeleteBackup ==
    /\ "delete" \in Events
    /\ backup.state = "live"
    /\ backup' \in {NoBackup, [backup EXCEPT !.state = "deleting"]}
    /\ UNCHANGED <<manifest, cron, secret, jobs, faults>>

KillCronJob ==
    /\ cron.state = "live"
    /\ Fault("kill")
    /\ cron' = [NoCron EXCEPT !.uid = cron.uid]
    /\ UNCHANGED <<manifest, backup, secret, jobs>>
-----------------------------------------------------------------------------
(* The CronJob controller.                                                 *)

\* concurrencyPolicy Forbid looks only at Jobs this CronJob scheduled itself.
CronBusy ==
    \E j \in Names : jobs[j].by = "cron" /\ jobs[j].owner = cron.uid /\ Unfinished(jobs[j])

ScheduleJob ==
    /\ cron.state = "live"
    /\ manifest[cron.gen] # "suspended"
    /\ ~CronBusy
    /\ Len(jobs) < MaxScheduled
    /\ Created(NewJob("cron", cron.uid))
    /\ UNCHANGED <<manifest, backup, cron, secret, faults>>

\* A Job of a Backup named "<backup>-...", owned by that Backup's CronJob.
ForeignJob ==
    /\ "foreign" \in Events
    /\ Len(jobs) < MaxScheduled
    /\ Created(NewJob("other", 0))
    /\ UNCHANGED <<manifest, backup, cron, secret, faults>>
-----------------------------------------------------------------------------
(* The Job controller.                                                     *)

JobStep(j, change) ==
    /\ jobs' = [jobs EXCEPT ![j] = change]
    /\ UNCHANGED <<manifest, backup, cron, secret, faults>>

PodStarts(j) ==
    /\ Unfinished(jobs[j]) /\ ~Decided(jobs[j])
    /\ jobs[j].active = 0
    /\ JobStep(j, [jobs[j] EXCEPT !.active = 1])

\* The Pod's outcome is counted; if it decides the Job, the condition and the
\* completion time come with it, or later.
PodEnds(j, job) ==
    /\ ~jobs[j].gone
    /\ jobs[j].active = 1
    /\ \E finished \in BOOLEAN :
          /\ finished => Decided(job)
          /\ Decided(job) /\ ~finished => "condition" \in Events
          /\ JobStep(j, [job EXCEPT !.active = 0, !.finished = finished])

PodFails(j) == PodEnds(j, [jobs[j] EXCEPT !.failed = @ + 1])

PodSucceeds(j) == PodEnds(j, [jobs[j] EXCEPT !.succeeded = 1])

JobFinishes(j) ==
    /\ Unfinished(jobs[j])
    /\ Decided(jobs[j])
    /\ JobStep(j, [jobs[j] EXCEPT !.finished = TRUE])

\* The TTL of a finished Job, or the CronJob's history limits.
JobRemoved(j) ==
    /\ ~jobs[j].gone /\ jobs[j].finished
    /\ "reorder" \in Events \/ \A i \in 1 .. (j - 1) : jobs[i].gone
    /\ JobStep(j, Removed(jobs[j]))
-----------------------------------------------------------------------------
(* The garbage collector.                                                  *)

\* The orphan finalizer of a deleted CronJob: its Jobs lose their owner
\* reference, then the CronJob goes.
GcOrphans ==
    /\ cron.state = "terminating"
    /\ cron' = [NoCron EXCEPT !.uid = cron.uid]
    /\ jobs' = [j \in Names |-> IF jobs[j].owner = cron.uid /\ ~jobs[j].gone
                                THEN [jobs[j] EXCEPT !.owner = 0] ELSE jobs[j]]
    /\ UNCHANGED <<manifest, backup, secret, faults>>

\* The CronJob and the Secret go with the Backup that owns them.
GcCronJob ==
    /\ backup.state # "live"
    /\ cron.state = "live" /\ cron.owned
    /\ cron' = [NoCron EXCEPT !.uid = cron.uid]
    /\ UNCHANGED <<manifest, backup, secret, jobs, faults>>

GcSecret ==
    /\ backup.state # "live"
    /\ secret # 0
    /\ secret' = 0
    /\ UNCHANGED <<manifest, backup, cron, jobs, faults>>

\* A Job goes with the CronJob that owns it.
OwnerGone(job) ==
    job.owner # 0 /\ ~(cron.state # "absent" /\ cron.uid = job.owner)

GcJob(j) ==
    /\ ~jobs[j].gone
    /\ OwnerGone(jobs[j])
    /\ JobStep(j, Removed(jobs[j]))

\* The last finalizer of a Backup being deleted is removed.
GcBackup ==
    /\ backup.state = "deleting"
    /\ backup' = NoBackup
    /\ UNCHANGED <<manifest, cron, secret, jobs, faults>>

Gc == GcOrphans \/ GcCronJob \/ GcSecret \/ GcBackup \/ \E j \in Names : GcJob(j)

ClusterNext ==
    \/ EditBackup \/ DeleteBackup \/ KillCronJob
    \/ ScheduleJob \/ ForeignJob
    \/ \E j \in Names : PodStarts(j) \/ PodFails(j) \/ PodSucceeds(j)
                        \/ JobFinishes(j) \/ JobRemoved(j)
    \/ Gc
=============================================================================
