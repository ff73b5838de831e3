---------------------------- MODULE BackupClaims ----------------------------
(***************************************************************************)
(* Sentences of the repository's comments, API docs and README, as         *)
(* properties of the controller.  The code does not keep them: each has a  *)
(* configuration in which TLC finds a behaviour that breaks it.            *)
(***************************************************************************)
EXTENDS BackupController

Triggers(j) == j \in DOMAIN jobs' \ Names /\ jobs'[j].by = "manual"

\* "so we don't stack a run on top of an in-progress one": an immediate run is
\* never started while a Job from before the rebuild is unfinished.
NoStackedRun ==
    [][\A j \in DOMAIN jobs' : Triggers(j) =>
          ~\E i \in Names : Unfinished(jobs[i]) /\ jobs[i].owner # cron.uid]_vars

\* "On every manifest edit it ... triggers an immediate run if nothing is
\* already running": an edit is never acknowledged before any Job ever ran.
RunAfterEdit ==
    [][0 < backup.obs /\ backup.obs < backup'.obs => jobs # <<>>]_vars

\* "so the next reconcile ... does not immediately delete and recreate the
\* freshly created CronJob": no CronJob of the acknowledged spec is deleted.
NoRecreateOfFresh ==
    [][cron.state = "live" /\ cron'.state = "terminating" => cron.gen # backup.obs]_vars

\* "SuccessCount tracks total successful backups": it never exceeds them.
SuccessCountTotal ==
    backup.succ <= Cardinality({j \in Names : jobs[j].succeeded = 1})

\* "Phase is the current phase of the backup": with retries too, the status
\* comes to show the phase of the newest Job.
PhaseIsCurrent == <>[]GoodSpec => []<>Reported
=============================================================================
