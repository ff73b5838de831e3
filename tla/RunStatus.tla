----------------------------- MODULE RunStatus -----------------------------
(***************************************************************************)
(* The bookkeeping a Backup's status keeps about its Jobs: how a Job's     *)
(* counters become a phase, when a phase counts, and the sliding window of *)
(* recent runs.  Pure operators, translated from                           *)
(* internal/controller/backup_controller.go.                               *)
(*                                                                         *)
(* A Job is named by its position in the sequence of Jobs ever created     *)
(* (Cluster!jobs); 0 stands for "no Job".  Start times, log excerpts and   *)
(* the wording of messages are left out.                                   *)
(***************************************************************************)
EXTENDS Naturals, Sequences

CONSTANT MaxRecentRuns    \* The controller's constant, 5 in the code

ASSUME MaxRecentRunsAssumption == MaxRecentRuns \in Nat \ {0}

Phases == {"Pending", "Running", "Succeeded", "Failed"}

\* What BackupRunStatus says of one Job.  "outcome" is TRUE iff the entry
\* carries the Job's completion time or final message.
Run == [job: Nat, phase: Phases \cup {"None"}, outcome: BOOLEAN]

\* status.lastRun = nil
NoRun == [job |-> 0, phase |-> "None", outcome |-> FALSE]

Least(a, b) == IF a <= b THEN a ELSE b

\* Mutant: the phases of BackupStatus.Phase's comment, "Idle" among them.
PhaseOfStatusDoc(job) ==
    IF job.succeeded > 0 THEN "Succeeded"
    ELSE IF job.failed > 0 THEN "Failed"
    ELSE IF job.active > 0 THEN "Running"
    ELSE "Idle"

\* Mutant: a Job that is not running any more is taken for a success.
PhaseOfIdleJob(job) ==
    IF job.failed > 0 THEN "Failed"
    ELSE IF job.active > 0 THEN "Running"
    ELSE "Succeeded"

\* Success outranks failure, and one failed Pod outranks a Pod now running.
getJobPhase(job) ==
    IF job.succeeded > 0 THEN "Succeeded"
    ELSE IF job.failed > 0 THEN "Failed"
    ELSE IF job.active > 0 THEN "Running"
    ELSE "Pending"

Terminal(phase) == phase \in {"Succeeded", "Failed"}

InProgress(phase) == phase \in {"Running", "Pending"}

\* The message comes from the Complete or Failed condition, the completion
\* time from a completed Job: both exist only once the Job has finished.
buildRunStatus(name, job) ==
    [job |-> name, phase |-> getJobPhase(job), outcome |-> job.finished]

AlreadyProcessed(last, run) == last.job = run.job /\ last.phase = run.phase

\* Mutant: only a Job not seen before is counted.
CountNewJobs(last, run) == Terminal(run.phase) /\ last.job # run.job

\* Counters move only for a Job not seen before, or one whose phase changed.
shouldIncrementCounters(last, run) ==
    /\ Terminal(run.phase)
    /\ last.job # run.job \/ last.phase # run.phase

\* Mutant: the window is trimmed at the wrong end.
TrimNewest(recentRuns, run) ==
    LET known == {i \in DOMAIN recentRuns : recentRuns[i].job = run.job}
        grown == <<run>> \o recentRuns
    IN  IF known # {}
        THEN [recentRuns EXCEPT ![CHOOSE i \in known : TRUE] = run]
        ELSE SubSeq(grown, Len(grown) - Least(Len(grown), MaxRecentRuns) + 1, Len(grown))

\* Replace the entry of this Job, or put a new entry in front and trim.
addToRecentRuns(recentRuns, run) ==
    LET known == {i \in DOMAIN recentRuns : recentRuns[i].job = run.job}
        grown == <<run>> \o recentRuns
    IN  IF known # {}
        THEN [recentRuns EXCEPT ![CHOOSE i \in known : TRUE] = run]
        ELSE SubSeq(grown, 1, Least(Len(grown), MaxRecentRuns))

\* The status written for one observation of the latest Job.
StatusAfter(backup, run) ==
    LET counts    == shouldIncrementCounters(backup.last, run)
        succeeded == counts /\ run.phase = "Succeeded"
        failed    == counts /\ run.phase = "Failed"
    IN  [backup EXCEPT !.last = run,
                       !.recent = addToRecentRuns(@, run),
                       !.succ = IF succeeded THEN @ + 1 ELSE @,
                       !.fail = IF succeeded THEN 0
                                ELSE IF failed THEN @ + 1 ELSE @]
=============================================================================
