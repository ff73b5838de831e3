--------------------------- MODULE CounterProofs ---------------------------
(***************************************************************************)
(* The outcomes the status of a Backup lists and counts: none that did not *)
(* happen, no listed success uncounted and, for every value of the         *)
(* constants under which Jobs are created in different seconds and removed *)
(* oldest first, none counted twice.                                       *)
(***************************************************************************)
EXTENDS LastRunProofs, FiniteSetTheorems

\* Jobs are removed oldest first.
OldestFirst(js) == \A i, k \in DOMAIN js : i < k /\ js[k].gone => js[i].gone

\* The outcome a run status reports is its Job's.
Shows(r, js) ==
    r.job # 0 =>
        /\ r.job \in DOMAIN js
        /\ r.phase = "Succeeded" => js[r.job].succeeded = 1
        /\ r.phase = "Failed" => js[r.job].gone \/ js[r.job].failed > 0

\* The run status r is of a newer Job than last, or of the same one later on.
Advances(r, last) ==
    \/ r.job > last.job
    \/ /\ r.job = last.job
       /\ last.phase = "Succeeded" => r.phase = "Succeeded"
       /\ last.phase = "Failed" => Terminal(r.phase)

\* A Job whose outcome of this phase may have been counted when the last run
\* was recorded: the Job of the last run, or one before it.
Accounted(j, last, phase) == j < last.job \/ (j = last.job /\ last.phase = phase)

Successes(js, last) ==
    {j \in DOMAIN js : js[j].succeeded = 1 /\ Accounted(j, last, "Succeeded")}

Failures(js, last) ==
    {j \in DOMAIN js : (js[j].gone \/ js[j].failed > 0) /\ Accounted(j, last, "Failed")}

\* While the Backup lives: what it counted are outcomes up to its last run,
\* and the run to be written goes beyond it.
CountInv ==
    backup.state = "live" =>
        /\ OldestFirst(jobs) /\ OldestFirst(cJobs)
        /\ Shows(backup.last, cJobs)
        /\ pc = "status" => run.job # 0 /\ Shows(run, cJobs) /\ Advances(run, backup.last)
        /\ backup.succ <= Cardinality(Successes(jobs, backup.last))
        /\ backup.fail <= Cardinality(Failures(jobs, backup.last))
-----------------------------------------------------------------------------
(* Counting.                                                               *)

\* The Jobs accounted for are finitely many.
LEMMA AccountedFinite ==
    ASSUME NEW js \in Seq(Job), NEW last
    PROVE  /\ IsFiniteSet(Successes(js, last)) /\ Cardinality(Successes(js, last)) \in Nat
           /\ IsFiniteSet(Failures(js, last)) /\ Cardinality(Failures(js, last)) \in Nat
<1>1. Len(js) \in Nat /\ DOMAIN js = 1 .. Len(js)
  BY LenProperties
<1>2. IsFiniteSet(DOMAIN js)
  BY <1>1, FS_Interval
<1>3. Successes(js, last) \in SUBSET DOMAIN js /\ Failures(js, last) \in SUBSET DOMAIN js
  BY DEF Successes, Failures
<1>4. IsFiniteSet(Successes(js, last)) /\ IsFiniteSet(Failures(js, last))
  BY <1>2, <1>3, FS_Subset
<1> QED
  BY <1>4, FS_CardinalityType

\* A set with an element more has at least one more element.
LEMMA CountMore ==
    ASSUME NEW S, NEW T, IsFiniteSet(T), S \subseteq T
    PROVE  /\ Cardinality(S) <= Cardinality(T)
           /\ \A x \in T \ S : Cardinality(S) + 1 <= Cardinality(T)
<1>1. IsFiniteSet(S) /\ Cardinality(S) <= Cardinality(T)
  BY FS_Subset
<1>2. ASSUME NEW x \in T \ S
      PROVE  Cardinality(S) + 1 <= Cardinality(T)
  <2>1. Cardinality(S \cup {x}) = Cardinality(S) + 1
    BY <1>1, FS_AddElement
  <2>2. Cardinality(S \cup {x}) <= Cardinality(T)
    <3>1. (S \cup {x}) \in SUBSET T
      OBVIOUS
    <3> QED
      BY <3>1, FS_Subset
  <2> QED
    BY <2>1, <2>2
<1> QED
  BY <1>1, <1>2

\* What was accounted for stays so.
LEMMA AccountedStays ==
    ASSUME NEW a \in Seq(Job), NEW b \in Seq(Job), JobsFollow(a, b), NEW last
    PROVE  /\ Cardinality(Successes(a, last)) <= Cardinality(Successes(b, last))
           /\ Cardinality(Failures(a, last)) <= Cardinality(Failures(b, last))
<1>1. DOMAIN a \subseteq DOMAIN b
  BY LenProperties DEF JobsFollow
<1>2. \A j \in DOMAIN a : Follows(a[j], b[j])
  BY DEF JobsFollow
<1>3. Successes(a, last) \subseteq Successes(b, last)
  BY <1>1, <1>2 DEF Successes, Follows
<1>4. Failures(a, last) \subseteq Failures(b, last)
  BY <1>1, <1>2 DEF Failures, Follows
<1> QED
  BY <1>3, <1>4, AccountedFinite, CountMore

\* What StatusAfter does to the counts.
LEMMA StatusCounts ==
    ASSUME NEW b \in Backup, NEW r \in Run
    PROVE  LET counts == shouldIncrementCounters(b.last, r)
           IN  /\ StatusAfter(b, r).succ =
                      IF counts /\ r.phase = "Succeeded" THEN b.succ + 1 ELSE b.succ
               /\ StatusAfter(b, r).fail =
                      IF counts /\ r.phase = "Succeeded" THEN 0
                      ELSE IF counts /\ r.phase = "Failed" THEN b.fail + 1 ELSE b.fail
<1> DEFINE counts    == shouldIncrementCounters(b.last, r)
           succeeded == counts /\ r.phase = "Succeeded"
           failed    == counts /\ r.phase = "Failed"
           recent == addToRecentRuns(b.recent, r)
           succ == IF succeeded THEN b.succ + 1 ELSE b.succ
           fail == IF succeeded THEN 0 ELSE IF failed THEN b.fail + 1 ELSE b.fail
<1>1. StatusAfter(b, r) = [b EXCEPT !.last = r, !.recent = recent, !.succ = succ, !.fail = fail]
  BY Zenon DEF StatusAfter
<1> HIDE DEF recent, succ, fail
<1>2. StatusAfter(b, r).succ = succ /\ StatusAfter(b, r).fail = fail
  BY <1>1 DEF Backup
<1> QED
  BY <1>2 DEF succ, fail

\* A run that advances leaves no Job uncounted that was counted, and is
\* counted only if it was not.
LEMMA CountsUpdate ==
    ASSUME NEW js \in Seq(Job), NEW b \in Backup, NEW r \in Run,
           r.job # 0, Shows(r, js), Advances(r, b.last),
           b.succ <= Cardinality(Successes(js, b.last)),
           b.fail <= Cardinality(Failures(js, b.last))
    PROVE  /\ StatusAfter(b, r).succ <= Cardinality(Successes(js, r))
           /\ StatusAfter(b, r).fail <= Cardinality(Failures(js, r))
<1> DEFINE counts == shouldIncrementCounters(b.last, r)
<1>1. /\ b.last.job \in Nat /\ r.job \in Nat /\ b.succ \in Nat /\ b.fail \in Nat
      /\ r.job >= b.last.job
  BY DEF Backup, Run, Advances
<1>2. /\ Cardinality(Successes(js, b.last)) \in Nat /\ Cardinality(Successes(js, r)) \in Nat
      /\ Cardinality(Failures(js, b.last)) \in Nat /\ Cardinality(Failures(js, r)) \in Nat
      /\ IsFiniteSet(Successes(js, r)) /\ IsFiniteSet(Failures(js, r))
  BY AccountedFinite
<1>3. DOMAIN js \subseteq Nat
  BY LenProperties
<1>4. Successes(js, b.last) \subseteq Successes(js, r)
  BY <1>1, <1>3 DEF Successes, Accounted, Advances
<1>5. ~(counts /\ r.phase = "Succeeded") => Failures(js, b.last) \subseteq Failures(js, r)
  BY <1>1, <1>3 DEF Failures, Accounted, Advances, shouldIncrementCounters, Terminal
<1>6. counts /\ r.phase = "Succeeded" => r.job \in Successes(js, r) \ Successes(js, b.last)
  BY <1>1 DEF Successes, Accounted, Advances, shouldIncrementCounters, Shows
<1>7. counts /\ r.phase = "Failed" => r.job \in Failures(js, r) \ Failures(js, b.last)
  BY <1>1 DEF Failures, Accounted, Advances, shouldIncrementCounters, Shows
<1>8. StatusAfter(b, r).succ <= Cardinality(Successes(js, r))
  <2>1. StatusAfter(b, r).succ =
            IF counts /\ r.phase = "Succeeded" THEN b.succ + 1 ELSE b.succ
    BY StatusCounts
  <2>2. /\ Cardinality(Successes(js, b.last)) <= Cardinality(Successes(js, r))
        /\ counts /\ r.phase = "Succeeded" =>
               Cardinality(Successes(js, b.last)) + 1 <= Cardinality(Successes(js, r))
    BY <1>2, <1>4, <1>6, CountMore
  <2> HIDE DEF counts
  <2> QED
    BY <1>1, <1>2, <2>1, <2>2
<1>9. StatusAfter(b, r).fail <= Cardinality(Failures(js, r))
  <2>1. StatusAfter(b, r).fail =
            IF counts /\ r.phase = "Succeeded" THEN 0
            ELSE IF counts /\ r.phase = "Failed" THEN b.fail + 1 ELSE b.fail
    BY StatusCounts
  <2>2. ~(counts /\ r.phase = "Succeeded") =>
            /\ Cardinality(Failures(js, b.last)) <= Cardinality(Failures(js, r))
            /\ counts /\ r.phase = "Failed" =>
                   Cardinality(Failures(js, b.last)) + 1 <= Cardinality(Failures(js, r))
    BY <1>2, <1>5, <1>7, CountMore
  <2> HIDE DEF counts
  <2> QED
    BY <1>1, <1>2, <2>1, <2>2
<1> QED
  BY <1>8, <1>9
-----------------------------------------------------------------------------
(* What is read in the cache.                                              *)

\* What a run status says of its Job stays so.
LEMMA ShowsOn ==
    ASSUME NEW a \in Seq(Job), NEW b \in Seq(Job), JobsFollow(a, b), NEW r, Shows(r, a)
    PROVE  Shows(r, b)
<1>1. r.job \in DOMAIN a => r.job \in DOMAIN b /\ Follows(a[r.job], b[r.job])
  BY LenProperties DEF JobsFollow
<1> QED
  BY <1>1 DEF Shows, Follows

\* A run status read in the cache shows its Job there.
LEMMA ObservedShows ==
    ASSUME TypeOK, NEW r \in Observed
    PROVE  r.job # 0 /\ Shows(r, cJobs)
<1>1. PICK j \in LatestJobs(cJobs) : r = buildRunStatus(j, cJobs[j])
  BY DEF Observed
<1>2. r.job = j /\ r.phase = getJobPhase(cJobs[j])
  BY <1>1 DEF buildRunStatus
<1>3. cJobs \in Seq(Job) /\ Len(cJobs) \in Nat /\ DOMAIN cJobs = 1 .. Len(cJobs)
  BY NamesType, LenProperties
<1>4. j \in DOMAIN cJobs /\ cJobs[j] \in Job
  BY <1>3 DEF LatestJobs, Related
<1>5. cJobs[j].succeeded \in {0, 1}
  BY <1>4 DEF Job
<1> QED
  BY <1>2, <1>3, <1>4, <1>5 DEF Shows, getJobPhase

\* The latest of the cached Jobs goes beyond any run shown by the cache.
LEMMA ObservedAdvances ==
    ASSUME TypeOK, BornInv, CopyInv, OldestFirst(cJobs), NEW last \in Run,
           Shows(last, cJobs), NEW r \in Observed
    PROVE  r.job # 0 /\ Shows(r, cJobs) /\ Advances(r, last)
<1>1. PICK j \in LatestJobs(cJobs) : r = buildRunStatus(j, cJobs[j])
  BY DEF Observed
<1>2. r.job = j /\ r.phase = getJobPhase(cJobs[j])
  BY <1>1 DEF buildRunStatus
<1>3. /\ cJobs \in Seq(Job) /\ Len(cJobs) \in Nat /\ Len(jobs) \in Nat
      /\ DOMAIN cJobs = 1 .. Len(cJobs) /\ Names = 1 .. Len(jobs)
      /\ Len(cJobs) <= Len(jobs)
  BY NamesType, LenProperties DEF CopyInv, JobsFollow
<1>4. /\ j \in DOMAIN cJobs /\ j \in Nat /\ ~cJobs[j].gone
      /\ \A i \in DOMAIN cJobs : ~cJobs[i].gone => cJobs[i].born <= cJobs[j].born
  BY <1>3 DEF LatestJobs, Related
<1>5. \A i \in DOMAIN cJobs :
          /\ cJobs[i].born = jobs[i].born /\ cJobs[i].born \in Nat
          /\ cJobs[i].succeeded \in {0, 1} /\ cJobs[i].failed \in Nat
  <2>1. \A i \in DOMAIN cJobs : cJobs[i] \in Job
    BY <1>3
  <2>2. \A i \in DOMAIN cJobs : Follows(cJobs[i], jobs[i])
    BY DEF CopyInv, JobsFollow
  <2> QED
    BY <2>1, <2>2 DEF Follows, Job
<1>6. r.job # 0 /\ Shows(r, cJobs)
  BY ObservedShows
<1>7. CASE last.job = 0
  BY <1>2, <1>3, <1>4, <1>6, <1>7 DEF Advances
<1>8. CASE last.job # 0
  <2>1. /\ last.job \in DOMAIN cJobs /\ last.job \in Nat
        /\ last.phase = "Succeeded" => cJobs[last.job].succeeded = 1
        /\ last.phase = "Failed" => cJobs[last.job].gone \/ cJobs[last.job].failed > 0
    BY <1>8 DEF Shows, Run
  <2>2. ~(j < last.job)
    <3> SUFFICES ASSUME j < last.job PROVE FALSE
      OBVIOUS
    <3>1. ~cJobs[last.job].gone
      BY <1>4, <2>1 DEF OldestFirst
    <3>2. cJobs[last.job].born <= cJobs[j].born
      BY <1>4, <2>1, <3>1
    <3>3. jobs[j].born < jobs[last.job].born
      BY <1>3, <1>4, <2>1 DEF BornInv
    <3> QED
      BY <1>4, <1>5, <2>1, <3>2, <3>3
  <2>3. CASE j = last.job
    <3>1. /\ last.phase = "Succeeded" => r.phase = "Succeeded"
          /\ last.phase = "Failed" => Terminal(r.phase)
      BY <1>2, <1>4, <1>5, <2>1, <2>3 DEF getJobPhase, Terminal
    <3> QED
      BY <1>2, <1>6, <2>3, <3>1 DEF Advances
  <2> QED
    BY <1>2, <1>4, <1>6, <2>1, <2>2, <2>3 DEF Advances
<1> QED
  BY <1>6, <1>7, <1>8

\* A Job of a Backup that lives goes only when its history limits say so.
LEMMA OldestFirstStep ==
    ASSUME TypeOK, TypeOK', "reorder" \notin Events, OwnersInv, backup.state = "live",
           OldestFirst(jobs), [Next]_vars
    PROVE  OldestFirst(jobs)'
<1>1. /\ Names = 1 .. Len(jobs) /\ Len(jobs) \in Nat
      /\ Names' = 1 .. Len(jobs') /\ Len(jobs') \in Nat
  BY NamesType, LenProperties DEF Names, TypeOK, ClusterTypeOK
<1>2. \A j \in Names : j \in Names' /\ (jobs[j].gone => jobs'[j].gone)
  BY <1>1, JobsStepFollow DEF JobsFollow, Follows, Names
<1>3. ASSUME NEW k \in Names', jobs'[k].gone
      PROVE  k \in Names
  <2>1. CASE ScheduleJob \/ ForeignJob \/ triggerManualBackupJob
    <3>1. PICK job \in Job : JobAdded(job)
      BY <2>1, JobsCreated
    <3>2. Names' = Names \cup {Len(jobs) + 1} /\ ~jobs'[Len(jobs) + 1].gone
      BY <3>1, JobsMore DEF JobAdded
    <3> QED
      BY <1>3, <3>2
  <2>2. CASE ~(ScheduleJob \/ ForeignJob \/ triggerManualBackupJob)
    <3>1. Len(jobs') = Len(jobs)
      BY <2>2, JobSteps, NamesType, JobsReleased, JobsLess DEF JobsProgress
    <3> QED
      BY <1>1, <3>1
  <2> QED
    BY <2>1, <2>2
<1>4. ASSUME NEW k \in Names, ~jobs[k].gone, jobs'[k].gone
      PROVE  \A i \in 1 .. (k - 1) : jobs[i].gone
  <2>1. Held(jobs[k])
    BY <1>4 DEF OwnersInv
  <2>2. JobRemoved(k)
    BY <1>4, <2>1, GoneSteps DEF JobGoes, GcJob, OwnerGone, Held
  <2> QED
    BY <2>2 DEF JobRemoved
<1>5. ASSUME NEW i \in Names', NEW k \in Names', i < k, jobs'[k].gone
      PROVE  jobs'[i].gone
  <2>1. k \in Names /\ i \in Names
    BY <1>1, <1>3, <1>5
  <2>2. jobs[i].gone
    BY <1>1, <1>4, <1>5, <2>1 DEF OldestFirst, Names
  <2> QED
    BY <1>2, <2>1, <2>2
<1> QED
  BY <1>5 DEF OldestFirst, Names
-----------------------------------------------------------------------------
(* The counts.                                                             *)

LEMMA CountInit == Init => CountInv
<1> SUFFICES ASSUME Init PROVE CountInv
  OBVIOUS
<1>1. /\ jobs = <<>> /\ cJobs = <<>> /\ pc = "idle"
      /\ backup.last = NoRun /\ backup.succ = 0 /\ backup.fail = 0
  BY DEF Init, ClusterInit, NoBackup
<1>2. /\ Cardinality(Successes(jobs, backup.last)) \in Nat
      /\ Cardinality(Failures(jobs, backup.last)) \in Nat
  BY <1>1, EmptySeq, AccountedFinite
<1>3. OldestFirst(jobs) /\ OldestFirst(cJobs) /\ Shows(backup.last, cJobs)
  BY <1>1, EmptySeq DEF OldestFirst, Shows, NoRun
<1> QED
  BY <1>1, <1>2, <1>3 DEF CountInv

LEMMA CountStep ==
    ASSUME TypeOK, TypeOK', LastRunInv, OwnersInv, "reorder" \notin Events,
           CountInv, [Next]_vars
    PROVE  CountInv'
<1> SUFFICES ASSUME backup'.state = "live"
             PROVE  /\ OldestFirst(jobs)' /\ OldestFirst(cJobs)'
                    /\ Shows(backup'.last, cJobs')
                    /\ pc' = "status" => /\ run'.job # 0 /\ Shows(run', cJobs')
                                         /\ Advances(run', backup'.last)
                    /\ backup'.succ <= Cardinality(Successes(jobs', backup'.last))
                    /\ backup'.fail <= Cardinality(Failures(jobs', backup'.last))
  BY DEF CountInv, OldestFirst, Shows, Advances
<1>1. /\ backup.state = "live"
      /\ OldestFirst(jobs) /\ OldestFirst(cJobs) /\ Shows(backup.last, cJobs)
      /\ pc = "status" => run.job # 0 /\ Shows(run, cJobs) /\ Advances(run, backup.last)
      /\ backup.succ <= Cardinality(Successes(jobs, backup.last))
      /\ backup.fail <= Cardinality(Failures(jobs, backup.last))
  BY LiveBefore DEF CountInv
<1>2. /\ cJobs \in Seq(Job) /\ jobs \in Seq(Job) /\ cJobs' \in Seq(Job) /\ jobs' \in Seq(Job)
      /\ backup \in Backup /\ backup.last \in Run /\ run \in Run
      /\ backup.succ \in Nat /\ backup.fail \in Nat
      /\ BornInv /\ CopyInv
  BY DEF TypeOK, ClusterTypeOK, CacheTypeOK, WorkerTypeOK, Backup, LastRunInv
<1>3. JobsFollow(jobs, jobs') /\ JobsFollow(cJobs, cJobs')
  BY <1>2, JobsStepFollow, CopySteps, JobsFollowSame DEF CopyInv
<1>4. \A r : Shows(r, cJobs) => Shows(r, cJobs')
  BY <1>2, <1>3, ShowsOn
<1>5. OldestFirst(jobs)'
  BY <1>1, OldestFirstStep
<1>6. OldestFirst(cJobs)'
  BY <1>1, CopySteps DEF OldestFirst
<1>7. CASE UNCHANGED <<backup.last, backup.recent, backup.succ, backup.fail>> /\ ~UpdateStatus
  <2>1. /\ backup'.succ <= Cardinality(Successes(jobs', backup'.last))
        /\ backup'.fail <= Cardinality(Failures(jobs', backup'.last))
    <3>1. /\ Cardinality(Successes(jobs, backup.last)) <= Cardinality(Successes(jobs', backup.last))
          /\ Cardinality(Failures(jobs, backup.last)) <= Cardinality(Failures(jobs', backup.last))
      BY <1>2, <1>3, AccountedStays
    <3>2. /\ Cardinality(Successes(jobs, backup.last)) \in Nat
          /\ Cardinality(Successes(jobs', backup.last)) \in Nat
          /\ Cardinality(Failures(jobs, backup.last)) \in Nat
          /\ Cardinality(Failures(jobs', backup.last)) \in Nat
      BY <1>2, AccountedFinite
    <3> QED
      BY <1>1, <1>2, <1>7, <3>1, <3>2
  <2>2. ASSUME pc' = "status"
        PROVE  run'.job # 0 /\ Shows(run', cJobs') /\ Advances(run', backup'.last)
    <3>1. CASE UNCHANGED <<pc, run, bk>>
      BY <1>1, <1>4, <1>7, <2>2, <3>1 DEF Advances
    <3>2. CASE reconcileJobStatus
      <4>1. run' \in Observed /\ cJobs' = cJobs
        BY <3>2 DEF reconcileJobStatus, ListJobs, caches
      <4>2. run'.job # 0 /\ Shows(run', cJobs) /\ Advances(run', backup.last)
        BY <1>1, <1>2, <4>1, ObservedAdvances
      <4> QED
        BY <1>7, <4>1, <4>2
    <3> QED
      BY <2>2, <3>1, <3>2, CopySteps
  <2> QED
    BY <1>1, <1>4, <1>5, <1>6, <1>7, <2>1, <2>2
<1>8. CASE UpdateStatus
  <2>1. /\ pc = "status" /\ backup' = StatusAfter(backup, run)
        /\ jobs' = jobs /\ cJobs' = cJobs /\ pc' # "status"
    BY <1>8 DEF UpdateStatus, Done, Retry, Finish, caches
  <2>2. backup'.last = run
    BY <1>2, <2>1, StatusAfterKeeps
  <2>3. run.job # 0 /\ Shows(run, cJobs) /\ Advances(run, backup.last)
    BY <1>1, <2>1
  <2>4. Shows(run, jobs)
    BY <1>2, <2>3, ShowsOn DEF CopyInv
  <2>5. /\ backup'.succ <= Cardinality(Successes(jobs, run))
        /\ backup'.fail <= Cardinality(Failures(jobs, run))
    BY <1>1, <1>2, <2>1, <2>3, <2>4, CountsUpdate
  <2> QED
    BY <1>5, <1>6, <2>1, <2>2, <2>3, <2>5
<1>9. backup' # NoBackup
  BY DEF NoBackup
<1> QED
  BY <1>7, <1>8, <1>9, RecentSteps

\* The counts of a Backup that lives, from the invariant.
LEMMA CountsBounded ==
    ASSUME TypeOK, CountInv, backup.state = "live"
    PROVE  CountedOnce
<1>1. /\ jobs \in Seq(Job) /\ Len(jobs) \in Nat /\ Names = 1 .. Len(jobs)
      /\ backup.succ \in Nat /\ backup.fail \in Nat
  BY NamesType DEF TypeOK, ClusterTypeOK, Backup
<1> DEFINE succeeded == {j \in Names : jobs[j].succeeded = 1}
           failed    == {j \in Names : jobs[j].gone \/ jobs[j].failed > 0}
<1>2. IsFiniteSet(succeeded) /\ IsFiniteSet(failed)
  <2>1. IsFiniteSet(Names)
    BY <1>1, FS_Interval
  <2>2. succeeded \in SUBSET Names /\ failed \in SUBSET Names
    OBVIOUS
  <2> QED
    BY <2>1, <2>2, FS_Subset
<1>3. Successes(jobs, backup.last) \subseteq succeeded /\ Failures(jobs, backup.last) \subseteq failed
  BY DEF Successes, Failures, Names
<1>4. /\ backup.succ <= Cardinality(Successes(jobs, backup.last))
      /\ backup.fail <= Cardinality(Failures(jobs, backup.last))
  BY DEF CountInv
<1>5. /\ Cardinality(Successes(jobs, backup.last)) \in Nat
      /\ Cardinality(Failures(jobs, backup.last)) \in Nat
  BY <1>1, AccountedFinite
<1>6. Cardinality(succeeded) \in Nat /\ Cardinality(failed) \in Nat
  BY <1>2, FS_CardinalityType
<1>7. /\ Cardinality(Successes(jobs, backup.last)) <= Cardinality(succeeded)
      /\ Cardinality(Failures(jobs, backup.last)) <= Cardinality(failed)
  BY <1>2, <1>3, CountMore
<1> HIDE DEF succeeded, failed
<1>8. backup.succ <= Cardinality(succeeded) /\ backup.fail <= Cardinality(failed)
  BY <1>1, <1>4, <1>5, <1>6, <1>7
<1> QED
  BY <1>8 DEF CountedOnce, succeeded, failed

LEMMA CountCorrect ==
    ASSUME {"ties", "reorder", "kill"} \cap Events = {}
    PROVE  Spec => []CountInv
<1>1. TypeOK /\ TypeOK' /\ LastRunInv /\ [Next]_vars => LastRunInv'
  BY LastRunStep
<1>2. TypeOK /\ TypeOK' /\ LastRunInv /\ OwnersInv /\ CountInv /\ [Next]_vars => CountInv'
  BY CountStep
<1>3. Spec => []OwnersInv
  BY OwnersCorrect
<1> QED
  BY <1>1, <1>2, <1>3, LastRunInit, CountInit, TypeCorrect, PTL DEF Spec

\* While the Backup lives, each Job's success or failure is counted at most
\* once, whatever the order of conflicts, retries, restarts and lagging caches,
\* if its Jobs are created in different seconds, are removed oldest first, and
\* nobody else deletes its CronJob (shouldIncrementCounters).
THEOREM CountedWhileLive ==
    ASSUME {"ties", "reorder", "kill"} \cap Events = {}
    PROVE  Spec => [](backup.state = "live" => CountedOnce)
<1>1. TypeOK /\ CountInv => (backup.state = "live" => CountedOnce)
  BY CountsBounded
<1> QED
  BY <1>1, CountCorrect, TypeCorrect, PTL

\* A Backup nobody deletes counts each Job's outcome at most once, under the
\* same conditions.
THEOREM CountedOnceSound ==
    ASSUME {"ties", "reorder", "kill", "delete"} \cap Events = {}
    PROVE  Spec => []CountedOnce
<1>1. Init => backup.state = "live"
  BY DEF Init, ClusterInit, NoBackup
<1>2. TypeOK /\ backup.state = "live" /\ [Next]_vars => (backup.state = "live")'
  BY ContractSteps DEF EditBackup, DeleteBackup, GcBackup, recordObservedGeneration,
     TypeOK, ClusterTypeOK, Backup
<1>3. Spec => [](backup.state = "live")
  BY <1>1, <1>2, TypeCorrect, PTL DEF Spec
<1>4. Spec => [](backup.state = "live" => CountedOnce)
  BY CountedWhileLive
<1> QED
  BY <1>3, <1>4, PTL
-----------------------------------------------------------------------------
(* What is listed.                                                         *)

\* A run is written only if it changes what the status says, and it shows what
\* became of its Job; so does every run listed.
ListedInv ==
    /\ CopyInv
    /\ pc = "status" => /\ run.job # 0 /\ Shows(run, cJobs)
                        /\ ~AlreadyProcessed(bk.last, run)
    /\ \A i \in DOMAIN backup.recent :
          backup.recent[i].job # 0 /\ Shows(backup.recent[i], jobs)
    /\ ListedAreCounted

LEMMA ListedFinite ==
    ASSUME TypeOK
    PROVE  IsFiniteSet(ListedSuccesses) /\ Cardinality(ListedSuccesses) \in Nat
<1>1. IsFiniteSet(Names) /\ ListedSuccesses \in SUBSET Names
  BY NamesType, FS_Interval DEF ListedSuccesses
<1> QED
  BY <1>1, FS_Subset, FS_CardinalityType

LEMMA ListedNone ==
    ASSUME backup.recent = <<>>, backup.succ = 0
    PROVE  ListedAreCounted
<1>1. ListedSuccesses = {}
  BY EmptySeq DEF ListedSuccesses
<1> QED
  BY <1>1, FS_EmptySet DEF ListedAreCounted

\* A status update lists the run it writes and counts it.
LEMMA ListedUpdate ==
    ASSUME TypeOK, TypeOK', ListedInv, UpdateStatus
    PROVE  /\ \A i \in DOMAIN backup'.recent :
                  backup'.recent[i].job # 0 /\ Shows(backup'.recent[i], jobs')
           /\ ListedAreCounted'
<1>1. /\ pc = "status" /\ bk = backup /\ backup' = StatusAfter(backup, run)
      /\ jobs' = jobs /\ backup \in Backup /\ run \in Run
      /\ jobs \in Seq(Job) /\ cJobs \in Seq(Job)
      /\ backup.recent \in Seq(Run) /\ backup.succ \in Nat
  BY DEF UpdateStatus, TypeOK, ClusterTypeOK, CacheTypeOK, WorkerTypeOK, Backup
<1>2. /\ run.job # 0 /\ Shows(run, jobs)
      /\ run.phase = "Succeeded" => shouldIncrementCounters(backup.last, run)
  BY <1>1, ShowsOn DEF ListedInv, CopyInv, AlreadyProcessed, shouldIncrementCounters, Terminal
<1>3. backup'.recent = addToRecentRuns(backup.recent, run)
  BY <1>1, StatusAfterKeeps
<1>4. \A k \in DOMAIN backup'.recent :
          \/ backup'.recent[k] = run
          \/ \E i \in DOMAIN backup.recent : backup'.recent[k] = backup.recent[i]
  BY <1>1, <1>3, WindowEntries
<1>5. \A i \in DOMAIN backup'.recent :
          backup'.recent[i].job # 0 /\ Shows(backup'.recent[i], jobs')
  BY <1>1, <1>2, <1>4 DEF ListedInv
<1>6. Cardinality(ListedSuccesses) <= backup.succ
  BY DEF ListedInv, ListedAreCounted
<1>7. IsFiniteSet(ListedSuccesses) /\ Cardinality(ListedSuccesses) \in Nat
  BY ListedFinite
<1>8. Cardinality(ListedSuccesses)' <= backup'.succ
  <2>1. CASE run.phase = "Succeeded"
    <3>1. backup'.succ = backup.succ + 1
      BY <1>1, <1>2, <2>1, StatusCounts
    <3>2. ListedSuccesses' \subseteq ListedSuccesses \cup {run.job}
      BY <1>1, <1>4 DEF ListedSuccesses, Names
    <3>3. /\ IsFiniteSet(ListedSuccesses \cup {run.job})
          /\ Cardinality(ListedSuccesses \cup {run.job}) \in
                 {Cardinality(ListedSuccesses), Cardinality(ListedSuccesses) + 1}
      BY <1>7, FS_AddElement
    <3>4. /\ Cardinality(ListedSuccesses') <= Cardinality(ListedSuccesses \cup {run.job})
          /\ Cardinality(ListedSuccesses') \in Nat
      <4>1. ListedSuccesses' \in SUBSET (ListedSuccesses \cup {run.job})
        BY <3>2
      <4> QED
        BY <3>3, <4>1, FS_Subset, FS_CardinalityType
    <3> QED
      BY <1>1, <1>6, <1>7, <3>1, <3>3, <3>4
  <2>2. CASE run.phase # "Succeeded"
    <3>1. backup'.succ = backup.succ
      BY <1>1, <2>2, StatusCounts
    <3>2. ListedSuccesses' \in SUBSET ListedSuccesses
      BY <1>1, <1>4, <2>2 DEF ListedSuccesses, Names
    <3>3. Cardinality(ListedSuccesses') <= Cardinality(ListedSuccesses)
          /\ Cardinality(ListedSuccesses') \in Nat
      BY <1>7, <3>2, FS_Subset, FS_CardinalityType
    <3> QED
      BY <1>1, <1>6, <1>7, <3>1, <3>3
  <2> QED
    BY <2>1, <2>2
<1> QED
  BY <1>5, <1>8 DEF ListedAreCounted

LEMMA ListedStep ==
    ASSUME TypeOK, TypeOK', ListedInv, [Next]_vars
    PROVE  ListedInv'
<1>1. /\ cJobs \in Seq(Job) /\ jobs \in Seq(Job) /\ cJobs' \in Seq(Job) /\ jobs' \in Seq(Job)
      /\ CopyInv
  BY DEF TypeOK, ClusterTypeOK, CacheTypeOK, ListedInv
<1>2. JobsFollow(cJobs, cJobs') /\ CopyInv' /\ JobsFollow(jobs, jobs')
  BY <1>1, CopyStep, JobsStepFollow
<1>3. ASSUME pc' = "status"
      PROVE  /\ run'.job # 0 /\ Shows(run', cJobs')
             /\ ~AlreadyProcessed(bk'.last, run')
  <2>1. CASE UNCHANGED <<pc, run, bk>>
    BY <1>1, <1>2, <1>3, <2>1, ShowsOn DEF ListedInv
  <2>2. CASE reconcileJobStatus
    <3>1. /\ run' \in Observed /\ cJobs' = cJobs /\ bk' = bk
          /\ ~AlreadyProcessed(bk.last, run')
      BY <2>2 DEF reconcileJobStatus, ListJobs, caches
    <3> QED
      BY <3>1, ObservedShows
  <2> QED
    BY <1>3, <2>1, <2>2, CopySteps
<1>4. /\ \A i \in DOMAIN backup'.recent :
             backup'.recent[i].job # 0 /\ Shows(backup'.recent[i], jobs')
      /\ ListedAreCounted'
  <2>1. CASE UNCHANGED <<backup.last, backup.recent, backup.succ, backup.fail>>
    <3>1. \A i \in DOMAIN backup.recent :
              /\ backup.recent[i].job # 0
              /\ Shows(backup.recent[i], jobs) /\ Shows(backup.recent[i], jobs')
      BY <1>1, <1>2, ShowsOn DEF ListedInv
    <3>2. ListedSuccesses' = ListedSuccesses
      <4>1. \A i \in DOMAIN backup.recent :
                backup.recent[i].job \in Names /\ backup.recent[i].job \in Names'
        BY <3>1 DEF Shows, Names
      <4> QED
        BY <2>1, <4>1 DEF ListedSuccesses
    <3>3. Cardinality(ListedSuccesses') <= backup'.succ
      BY <2>1, <3>2 DEF ListedInv, ListedAreCounted
    <3> QED
      BY <2>1, <3>1, <3>3 DEF ListedAreCounted
  <2>2. CASE backup' = NoBackup
    <3>1. backup'.recent = <<>> /\ backup'.succ = 0
      BY <2>2 DEF NoBackup
    <3>2. ListedSuccesses' = {}
      BY <3>1, EmptySeq DEF ListedSuccesses
    <3> QED
      BY <3>1, <3>2, EmptySeq, FS_EmptySet DEF ListedAreCounted
  <2>3. CASE UpdateStatus
    BY <2>3, ListedUpdate
  <2> QED
    BY <2>1, <2>2, <2>3, RecentSteps
<1> QED
  BY <1>2, <1>3, <1>4 DEF ListedInv, Shows, AlreadyProcessed

LEMMA ListedCorrect == Spec => []ListedInv
<1>1. Init => ListedInv
  BY EmptySeq, ListedNone DEF Init, ClusterInit, NoBackup, ListedInv, CopyInv, JobsFollow
<1>2. TypeOK /\ TypeOK' /\ ListedInv /\ [Next]_vars => ListedInv'
  BY ListedStep
<1> QED
  BY <1>1, <1>2, TypeCorrect, PTL DEF Spec

\* Every success the recent runs list was counted, whatever is dropped or
\* repeated (reconcileJobStatus, shouldIncrementCounters).
THEOREM ListedSuccessesCounted == Spec => []ListedAreCounted
<1>1. ListedInv => ListedAreCounted
  BY DEF ListedInv
<1> QED
  BY <1>1, ListedCorrect, PTL

\* The recent runs list no outcome that did not happen, however far the caches
\* lag and whatever becomes of the Job (getJobPhase).
THEOREM ReportsSound == Spec => []ReportsHappened
<1>1. ListedInv => ReportsHappened
  BY DEF ListedInv, Shows, ReportsHappened, Names
<1> QED
  BY <1>1, ListedCorrect, PTL
=============================================================================
