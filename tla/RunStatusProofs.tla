-------------------------- MODULE RunStatusProofs --------------------------
(***************************************************************************)
(* Facts about the status bookkeeping, for every window size.              *)
(***************************************************************************)
EXTENDS RunStatus, SequenceTheorems, TLAPS

\* Each Job at most once.
NamesDiffer(recentRuns) ==
    \A i, k \in DOMAIN recentRuns : recentRuns[i].job = recentRuns[k].job => i = k

Known(recentRuns, run) == {i \in DOMAIN recentRuns : recentRuns[i].job = run.job}

\* getJobPhase yields one of the four phases.
LEMMA PhaseType == \A job : getJobPhase(job) \in Phases
BY DEF getJobPhase, Phases

\* A run status built from a Job is well formed.
LEMMA BuiltRunType ==
    ASSUME NEW name \in Nat, NEW job, job.finished \in BOOLEAN
    PROVE  buildRunStatus(name, job) \in Run
BY PhaseType DEF buildRunStatus, Run

\* addToRecentRuns replaces the entry of a Job that is listed already.
LEMMA ReplaceKnown ==
    ASSUME NEW rs \in Seq(Run), NEW r \in Run, Known(rs, r) # {}
    PROVE  \E i \in DOMAIN rs : /\ rs[i].job = r.job
                                /\ addToRecentRuns(rs, r) = [rs EXCEPT ![i] = r]
<1> DEFINE i == CHOOSE k \in Known(rs, r) : TRUE
<1>1. i \in Known(rs, r)
  OBVIOUS
<1>2. addToRecentRuns(rs, r) = [rs EXCEPT ![i] = r]
  BY DEF addToRecentRuns, Known
<1> QED
  BY <1>1, <1>2 DEF Known

\* addToRecentRuns puts a new Job in front and cuts the list to the window.
LEMMA PrependNew ==
    ASSUME NEW rs \in Seq(Run), NEW r \in Run, Known(rs, r) = {}
    PROVE  LET new == addToRecentRuns(rs, r)
           IN  /\ new \in Seq(Run)
               /\ Len(new) = Least(Len(rs) + 1, MaxRecentRuns)
               /\ new[1] = r
               /\ \A k \in 2 .. Len(new) : k - 1 \in DOMAIN rs /\ new[k] = rs[k - 1]
<1> DEFINE grown == <<r>> \o rs
           n == Least(Len(grown), MaxRecentRuns)
<1>1. /\ <<r>> \in Seq(Run) /\ Len(<<r>>) = 1 /\ <<r>>[1] = r
  OBVIOUS
<1>2. /\ grown \in Seq(Run) /\ Len(grown) = Len(rs) + 1
      /\ grown[1] = r
      /\ \A k \in 2 .. Len(grown) : grown[k] = rs[k - 1]
  BY <1>1, ConcatProperties
<1>3. n \in 1 .. Len(grown)
  BY <1>2, MaxRecentRunsAssumption, LenProperties DEF Least
<1>4. addToRecentRuns(rs, r) = SubSeq(grown, 1, n)
  BY DEF addToRecentRuns, Known
<1>5. /\ SubSeq(grown, 1, n) \in Seq(Run)
      /\ Len(SubSeq(grown, 1, n)) = n
      /\ \A k \in 1 .. n : SubSeq(grown, 1, n)[k] = grown[k]
  BY <1>2, <1>3, SubSeqProperties, LenProperties
<1> HIDE DEF grown, n
<1>6. n = Least(Len(rs) + 1, MaxRecentRuns)
  BY <1>2 DEF n
<1> QED
  BY <1>2, <1>3, <1>4, <1>5, <1>6, LenProperties

\* The window stays a list of run statuses.
LEMMA RecentRunsType ==
    ASSUME NEW rs \in Seq(Run), NEW r \in Run
    PROVE  addToRecentRuns(rs, r) \in Seq(Run)
<1>1. CASE Known(rs, r) # {}
  BY <1>1, ReplaceKnown, ExceptSeq
<1>2. CASE Known(rs, r) = {}
  BY <1>2, PrependNew
<1> QED
  BY <1>1, <1>2

\* Nothing else gets into the window.
LEMMA WindowEntries ==
    ASSUME NEW rs \in Seq(Run), NEW r \in Run,
           NEW k \in DOMAIN addToRecentRuns(rs, r)
    PROVE  \/ addToRecentRuns(rs, r)[k] = r
           \/ \E i \in DOMAIN rs : addToRecentRuns(rs, r)[k] = rs[i]
<1>1. CASE Known(rs, r) # {}
  BY <1>1, ReplaceKnown
<1>2. CASE Known(rs, r) = {}
  <2>1. k \in 1 .. Len(addToRecentRuns(rs, r)) /\ Len(addToRecentRuns(rs, r)) \in Nat
    BY <1>2, PrependNew, LenProperties
  <2>2. k = 1 \/ k \in 2 .. Len(addToRecentRuns(rs, r))
    BY <2>1
  <2> QED
    BY <1>2, <2>2, PrependNew
<1> QED
  BY <1>1, <1>2

\* The window holds the run just added, stays within its size, and lists each
\* Job once: what reconcileJobStatus relies on addToRecentRuns for.
THEOREM WindowKept ==
    ASSUME NEW rs \in Seq(Run), NEW r \in Run,
           NamesDiffer(rs), Len(rs) <= MaxRecentRuns
    PROVE  LET new == addToRecentRuns(rs, r)
           IN  /\ \E k \in DOMAIN new : new[k] = r
               /\ NamesDiffer(new)
               /\ Len(new) <= MaxRecentRuns
<1> DEFINE new == addToRecentRuns(rs, r)
<1>1. CASE Known(rs, r) # {}
  <2>1. PICK i \in DOMAIN rs : rs[i].job = r.job /\ new = [rs EXCEPT ![i] = r]
    BY <1>1, ReplaceKnown
  <2>2. /\ new \in Seq(Run) /\ Len(new) = Len(rs) /\ DOMAIN new = DOMAIN rs
        /\ \A k \in DOMAIN new : new[k].job = rs[k].job
        /\ new[i] = r
    BY <2>1, ExceptSeq
  <2> QED
    BY <2>2 DEF NamesDiffer
<1>2. CASE Known(rs, r) = {}
  <2>1. /\ new \in Seq(Run) /\ Len(new) = Least(Len(rs) + 1, MaxRecentRuns)
        /\ new[1] = r
        /\ \A k \in 2 .. Len(new) : k - 1 \in DOMAIN rs /\ new[k] = rs[k - 1]
    BY <1>2, PrependNew
  <2>2. Len(new) \in 1 .. MaxRecentRuns /\ DOMAIN new = 1 .. Len(new)
    BY <2>1, MaxRecentRunsAssumption, LenProperties DEF Least
  <2>3. \A k \in 2 .. Len(new) : new[k].job # r.job
    BY <1>2, <2>1 DEF Known
  <2>4. NamesDiffer(new)
    <3> SUFFICES ASSUME NEW i \in 1 .. Len(new), NEW k \in 1 .. Len(new),
                        new[i].job = new[k].job
                 PROVE  i = k
      BY <2>2 DEF NamesDiffer
    <3>1. CASE i = 1 \/ k = 1
      BY <3>1, <2>1, <2>2, <2>3
    <3>2. CASE i # 1 /\ k # 1
      BY <3>2, <2>1, <2>2 DEF NamesDiffer
    <3> QED
      BY <3>1, <3>2
  <2> QED
    BY <2>1, <2>2, <2>4
<1> QED
  BY <1>1, <1>2
=============================================================================
