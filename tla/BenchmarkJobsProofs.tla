------------------------- MODULE BenchmarkJobsProofs --------------------------
(***************************************************************************)
(* Theorems about BenchmarkJobs, for any number of jobs, of handlers that  *)
(* work on copies others have overtaken, and of faults.  First: a property *)
(* of one list that every list operation preserves holds of every list     *)
(* there is, in memory, in the state file, or in the hands of a handler.   *)
(* Second: the lists of handlers that are not overtaken may replace the    *)
(* state file without taking anything back, and a job the runner holds is  *)
(* its own in all of them, as long as nothing astray reached it.           *)
(***************************************************************************)
EXTENDS BenchmarkJobs, SequenceTheorems, TLAPS

\* Removing position i of a sequence moves the later elements down by one.
LEMMA RemoveAtFacts ==
    ASSUME NEW S, NEW s \in Seq(S), NEW i \in 1..Len(s)
    PROVE  /\ RemoveAt(s, i) \in Seq(S)
           /\ Len(RemoveAt(s, i)) = Len(s) - 1
           /\ \A j \in 1..(Len(s) - 1) :
                 RemoveAt(s, i)[j] = IF j < i THEN s[j] ELSE s[j + 1]
<1> DEFINE front == SubSeq(s, 1, i - 1)
           back  == SubSeq(s, i + 1, Len(s))
<1>1. front \in Seq(S) /\ Len(front) = i - 1 /\ \A j \in 1..(i - 1) : front[j] = s[j]
  OBVIOUS
<1>2. /\ back \in Seq(S)
      /\ Len(back) = Len(s) - i
      /\ \A j \in 1..(Len(s) - i) : back[j] = s[i + j]
  OBVIOUS
<1> HIDE DEF front, back
<1>3. /\ front \o back \in Seq(S)
      /\ Len(front \o back) = Len(s) - 1
      /\ \A j \in 1..(Len(s) - 1) :
            (front \o back)[j] = IF j < i THEN s[j] ELSE s[j + 1]
  <2>1. front \o back \in Seq(S) /\ Len(front \o back) = Len(s) - 1
    BY <1>1, <1>2
  <2>2. ASSUME NEW j \in 1..(Len(s) - 1), j < i
        PROVE  (front \o back)[j] = s[j]
    BY <1>1, <1>2, <2>2
  <2>3. ASSUME NEW j \in 1..(Len(s) - 1), ~(j < i)
        PROVE  (front \o back)[j] = s[j + 1]
    <3>1. (front \o back)[j] = back[j - (i - 1)]
      BY <1>1, <1>2, <2>3
    <3>2. j - (i - 1) \in 1..(Len(s) - i) /\ i + (j - (i - 1)) = j + 1
      BY <1>1, <2>3
    <3> QED
      BY <1>2, <3>1, <3>2
  <2> QED
    BY <2>1, <2>2, <2>3
<1> QED
  BY <1>3 DEF RemoveAt, front, back

\* What the cut list holds is the new element or was there before.
LEMMA PrependElements ==
    ASSUME NEW S, NEW e \in S, NEW s \in Seq(S), NEW n \in Nat,
           NEW t, t = SubSeq(<<e>> \o s, 1, IF Len(s) < n THEN Len(s) + 1 ELSE n)
    PROVE  /\ t \in Seq(S)
           /\ Len(t) = IF Len(s) < n THEN Len(s) + 1 ELSE n
           /\ Len(t) > 0 => t[1] = e
           /\ \A i \in 2..Len(t) : i - 1 \in 1..Len(s) /\ t[i] = s[i - 1]
<1> DEFINE u == <<e>> \o s
           m == IF Len(s) < n THEN Len(s) + 1 ELSE n
<1>1. u \in Seq(S) /\ Len(u) = Len(s) + 1
  OBVIOUS
<1>2. m \in 0..Len(u)
  BY <1>1
<1>3. u[1] = e /\ \A i \in 2..Len(u) : i - 1 \in 1..Len(s) /\ u[i] = s[i - 1]
  BY <1>1
<1> HIDE DEF u, m
<1>4. SubSeq(u, 1, m) \in Seq(S) /\ Len(SubSeq(u, 1, m)) = m /\ \A i \in 1..m : SubSeq(u, 1, m)[i] = u[i]
  BY <1>1, <1>2
<1>5. t = SubSeq(u, 1, m)
  BY DEF u, m
<1> QED
  BY <1>1, <1>2, <1>3, <1>4, <1>5 DEF m

\* A list in order, whose jobs are in the set c; those in r may be out of order.
Good(list, c, r) ==
    /\ list \in Seq(Job)
    /\ Len(list) <= MaxJobs
    /\ \A i, k \in 1..Len(list) : list[i].id = list[k].id => i = k
    /\ \A i \in 1..Len(list) : list[i].id \in c /\ (list[i].id \notin r => JobOK(list[i]))

\* A job that may replace j in a list.
Follows(n, j) == n \in Job /\ n.id = j.id /\ (JobOK(j) => JobOK(n))

\* What scheduleBenchmarkJobRetry makes of a job is in order.
LEMMA RetryFollows ==
    ASSUME NEW j \in Job
    PROVE  /\ Follows(scheduleBenchmarkJobRetry(j), j)
           /\ scheduleBenchmarkJobRetry(j).status = "failed"
  BY ConstantsAssumption
  DEF Follows, scheduleBenchmarkJobRetry, Job, JobOK, Statuses, StatusReports, SchedulerStates, Absent

\* What a claim makes of a queued job is in order: it has an attempt left.
LEMMA ClaimFollows ==
    ASSUME NEW j \in Job, j.status = "queued"
    PROVE  Follows(ClaimedJob(j), j)
<1> DEFINE n == ClaimedJob(j)
<1>1. /\ j.attempt \in Nat /\ (JobOK(j) => j.attempt < MaxAttempts)
      /\ MaxAttempts \in Nat /\ Lease \in Nat /\ j.id \in JobIds
  BY ConstantsAssumption DEF Job, JobOK
<1>2. n = [id |-> j.id, status |-> "running", state |-> "running",
           attempt |-> j.attempt + 1, timeout |-> Lease, next |-> Absent]
  <2> DEFINE a == j.attempt + 1
             absent == Absent
  <2>1. n = [j EXCEPT !.status = "running", !.state = "running", !.attempt = a,
                      !.timeout = Lease, !.next = absent]
    BY DEF ClaimedJob
  <2> HIDE DEF a, n, absent
  <2>2. n = [id |-> j.id, status |-> "running", state |-> "running",
             attempt |-> a, timeout |-> Lease, next |-> absent]
    BY <2>1 DEF Job
  <2> QED
    BY <2>2 DEF a, absent
<1> HIDE DEF n
<1>3. n \in Job
  BY <1>1, <1>2 DEF Job, Statuses, StatusReports, SchedulerStates
<1>4. JobOK(j) => JobOK(n)
  <2>1. ASSUME JobOK(j) PROVE j.attempt + 1 <= MaxAttempts
    BY <1>1, <2>1
  <2>2. n.attempt = j.attempt + 1 /\ n.status = "running" /\ n.state = "running" /\ n.timeout = Lease
    BY <1>2
  <2> QED
    BY <1>1, <2>1, <2>2 DEF JobOK, Absent
<1> QED
  BY <1>2, <1>3, <1>4 DEF Follows, n

\* What the scheduler makes of a job is in order.
LEMMA ReconcileFollows ==
    ASSUME NEW j \in Job
    PROVE  Follows(ReconciledJob(j), j)
<1>1. CASE TimedOut(j)
  BY <1>1, RetryFollows
  DEF ReconciledJob, TimedOut, Follows, Job, JobOK, Statuses, StatusReports, SchedulerStates, Absent
<1>2. CASE ~ TimedOut(j)
  BY <1>2, ConstantsAssumption
  DEF ReconciledJob, RetryReady, Due, Follows, Job, JobOK, Statuses, StatusReports, SchedulerStates, Absent
<1> QED
  BY <1>1, <1>2

\* What a status report makes of a job is in order, unless it queues it again.
LEMMA StatusFollows ==
    ASSUME NEW j \in Job, NEW s \in StatusReports
    PROVE  /\ StatusJob(j, s) \in Job /\ StatusJob(j, s).id = j.id
           /\ s # "queued" => Follows(StatusJob(j, s), j)
<1>1. CASE s = "running"
  <2> DEFINE t == IF j.timeout = Absent THEN Lease ELSE j.timeout
             n == StatusJob(j, s)
  <2>1. t \in Nat /\ t # Absent
    BY ConstantsAssumption DEF Job, Absent
  <2>2. n = [j EXCEPT !.status = s, !.state = "running", !.timeout = t]
    BY <1>1 DEF StatusJob
  <2> HIDE DEF t, n
  <2>3. n = [id |-> j.id, status |-> "running", state |-> "running",
             attempt |-> j.attempt, timeout |-> t, next |-> j.next]
    BY <1>1, <2>2 DEF Job
  <2>4. n \in Job
    BY <2>1, <2>3 DEF Job, Statuses, StatusReports, SchedulerStates
  <2>5. JobOK(j) => JobOK(n)
    BY <2>1, <2>3 DEF JobOK
  <2> QED
    BY <2>3, <2>4, <2>5 DEF Follows, n
<1>2. CASE s = "failed"
  BY <1>2, RetryFollows DEF StatusJob, Follows
<1>3. CASE s \in {"completed", "cancelled"}
  <2>1. StatusJob(j, s) = [j EXCEPT !.status = s, !.state = "terminal"]
    BY <1>3 DEF StatusJob
  <2> QED
    BY <1>3, <2>1 DEF Follows, Job, JobOK, Statuses, StatusReports, SchedulerStates, Absent
<1>4. CASE s = "queued"
  <2>1. StatusJob(j, s) = [j EXCEPT !.status = s]
    BY <1>4 DEF StatusJob
  <2> QED
    BY <1>4, <2>1 DEF Job, Statuses, StatusReports
<1> QED
  BY <1>1, <1>2, <1>3, <1>4 DEF StatusReports

\* What a result makes of a job is in order, unless it puts it back.
LEMMA ResultFollows ==
    ASSUME NEW j \in Job, NEW s \in Statuses
    PROVE  /\ ResultJob(j, s) \in Job /\ ResultJob(j, s).id = j.id
           /\ s \notin {"queued", "running"} => Follows(ResultJob(j, s), j)
<1>1. PICK n : n = [j EXCEPT !.status = s, !.state = "terminal"]
  OBVIOUS
<1>2. /\ n.id = j.id /\ n.status = s /\ n.state = "terminal" /\ n.attempt = j.attempt
      /\ n.timeout = j.timeout /\ n \in Job
  BY <1>1 DEF Job, SchedulerStates
<1>3. s \notin {"queued", "running"} => (JobOK(j) => JobOK(n))
  BY <1>2 DEF JobOK
<1> QED
  BY <1>1, <1>2, <1>3 DEF ResultJob, Follows

\* Time does not put a job out of order.
LEMMA OlderFollows ==
    ASSUME NEW j \in Job
    PROVE  Follows(OlderJob(j), j)
<1> DEFINE n == OlderJob(j)
<1>1. \A t \in Nat \union {Absent} :
         Earlier(t) \in Nat \union {Absent} /\ (t # Absent => Earlier(t) # Absent)
  BY DEF Earlier, Absent
<1>2. n = [id |-> j.id, status |-> j.status, state |-> j.state, attempt |-> j.attempt,
           timeout |-> Earlier(j.timeout), next |-> Earlier(j.next)]
  <2>1. PICK t, x : t = Earlier(j.timeout) /\ x = Earlier(j.next)
    OBVIOUS
  <2>2. n = [j EXCEPT !.timeout = t, !.next = x]
    BY <2>1 DEF OlderJob
  <2> HIDE DEF n
  <2>3. n = [id |-> j.id, status |-> j.status, state |-> j.state, attempt |-> j.attempt,
             timeout |-> t, next |-> x]
    BY <2>2 DEF Job
  <2> QED
    BY <2>1, <2>3
<1> HIDE DEF n
<1>3. n \in Job
  BY <1>1, <1>2 DEF Job
<1>4. JobOK(j) => JobOK(n)
  BY <1>1, <1>2 DEF JobOK, Job
<1> QED
  BY <1>2, <1>3, <1>4 DEF Follows, n

\* Replacing every job by one that may follow it keeps a list in order.
LEMMA MapGood ==
    ASSUME NEW c, NEW r, NEW list, Good(list, c, r), NEW t,
           t \in Seq(Job), Len(t) = Len(list),
           \A i \in 1..Len(list) : Follows(t[i], list[i])
    PROVE  Good(t, c, r)
  BY DEF Good, Follows

\* The reconciled list is in order.
LEMMA ReconciledGood ==
    ASSUME NEW c, NEW r, NEW list, Good(list, c, r)
    PROVE  Good(Reconciled(list), c, r)
<1> DEFINE t == [i \in 1..Len(list) |-> ReconciledJob(list[i])]
<1>1. list \in Seq(Job) /\ \A i \in 1..Len(list) : list[i] \in Job
  BY DEF Good
<1>2. \A i \in 1..Len(list) : Follows(ReconciledJob(list[i]), list[i])
  BY <1>1, ReconcileFollows
<1>3. \A i \in 1..Len(list) : ReconciledJob(list[i]) \in Job
  BY <1>2 DEF Follows
<1>4. t \in Seq(Job) /\ Len(t) = Len(list)
  BY <1>1, <1>3
<1>5. \A i \in 1..Len(list) : Follows(t[i], list[i])
  BY <1>2
<1> HIDE DEF t
<1>6. Good(t, c, r)
  BY <1>4, <1>5, MapGood
<1> QED
  BY <1>6 DEF Reconciled, t

\* The list is in order a unit of time later.
LEMMA OlderGood ==
    ASSUME NEW c, NEW r, NEW list, Good(list, c, r)
    PROVE  Good(Older(list), c, r)
<1> DEFINE t == [i \in 1..Len(list) |-> OlderJob(list[i])]
<1>1. list \in Seq(Job) /\ \A i \in 1..Len(list) : list[i] \in Job
  BY DEF Good
<1>2. \A i \in 1..Len(list) : Follows(OlderJob(list[i]), list[i])
  BY <1>1, OlderFollows
<1>3. \A i \in 1..Len(list) : OlderJob(list[i]) \in Job
  BY <1>2 DEF Follows
<1>4. t \in Seq(Job) /\ Len(t) = Len(list)
  BY <1>1, <1>3
<1>5. \A i \in 1..Len(list) : Follows(t[i], list[i])
  BY <1>2
<1> HIDE DEF t
<1>6. Good(t, c, r)
  BY <1>4, <1>5, MapGood
<1> QED
  BY <1>6 DEF Older, t

\* Dropping one job keeps a list in order and the dropped job is gone.
LEMMA RemoveGood ==
    ASSUME NEW c, NEW r, NEW list, Good(list, c, r), NEW p \in 1..Len(list)
    PROVE  /\ Good(RemoveAt(list, p), c, r)
           /\ ~ Has(RemoveAt(list, p), list[p].id)
<1> DEFINE t == RemoveAt(list, p)
<1>1. list \in Seq(Job)
  BY DEF Good
<1>2. /\ t \in Seq(Job)
      /\ Len(t) = Len(list) - 1
      /\ \A j \in 1..(Len(list) - 1) : t[j] = IF j < p THEN list[j] ELSE list[j + 1]
  BY <1>1, RemoveAtFacts
<1> HIDE DEF t
<1>3. Len(list) \in Nat /\ Len(t) \in Nat /\ Len(t) <= MaxJobs
  BY <1>1, <1>2, ConstantsAssumption DEF Good
<1>4. \A i \in 1..Len(t) : \E k \in 1..Len(list) :
         t[i] = list[k] /\ k # p /\ (i < p => k = i) /\ (i >= p => k = i + 1)
  BY <1>2, <1>3
<1>5. \A i, k \in 1..Len(t) : t[i].id = t[k].id => i = k
  <2>1. \A i, k \in 1..Len(list) : list[i].id = list[k].id => i = k
    BY DEF Good
  <2> QED
    BY <1>3, <1>4, <2>1
<1>6. \A i \in 1..Len(t) :
         t[i].id \in c /\ (t[i].id \notin r => JobOK(t[i])) /\ t[i].id # list[p].id
  BY <1>4 DEF Good
<1> QED
  BY <1>2, <1>3, <1>5, <1>6 DEF Good, Has, t

\* A new first job and a cut keep a list in order.
LEMMA PrependGood ==
    ASSUME NEW c, NEW r, NEW rest, Good(rest, c, r), NEW j \in Job, j.id \notin r => JobOK(j), j.id \in c,
           ~ Has(rest, j.id)
    PROVE  Good(SubSeq(<<j>> \o rest, 1,
                       IF Len(rest) < MaxJobs THEN Len(rest) + 1 ELSE MaxJobs), c, r)
<1> DEFINE t == <<j>> \o rest
           m == IF Len(rest) < MaxJobs THEN Len(rest) + 1 ELSE MaxJobs
           u == SubSeq(t, 1, m)
<1>1. rest \in Seq(Job) /\ Len(rest) \in Nat /\ MaxJobs \in Nat \ {0}
  BY ConstantsAssumption DEF Good
<1>2. /\ t \in Seq(Job)
      /\ Len(t) = Len(rest) + 1
      /\ \A i \in 1..Len(t) : t[i] = IF i = 1 THEN j ELSE rest[i - 1]
  BY <1>1
<1>3. m \in 0..Len(t) /\ m <= MaxJobs
  BY <1>1, <1>2
<1> HIDE DEF t, m
<1>4. u \in Seq(Job) /\ Len(u) = m /\ \A i \in 1..m : u[i] = t[i]
  BY <1>2, <1>3
<1> HIDE DEF u
<1>5. \A i \in 1..m : i \in 1..Len(t) /\ (i = 1 \/ i - 1 \in 1..Len(rest))
  BY <1>1, <1>2, <1>3
<1>6. \A i \in 1..m : u[i] = IF i = 1 THEN j ELSE rest[i - 1]
  BY <1>2, <1>4, <1>5
<1>7. \A i, k \in 1..m : u[i].id = u[k].id => i = k
  <2> SUFFICES ASSUME NEW i \in 1..m, NEW k \in 1..m, u[i].id = u[k].id
               PROVE  i = k
    OBVIOUS
  <2>1. i # 1 => u[i] = rest[i - 1] /\ i - 1 \in 1..Len(rest)
    BY <1>5, <1>6
  <2>2. k # 1 => u[k] = rest[k - 1] /\ k - 1 \in 1..Len(rest)
    BY <1>5, <1>6
  <2>3. (i = 1 => u[i] = j) /\ (k = 1 => u[k] = j)
    BY <1>6
  <2>4. i \in Nat /\ k \in Nat
    BY <1>3
  <2>5. CASE i # 1 /\ k # 1
    <3>1. i - 1 = k - 1
      BY <2>1, <2>2, <2>5 DEF Good
    <3> QED
      BY <2>4, <3>1
  <2> QED
    BY <2>1, <2>2, <2>3, <2>5 DEF Has
<1>8. \A i \in 1..m : u[i].id \in c /\ (u[i].id \notin r => JobOK(u[i]))
  BY <1>5, <1>6 DEF Good
<1>9. Good(u, c, r)
  BY <1>3, <1>4, <1>7, <1>8 DEF Good
<1> QED
  BY <1>9 DEF u, t, m

\* upsertBenchmarkJob keeps a list in order.
LEMMA UpsertGood ==
    ASSUME NEW c, NEW r, NEW list, Good(list, c, r), NEW j \in Job, j.id \notin r => JobOK(j), j.id \in c
    PROVE  Good(upsertBenchmarkJob(list, j), c, r)
<1>1. CASE Has(list, j.id)
  <2>1. PICK p : p = Position(list, j.id)
    OBVIOUS
  <2>2. p \in 1..Len(list) /\ list[p].id = j.id
    BY <1>1, <2>1 DEF Has, Position
  <2>3. Good(RemoveAt(list, p), c, r) /\ ~ Has(RemoveAt(list, p), j.id)
    BY <2>2, RemoveGood
  <2> QED
    BY <1>1, <2>1, <2>3, PrependGood DEF upsertBenchmarkJob
<1>2. CASE ~ Has(list, j.id)
  BY <1>2, PrependGood DEF upsertBenchmarkJob
<1> QED
  BY <1>1, <1>2
-------------------------------------------------------------------------------
\* A list in order stays so when more jobs are drawn or put back.
LEMMA GoodMore ==
    ASSUME NEW c, NEW r, NEW d, NEW e, NEW list, Good(list, c, r), c \subseteq d, r \subseteq e
    PROVE  Good(list, d, e)
  BY DEF Good

\* A call in flight carries a status its endpoint accepts, and is about a job.
CallsOK ==
    /\ \A h \in Handlers :
          /\ call[h].kind = "status" => call[h].status \in StatusReports
          /\ call[h].kind = "result" => call[h].status \in Statuses
          /\ call[h].kind \in {"status", "result"} => call[h].id \in JobIds
    /\ rpc \in {"claimed", "starting", "executing"} => rjob \in JobIds

\* The inductive invariant.
JobsInv == TypeOK /\ JobsInOrder /\ CallsOK

\* The lists of an invariant state are in order.
LEMMA GoodLists ==
    ASSUME TypeOK, JobsInOrder
    PROVE  /\ Good(jobs, created, requeued)
           /\ Good(disk, created, requeued)
           /\ \A h \in Handlers : \A k \in 1..Len(writes[h]) : Good(writes[h][k], created, requeued)
<1>1. Good(jobs, created, requeued) /\ Good(disk, created, requeued)
  BY DEF TypeOK, JobsInOrder, ListOK, Good
<1>2. \A h \in Handlers : \A k \in 1..Len(writes[h]) : writes[h][k] \in Seq(Job)
  BY DEF TypeOK
<1> QED
  BY <1>1, <1>2 DEF JobsInOrder, ListOK, Good

\* A handler that sets out to write lists in order keeps the invariant.
LEMMA WorkKeeps ==
    ASSUME JobsInv, NEW h \in Handlers, NEW ws \in Seq(Seq(Job)),
           NEW ans \in JobIds \union {NoJob, Failed},
           created \subseteq created', created' \subseteq JobIds, call' = call,
           requeued \subseteq requeued', requeued' \subseteq JobIds, astray' \subseteq JobIds,
           \A k \in 1..Len(ws) : Good(ws[k], created', requeued'),
           Work(h, ws, ans)
    PROVE  JobsInv'
<1>1. TypeOK'
  <2>1. stale' \in [Handlers -> BOOLEAN]
    BY DEF JobsInv, TypeOK, Work
  <2> QED
    BY <2>1 DEF JobsInv, TypeOK, Work, runnerVars
<1>2. jobs' = jobs /\ disk' = disk
  BY DEF Work
<1>3. ListOK(jobs)' /\ ListOK(disk)'
  BY <1>2 DEF JobsInv, JobsInOrder, ListOK
<1>4. ASSUME NEW g \in Handlers, NEW k \in 1..Len(writes'[g])
      PROVE  ListOK(writes[g][k])'
  <2>1. CASE g = h
    <3>1. writes'[g] = ws
      BY <2>1 DEF Work, JobsInv, TypeOK
    <3> QED
      BY <1>4, <3>1 DEF Good, ListOK
  <2>2. CASE g # h
    <3>1. writes'[g] = writes[g]
      BY <2>2 DEF Work, JobsInv, TypeOK
    <3> QED
      BY <1>4, <3>1 DEF JobsInv, JobsInOrder, ListOK
  <2> QED
    BY <2>1, <2>2
<1>5. JobsInOrder'
  BY <1>3, <1>4 DEF JobsInOrder
<1>6. CallsOK'
  BY DEF CallsOK, JobsInv, Work, runnerVars
<1> QED
  BY <1>1, <1>5, <1>6 DEF JobsInv

\* Steps that touch no list keep the lists in order.
LEMMA ListsKept ==
    ASSUME JobsInOrder, UNCHANGED <<jobs, disk, created, writes, requeued>>
    PROVE  JobsInOrder'
  BY DEF JobsInOrder, ListOK

\* A call of the runner carries a status its endpoint accepts.
LEMMA SendKeeps ==
    ASSUME JobsInv, NEW h \in Handlers, NEW c \in Calls,
           NEW l \in {"claiming", "starting", "reporting"}, Send(h, c, l),
           c.kind = "status" => c.status \in StatusReports,
           c.kind = "result" => c.status \in Statuses,
           c.kind \in {"status", "result"} => c.id \in JobIds, l = "starting" => rjob \in JobIds,
           faults' \in 0..MaxFaults, stale' \in [Handlers -> BOOLEAN]
    PROVE  JobsInv'
<1>1. TypeOK'
  BY DEF JobsInv, TypeOK, Send
<1>2. JobsInOrder'
  BY ListsKept DEF JobsInv, Send
<1>3. CallsOK'
  BY DEF JobsInv, TypeOK, CallsOK, Send
<1> QED
  BY <1>1, <1>2, <1>3 DEF JobsInv

\* The initial state satisfies the invariant.
LEMMA JobsInvInit == Init => JobsInv
<1> SUFFICES ASSUME Init PROVE JobsInv
  OBVIOUS
<1>1. TypeOK
  BY ConstantsAssumption DEF Init, TypeOK, Calls, NoCall, Job
<1>2. JobsInOrder
  BY ConstantsAssumption DEF Init, JobsInOrder, ListOK
<1>3. CallsOK
  BY DEF Init, CallsOK, NoCall
<1> QED
  BY <1>1, <1>2, <1>3 DEF JobsInv

\* Every step keeps the invariant.
LEMMA JobsInvStep ==
    ASSUME JobsInv, [Next]_vars
    PROVE  JobsInv'
<1> USE DEF JobsInv
<1>0. /\ Good(jobs, created, requeued)
      /\ Good(disk, created, requeued)
      /\ \A h \in Handlers : \A k \in 1..Len(writes[h]) : Good(writes[h][k], created, requeued)
  BY GoodLists
<1>a. jobs \in Seq(Job) /\ created \subseteq JobIds /\ astray \subseteq JobIds /\ requeued \subseteq JobIds
  BY DEF TypeOK
<1>1. ASSUME NEW h \in Handlers, CreateJob(h)
      PROVE  JobsInv'
  <2>1. PICK b \in JobIds \ created :
           /\ created' = created \union {b}
           /\ Work(h, <<upsertBenchmarkJob(jobs, NewJob(b))>>, b)
    BY <1>1 DEF CreateJob
  <2>2. NewJob(b) \in Job /\ JobOK(NewJob(b)) /\ NewJob(b).id = b
    BY ConstantsAssumption DEF NewJob, Job, JobOK, Statuses, StatusReports, SchedulerStates, Absent
  <2>0. astray' = astray /\ requeued' = requeued
    BY <1>1 DEF CreateJob
  <2>3. Good(jobs, created', requeued')
    BY <1>0, <2>0, <2>1 DEF Good
  <2>4. PICK u : u = upsertBenchmarkJob(jobs, NewJob(b))
    OBVIOUS
  <2>5. Good(u, created', requeued')
    BY <2>1, <2>2, <2>3, <2>4, UpsertGood
  <2>6. <<u>> \in Seq(Seq(Job)) /\ \A k \in 1..Len(<<u>>) : Good(<<u>>[k], created', requeued')
    BY <2>5 DEF Good
  <2>7. call' = call
    BY <1>1 DEF CreateJob
  <2> QED
    BY <1>a, <2>0, <2>1, <2>4, <2>6, <2>7, WorkKeeps
<1>2. ASSUME NEW h \in Handlers, ReconcileJobs(h)
      PROVE  JobsInv'
  <2>1. PICK u : u = Reconciled(jobs)
    OBVIOUS
  <2>2. Good(u, created, requeued)
    BY <1>0, <2>1, ReconciledGood
  <2>3. Work(h, <<u>>, NoJob) /\ call' = call /\ created' = created /\ astray' = astray /\ requeued' = requeued
    BY <1>2, <2>1 DEF ReconcileJobs
  <2>4. <<u>> \in Seq(Seq(Job)) /\ \A k \in 1..Len(<<u>>) : Good(<<u>>[k], created', requeued')
    BY <2>2, <2>3 DEF Good
  <2> QED
    BY <1>a, <2>3, <2>4, WorkKeeps
<1>3. ASSUME NEW h \in Handlers, UpdateNode(h)
      PROVE  JobsInv'
  <2>1. PICK u : u = jobs
    OBVIOUS
  <2>2. Work(h, <<u>>, NoJob) /\ call' = call /\ created' = created /\ astray' = astray /\ requeued' = requeued
    BY <1>3, <2>1 DEF UpdateNode
  <2>3. <<u>> \in Seq(Seq(Job)) /\ \A k \in 1..Len(<<u>>) : Good(<<u>>[k], created', requeued')
    BY <1>0, <2>1, <2>2 DEF Good
  <2> QED
    BY <1>a, <2>2, <2>3, WorkKeeps
<1>4. ASSUME NEW h \in Handlers, ClaimJob(h)
      PROVE  JobsInv'
  <2>1. PICK list, first : /\ list = Reconciled(jobs)
                           /\ first = IF ReconcileChanges(jobs) THEN <<list>> ELSE <<>>
    OBVIOUS
  <2>0. Good(list, created, requeued)
    BY <1>0, <2>1, ReconciledGood
  <2>2. Good(list, created, requeued) /\ list \in Seq(Job)
    BY <2>0 DEF Good
  <2>3. first \in Seq(Seq(Job)) /\ \A k \in 1..Len(first) : Good(first[k], created, requeued)
    BY <2>1, <2>2
  <2>4. call' = call /\ created' = created /\ astray' = astray /\ requeued' = requeued
    BY <1>4 DEF ClaimJob
  <2>5. CASE \E i \in 1..Len(list) :
                /\ NextQueued(list, i)
                /\ Work(h, Append(first, upsertBenchmarkJob(list, ClaimedJob(list[i]))),
                        list[i].id)
    <3>1. PICK i \in 1..Len(list) :
             /\ NextQueued(list, i)
             /\ Work(h, Append(first, upsertBenchmarkJob(list, ClaimedJob(list[i]))),
                     list[i].id)
      BY <2>5
    <3>2. PICK j, u, b : /\ j = ClaimedJob(list[i])
                         /\ u = upsertBenchmarkJob(list, j)
                         /\ b = list[i].id
      OBVIOUS
    <3>3. /\ list[i] \in Job /\ (b \notin requeued => JobOK(list[i]))
          /\ list[i].status = "queued" /\ b \in created
      BY <2>2, <3>1, <3>2 DEF Good, NextQueued, Claimable
    <3>4. j \in Job /\ (b \notin requeued => JobOK(j)) /\ j.id = b
      BY <3>2, <3>3, ClaimFollows DEF Follows
    <3>5. Good(u, created, requeued)
      BY <2>2, <3>2, <3>3, <3>4, UpsertGood
    <3>6. PICK ws : ws = Append(first, u)
      OBVIOUS
    <3>7. ws \in Seq(Seq(Job)) /\ \A k \in 1..Len(ws) : Good(ws[k], created', requeued')
      <4>1. u \in Seq(Job)
        BY <3>5 DEF Good
      <4>2. ws \in Seq(Seq(Job)) /\ Len(ws) = Len(first) + 1
        BY <2>3, <3>6, <4>1
      <4>3. \A k \in 1..Len(ws) : ws[k] = u \/ (k \in 1..Len(first) /\ ws[k] = first[k])
        BY <2>3, <3>6, <4>1
      <4> QED
        BY <2>3, <2>4, <3>5, <4>2, <4>3
    <3>8. Work(h, ws, b)
      BY <3>1, <3>2, <3>6
    <3>9. b \in JobIds
      BY <1>a, <3>3
    <3> QED
      BY <1>a, <2>4, <3>7, <3>8, <3>9, WorkKeeps
  <2>6. CASE Work(h, first, NoJob)
    BY <1>a, <2>3, <2>4, <2>6, WorkKeeps
  <2> QED
    BY <1>4, <2>1, <2>5, <2>6 DEF ClaimJob
<1>5. ASSUME NEW h \in Handlers, JobStatus(h)
      PROVE  JobsInv'
  <2>1. PICK b, s : b = call[h].id /\ s = call[h].status
    OBVIOUS
  <2>2. /\ call' = call /\ created' = created /\ s \in StatusReports /\ b \in JobIds
        /\ requeued \subseteq requeued' /\ (astray' = astray \union {b} \/ astray' = astray)
        /\ requeued' = IF Requeues("status", s) THEN requeued \union {b} ELSE requeued
    BY <1>5, <2>1 DEF JobStatus, CallsOK, Reports, TypeOK, Calls
  <2>3. CASE /\ Has(jobs, b)
             /\ Work(h, <<upsertBenchmarkJob(jobs,
                             StatusJob(findBenchmarkJob(jobs, b), s))>>, b)
    <3>1. PICK o, j, u : /\ o = findBenchmarkJob(jobs, b)
                         /\ j = StatusJob(o, s)
                         /\ u = upsertBenchmarkJob(jobs, j)
      OBVIOUS
    <3>2. o \in Job /\ (b \notin requeued => JobOK(o)) /\ o.id = b /\ b \in created
      BY <1>0, <2>3, <3>1 DEF findBenchmarkJob, Has, Position, Good
    <3>3. j \in Job /\ j.id = b /\ (b \notin requeued' => JobOK(j))
      BY <2>2, <3>1, <3>2, StatusFollows DEF Follows, Requeues
    <3>a. Good(jobs, created, requeued')
      BY <1>0, <2>2, GoodMore
    <3>4. Good(u, created, requeued')
      BY <3>a, <3>1, <3>2, <3>3, UpsertGood
    <3>b. astray' \subseteq JobIds /\ requeued' \subseteq JobIds
      BY <1>a, <2>2, <3>2
    <3>5. <<u>> \in Seq(Seq(Job)) /\ \A k \in 1..Len(<<u>>) : Good(<<u>>[k], created', requeued')
      BY <2>2, <3>4 DEF Good
    <3>6. Work(h, <<u>>, b) /\ b \in JobIds
      BY <1>a, <2>3, <3>1, <3>2
    <3> QED
      BY <1>a, <2>2, <3>b, <3>5, <3>6, WorkKeeps
  <2>4. CASE Work(h, <<>>, Failed)
    <3>1. PICK ws : ws = << >>
      OBVIOUS
    <3>2. ws \in Seq(Seq(Job)) /\ \A k \in 1..Len(ws) : Good(ws[k], created', requeued')
      BY <3>1
    <3>3. Work(h, ws, Failed)
      BY <2>4, <3>1
    <3>4. astray' \subseteq JobIds /\ requeued' \subseteq JobIds
      BY <1>a, <2>2
    <3> QED
      BY <1>a, <2>2, <3>2, <3>3, <3>4, WorkKeeps
  <2> QED
    BY <1>5, <2>1, <2>3, <2>4 DEF JobStatus
<1>6. ASSUME NEW h \in Handlers, JobResult(h)
      PROVE  JobsInv'
  <2>1. PICK b, s : b = call[h].id /\ s = call[h].status
    OBVIOUS
  <2>2. /\ call' = call /\ created' = created /\ s \in Statuses /\ b \in JobIds
        /\ requeued \subseteq requeued' /\ (astray' = astray \union {b} \/ astray' = astray)
        /\ requeued' = IF Requeues("result", s) THEN requeued \union {b} ELSE requeued
    BY <1>6, <2>1 DEF JobResult, CallsOK, Reports, TypeOK, Calls
  <2>3. CASE /\ Has(jobs, b)
             /\ Work(h, <<upsertBenchmarkJob(jobs,
                             ResultJob(findBenchmarkJob(jobs, b), s))>>, b)
    <3>1. PICK o, j, u : /\ o = findBenchmarkJob(jobs, b)
                         /\ j = ResultJob(o, s)
                         /\ u = upsertBenchmarkJob(jobs, j)
      OBVIOUS
    <3>2. o \in Job /\ (b \notin requeued => JobOK(o)) /\ o.id = b /\ b \in created
      BY <1>0, <2>3, <3>1 DEF findBenchmarkJob, Has, Position, Good
    <3>3. j \in Job /\ j.id = b /\ (b \notin requeued' => JobOK(j))
      BY <2>2, <3>1, <3>2, ResultFollows DEF Follows, Requeues
    <3>a. Good(jobs, created, requeued')
      BY <1>0, <2>2, GoodMore
    <3>4. Good(u, created, requeued')
      BY <3>a, <3>1, <3>2, <3>3, UpsertGood
    <3>b. astray' \subseteq JobIds /\ requeued' \subseteq JobIds
      BY <1>a, <2>2, <3>2
    <3>5. <<u>> \in Seq(Seq(Job)) /\ \A k \in 1..Len(<<u>>) : Good(<<u>>[k], created', requeued')
      BY <2>2, <3>4 DEF Good
    <3>6. Work(h, <<u>>, b) /\ b \in JobIds
      BY <1>a, <2>3, <3>1, <3>2
    <3> QED
      BY <1>a, <2>2, <3>b, <3>5, <3>6, WorkKeeps
  <2>4. CASE Work(h, <<jobs>>, b)
    <3>1. PICK u : u = jobs
      OBVIOUS
    <3>2. Work(h, <<u>>, b) /\ b \in JobIds \union {NoJob, Failed}
      BY <2>1, <2>4, <3>1 DEF TypeOK, Calls
    <3>3. <<u>> \in Seq(Seq(Job)) /\ \A k \in 1..Len(<<u>>) : Good(<<u>>[k], created', requeued')
      BY <1>0, <2>2, <3>1, GoodMore DEF Good
    <3>4. astray' \subseteq JobIds /\ requeued' \subseteq JobIds
      BY <1>a, <2>2
    <3> QED
      BY <1>a, <2>2, <3>2, <3>3, <3>4, WorkKeeps
  <2> QED
    BY <1>6, <2>1, <2>3, <2>4 DEF JobResult, Work
<1>7. ASSUME NEW h \in Handlers, Write(h)
      PROVE  JobsInv'
  <2>1. PICK u : u = Head(writes[h])
    OBVIOUS
  <2>2. writes[h] \in Seq(Seq(Job)) /\ writes[h] # <<>>
    BY <1>7 DEF Write, TypeOK
  <2>3. u \in Seq(Job) /\ u = writes[h][1] /\ 1 \in 1..Len(writes[h])
    BY <2>1, <2>2
  <2>4. Good(u, created, requeued)
    BY <1>0, <2>3
  <2>5. /\ jobs' = u /\ disk' = u /\ created' = created
        /\ writes' = [writes EXCEPT ![h] = Tail(writes[h])]
        /\ UNCHANGED <<stage, call, answer, awaited, rpc, rjob, acked, faults, requeued>>
        /\ astray' \subseteq JobIds
    BY <1>a, <1>7, <2>1 DEF Write, Overtakes, runnerVars
  <2>a. stale' \in [Handlers -> BOOLEAN]
    BY <1>7 DEF Write, Overtakes, TypeOK
  <2>6. /\ Tail(writes[h]) \in Seq(Seq(Job))
        /\ \A k \in 1..Len(Tail(writes[h])) :
              k + 1 \in 1..Len(writes[h]) /\ Tail(writes[h])[k] = writes[h][k + 1]
    BY <2>2
  <2>7. TypeOK'
    BY <1>a, <2>3, <2>5, <2>6, <2>a DEF TypeOK
  <2>8. ASSUME NEW g \in Handlers, NEW k \in 1..Len(writes'[g])
        PROVE  Good(writes'[g][k], created, requeued)
    <3>1. CASE g = h
      BY <1>0, <2>5, <2>6, <2>8, <3>1 DEF TypeOK
    <3>2. CASE g # h
      BY <1>0, <2>5, <2>8, <3>2 DEF TypeOK
    <3> QED
      BY <3>1, <3>2
  <2>9. JobsInOrder'
    <3>1. ListOK(jobs)' /\ ListOK(disk)'
      BY <2>4, <2>5 DEF ListOK, Good
    <3>2. ASSUME NEW g \in Handlers, NEW k \in 1..Len(writes'[g])
          PROVE  ListOK(writes[g][k])'
      <4>1. Good(writes'[g][k], created, requeued)
        BY <2>8, <3>2
      <4> QED
        BY <2>5, <4>1 DEF ListOK, Good
    <3> QED
      BY <3>1, <3>2 DEF JobsInOrder
  <2>10. CallsOK'
    BY <2>5 DEF CallsOK
  <2> QED
    BY <2>7, <2>9, <2>10
<1>8. ASSUME NEW h \in Handlers, WriteUnsaved(h)
      PROVE  JobsInv'
  <2>1. PICK u : u = Head(writes[h])
    OBVIOUS
  <2>2. writes[h] \in Seq(Seq(Job)) /\ writes[h] # <<>>
    BY <1>8 DEF WriteUnsaved, TypeOK
  <2>3. u \in Seq(Job) /\ u = writes[h][1] /\ 1 \in 1..Len(writes[h])
    BY <2>1, <2>2
  <2>4. Good(u, created, requeued)
    BY <1>0, <2>3
  <2>5. /\ jobs' = u /\ disk' = disk /\ created' = created
        /\ writes' = [writes EXCEPT ![h] = <<>>]
        /\ answer' = [answer EXCEPT ![h] = Failed]
        /\ faults' \in 0..MaxFaults
        /\ UNCHANGED <<stage, call, awaited, rpc, rjob, acked, requeued>>
        /\ astray' \subseteq JobIds
    BY <1>a, <1>8, <2>1, ConstantsAssumption DEF WriteUnsaved, Overtakes, runnerVars, TypeOK
  <2>a. stale' \in [Handlers -> BOOLEAN]
    BY <1>8 DEF WriteUnsaved, Overtakes, TypeOK
  <2>b. writes' \in [Handlers -> Seq(Seq(Job))] /\ answer' \in [Handlers -> JobIds \union {NoJob, Failed}]
    BY <2>5 DEF TypeOK
  <2>6. TypeOK'
    BY <1>a, <2>3, <2>5, <2>a, <2>b DEF TypeOK
  <2>7. ASSUME NEW g \in Handlers, NEW k \in 1..Len(writes'[g])
        PROVE  Good(writes'[g][k], created, requeued)
    BY <1>0, <2>5, <2>7 DEF TypeOK
  <2>8. JobsInOrder'
    BY <1>0, <2>4, <2>5, <2>7 DEF JobsInOrder, ListOK, Good
  <2>9. CallsOK'
    BY <2>5 DEF CallsOK
  <2> QED
    BY <2>6, <2>8, <2>9
<1>9. ASSUME NEW h \in Handlers, Reply(h)
      PROVE  JobsInv'
  <2>1. rpc' \in {"idle", "claiming", "claimed", "starting", "executing", "reporting"}
        /\ rjob' \in JobIds \union {NoJob} /\ acked' \subseteq JobIds
    BY <1>9 DEF Reply, RunnerHears, RunnerIdle, TypeOK, runnerVars
  <2>a. stale' \in [Handlers -> BOOLEAN]
    BY <1>9 DEF Reply, TypeOK
  <2>2. TypeOK'
    BY <1>9, <2>1, <2>a DEF Reply, TypeOK, Calls, NoCall
  <2>3. JobsInOrder'
    BY <1>9, ListsKept DEF Reply
  <2>4. CallsOK'
    <3>1. rpc' \in {"claimed", "starting", "executing"} => rjob' \in JobIds
      BY <1>9 DEF Reply, RunnerHears, RunnerIdle, CallsOK, TypeOK, runnerVars
    <3> QED
      BY <1>9, <3>1 DEF Reply, CallsOK, TypeOK, NoCall
  <2> QED
    BY <2>2, <2>3, <2>4
<1>10. ASSUME NEW h \in Handlers, RunnerStep(h)
       PROVE  JobsInv'
  <2>1. PICK b : b = rjob
    OBVIOUS
  <2>2. stale' \in [Handlers -> BOOLEAN]
    BY <1>10 DEF RunnerStep, SendClaim, SendRunning, SendStatus, SendResult, TypeOK
  <2>a. ASSUME NEW k, NEW s, Ends(k, s)
        PROVE  faults' \in 0..MaxFaults
    BY <2>a, ConstantsAssumption DEF Ends, TypeOK
  <2>3. CASE SendClaim(h)
    <3>1. [kind |-> "claim", id |-> NoJob, status |-> "none"] \in Calls
      BY DEF Calls
    <3>2. faults' \in 0..MaxFaults
      BY <2>3 DEF SendClaim, TypeOK
    <3> QED
      BY <2>2, <2>3, <3>1, <3>2, SendKeeps DEF SendClaim
  <2>4. CASE SendRunning(h)
    <3>1. PICK c : c = [kind |-> "status", id |-> b, status |-> "running"]
      OBVIOUS
    <3>a. b \in JobIds
      BY <2>1, <2>4 DEF SendRunning, CallsOK
    <3>2. c \in Calls /\ c.kind = "status" /\ c.id = b /\ c.status \in StatusReports
      BY <3>1, <3>a DEF Calls, Statuses, StatusReports
    <3>3. Send(h, c, "starting") /\ faults' \in 0..MaxFaults
      BY <2>1, <2>4, <3>1 DEF SendRunning, TypeOK
    <3> QED
      BY <2>1, <2>2, <3>2, <3>3, <3>a, SendKeeps
  <2>5. CASE SendStatus(h)
    <3>1. PICK s \in Reported \intersect StatusReports :
             /\ Send(h, [kind |-> "status", id |-> rjob, status |-> s], "reporting")
             /\ Ends("status", s)
      BY <2>5 DEF SendStatus
    <3>2. PICK c : c = [kind |-> "status", id |-> b, status |-> s]
      OBVIOUS
    <3>a. b \in JobIds
      BY <2>1, <2>5 DEF SendStatus, CallsOK
    <3>3. c \in Calls /\ c.kind = "status" /\ c.id = b /\ c.status \in StatusReports
      BY <3>2, <3>a DEF Calls, Statuses
    <3>4. Send(h, c, "reporting") /\ faults' \in 0..MaxFaults
      BY <2>1, <2>a, <3>1, <3>2
    <3> QED
      BY <2>1, <2>2, <3>3, <3>4, <3>a, SendKeeps
  <2>6. CASE SendResult(h)
    <3>1. PICK s \in Reported :
             /\ Send(h, [kind |-> "result", id |-> rjob, status |-> s], "reporting")
             /\ Ends("result", s)
      BY <2>6 DEF SendResult
    <3>2. PICK c : c = [kind |-> "result", id |-> b, status |-> s]
      OBVIOUS
    <3>a. b \in JobIds
      BY <2>1, <2>6 DEF SendResult, CallsOK
    <3>3. c \in Calls /\ c.kind = "result" /\ c.id = b /\ c.status \in Statuses
      BY <3>2, <3>a, ConstantsAssumption DEF Calls
    <3>4. Send(h, c, "reporting") /\ faults' \in 0..MaxFaults
      BY <2>1, <2>a, <3>1, <3>2
    <3> QED
      BY <2>1, <2>2, <3>3, <3>4, <3>a, SendKeeps
  <2> QED
    BY <1>10, <2>3, <2>4, <2>5, <2>6 DEF RunnerStep
<1>11. ASSUME NEW h \in Handlers, LoseCall(h)
       PROVE  JobsInv'
  <2>1. rpc' \in {"idle", "claiming", "claimed", "starting", "executing", "reporting"}
        /\ rjob' \in JobIds \union {NoJob} /\ faults' \in 0..MaxFaults
    BY <1>11, ConstantsAssumption DEF LoseCall, RunnerIdle, TypeOK
  <2>2. TypeOK'
    <3>1. stale' \in [Handlers -> BOOLEAN]
      BY <1>11 DEF LoseCall, TypeOK
    <3> QED
      BY <1>11, <2>1, <3>1 DEF LoseCall, TypeOK, Calls, NoCall
  <2>3. JobsInOrder'
    BY <1>11, ListsKept DEF LoseCall
  <2>4. CallsOK'
    BY <1>11 DEF LoseCall, RunnerIdle, CallsOK, TypeOK, NoCall
  <2> QED
    BY <2>2, <2>3, <2>4
<1>12. CASE RunnerGivesUp
  <2>1. TypeOK'
    BY <1>12 DEF RunnerGivesUp, RunnerIdle, TypeOK, historyVars
  <2>2. JobsInOrder'
    BY <1>12, ListsKept DEF RunnerGivesUp, historyVars
  <2>3. CallsOK'
    BY <1>12 DEF RunnerGivesUp, RunnerIdle, CallsOK
  <2> QED
    BY <2>1, <2>2, <2>3
<1>13. CASE Restart
  <2>1. rpc' \in {"idle", "claiming", "claimed", "starting", "executing", "reporting"}
        /\ rjob' \in JobIds \union {NoJob} /\ faults' \in 0..MaxFaults
    BY <1>13, ConstantsAssumption DEF Restart, RunnerIdle, TypeOK
  <2>2. TypeOK'
    BY <1>13, <2>1 DEF Restart, TypeOK, Calls, NoCall
  <2>3. JobsInOrder'
    BY <1>13 DEF Restart, JobsInOrder, ListOK
  <2>4. CallsOK'
    BY <1>13 DEF Restart, RunnerIdle, CallsOK, NoCall
  <2> QED
    BY <2>2, <2>3, <2>4
<1>14. CASE Tick
  <2>1. Good(Older(jobs), created, requeued) /\ Good(Older(disk), created, requeued)
    BY <1>0, OlderGood
  <2>2. \A h \in Handlers : \A k \in 1..Len(writes[h]) : Good(Older(writes[h][k]), created, requeued)
    BY <1>0, OlderGood
  <2>3. ASSUME NEW h \in Handlers
        PROVE  /\ writes'[h] \in Seq(Seq(Job))
               /\ Len(writes'[h]) = Len(writes[h])
               /\ \A k \in 1..Len(writes[h]) : Good(writes'[h][k], created, requeued)
    <3>1. writes'[h] = [k \in 1..Len(writes[h]) |-> Older(writes[h][k])]
      BY <1>14 DEF Tick
    <3>2. writes[h] \in Seq(Seq(Job))
      BY DEF TypeOK
    <3>3. \A k \in 1..Len(writes[h]) : Older(writes[h][k]) \in Seq(Job)
      BY <2>2 DEF Good
    <3> QED
      BY <2>2, <3>1, <3>2, <3>3
  <2>4. writes' \in [Handlers -> Seq(Seq(Job))]
    <3>1. DOMAIN writes' = Handlers /\ writes' = [h \in Handlers |-> writes'[h]]
      BY <1>14 DEF Tick
    <3> QED
      BY <2>3, <3>1
  <2>5. jobs' = Older(jobs) /\ disk' = Older(disk) /\ created' = created
        /\ UNCHANGED <<stage, call, answer, awaited, rpc, rjob, acked, faults, stale, astray, requeued>>
    BY <1>14 DEF Tick, runnerVars, historyVars
  <2>6. TypeOK'
    BY <2>1, <2>4, <2>5 DEF TypeOK, Good
  <2>7. JobsInOrder'
    BY <2>1, <2>3, <2>5 DEF JobsInOrder, ListOK, Good
  <2>8. CallsOK'
    BY <2>5 DEF CallsOK
  <2> QED
    BY <2>6, <2>7, <2>8
<1>15. CASE UNCHANGED vars
  <2>1. TypeOK'
    BY <1>15 DEF vars, handlerVars, runnerVars, historyVars, TypeOK
  <2>2. JobsInOrder'
    BY <1>15, ListsKept DEF vars, handlerVars, historyVars
  <2>3. CallsOK'
    BY <1>15 DEF vars, handlerVars, runnerVars, CallsOK
  <2> QED
    BY <2>1, <2>2, <2>3
<1> QED
  BY <1>1, <1>2, <1>3, <1>4, <1>5, <1>6, <1>7, <1>8, <1>9, <1>10, <1>11, <1>12, <1>13,
     <1>14, <1>15
  DEF Next, MarshalStep

\* The job lists stay in order whatever interleaves and whatever fails, for any
\* number of handlers, of which some write copies that others have overtaken:
\* none is listed twice, no list outgrows its bound, and, but for jobs that a
\* subscriber put back, no job is attempted more than max_attempts times and
\* no running job is without a lease.
THEOREM JobListsInOrder == Spec => []JobsInOrder
<1>1. JobsInv /\ [Next]_vars => JobsInv'
  BY JobsInvStep
<1>2. JobsInv => JobsInOrder
  BY DEF JobsInv
<1> QED
  BY <1>1, <1>2, JobsInvInit, PTL DEF Spec
-------------------------------------------------------------------------------
(* Overlapping handlers: the state file moves forward and the lease protects *)

\* The jobs nothing is said about in the lists.
Off == astray \union requeued

\* A job that ended did so with a status that is neither claimed nor timed out.
Tidy(j) == j.state = "terminal" => j.status \notin {"queued", "running"}

\* n is j, later: no attempt is uncounted and an ended job stays as it is.
Later(j, n) ==
    /\ n.id = j.id
    /\ n.attempt >= j.attempt
    /\ j.state = "terminal" => n.state = "terminal" /\ n.status = j.status

\* Of the jobs outside x, the list has what d has, or later.
Forward(d, list, x) ==
    \A i \in 1..Len(d), k \in 1..Len(list) :
       d[i].id = list[k].id /\ d[i].id \notin x => Later(d[i], list[k])

EndedIn(list, b) == \A i \in 1..Len(list) : list[i].id = b => list[i].state = "terminal"

\* The list may replace d although the results of the jobs in a were
\* acknowledged: it takes nothing back of the jobs outside x.
Sound(list, d, a, x) ==
    /\ \A i \in 1..Len(list) : list[i].id \notin x => Tidy(list[i])
    /\ Forward(d, list, x)
    /\ \A b \in a \ x : EndedIn(list, b) /\ (Has(list, b) => Has(d, b))

\* The job is still its runner's: not ended, and running until the lease ends.
Unended(j) == j.state # "terminal" /\ (j.timeout > 0 => j.status = "running")
Mine(list, b) == \A i \in 1..Len(list) : list[i].id = b => Unended(list[i])

\* With J in memory, D in the file, W what the handlers have still to write, S
\* which of them are overtaken, and a the acknowledged jobs: every list but
\* those of overtaken handlers may replace the file.
ListsInv(J, D, W, S, a, x) ==
    /\ Sound(J, D, a, x) /\ Sound(D, D, a, x)
    /\ \A h \in Handlers : ~ S[h] =>
          /\ Len(W[h]) <= 2
          /\ \A k \in 1..Len(W[h]) : Sound(W[h][k], D, a, x)
          /\ Len(W[h]) = 2 => Sound(W[h][2], W[h][1], a, x)

\* The jobs of b that are not in x are their runner's in all these lists.
HoldsInv(J, D, W, S, b, x) ==
    \A e \in b \ x :
       /\ Mine(J, e) /\ Mine(D, e)
       /\ \A h \in Handlers : ~ S[h] => \A k \in 1..Len(W[h]) : Mine(W[h][k], e)

\* Handlers with nothing left to write whose answer to a call of kind k, a job,
\* the runner waits for.
Answering(k) ==
    {h \in Handlers :
        /\ awaited[h]
        /\ stage[h] = "writing"
        /\ call[h].kind = k
        /\ writes[h] = <<>>
        /\ answer[h] \notin {NoJob, Failed}}

\* Handlers that have received a report that is not overtaken.
Reporting ==
    {h \in Handlers : stage[h] = "received" /\ ~ stale[h] /\ call[h].kind \in {"status", "result"}}

\* The jobs whose result is acknowledged, or as good as.
Kept == {b \in JobIds : b \in acked \/ \E h \in Answering("result") : answer[h] = b}

\* The jobs that the runner works on, is about to be given, or reports on.
Held ==
    {b \in JobIds :
        \/ b = rjob /\ rpc \in {"claimed", "starting", "executing"}
        \/ \E h \in Answering("claim") : answer[h] = b
        \/ \E h \in Reporting : call[h].id = b}

\* Every identifier in a call, an answer or the runner's hands was drawn.
IdsInv ==
    /\ acked \subseteq created
    /\ rpc \in {"claimed", "starting", "executing"} => rjob \in created
    /\ \A h \in Handlers :
          /\ answer[h] \in created \union {NoJob, Failed}
          /\ call[h].kind \in {"status", "result"} => call[h].id \in created

\* A handler has something to write only once it has read, and is asked
\* something as long as it is not free.
StageInv ==
    \A h \in Handlers :
       /\ stage[h] # "writing" => writes[h] = <<>>
       /\ stage[h] = "free" => call[h].kind = "none"

\* The runner waits for one handler at most, for exactly the call it sent; a
\* report that is not overtaken is the only one, and its sender waits for it or
\* has not polled since.
WaitInv ==
    /\ \A h \in Handlers : awaited[h] =>
          \/ rpc = "claiming" /\ call[h].kind = "claim"
          \/ /\ rpc = "starting" /\ call[h].kind = "status"
             /\ call[h].id = rjob /\ call[h].status = "running"
          \/ rpc = "reporting" /\ call[h].kind \in {"status", "result"}
    /\ \A g, h \in Handlers : awaited[g] /\ awaited[h] => g = h
    /\ \A g, h \in Reporting : g = h
    /\ \A h \in Reporting : awaited[h] \/ rpc = "idle"

\* What a handler that is not overtaken is about to write: a claim the job it
\* will answer with, as its runner's; a result its job, as ended.
PendingInv ==
    \A h \in Handlers :
       (/\ stage[h] = "writing" /\ ~ stale[h] /\ writes[h] # <<>>
        /\ answer[h] \notin {NoJob, Failed}) =>
          /\ call[h].kind = "claim" /\ answer[h] \notin astray =>
                Mine(writes[h][Len(writes[h])], answer[h])
          /\ call[h].kind = "result" /\ answer[h] \notin Off =>
                Len(writes[h]) = 1 /\ EndedIn(writes[h][1], answer[h])

\* The inductive invariant.
SharedInv ==
    /\ IdsInv /\ StageInv /\ WaitInv /\ PendingInv
    /\ ListsInv(jobs, disk, writes, stale, Kept, Off)
    /\ HoldsInv(jobs, disk, writes, stale, Held, astray)

\* What a retry makes of a job.
LEMMA RetryFields ==
    ASSUME NEW j \in Job
    PROVE  LET r == scheduleBenchmarkJobRetry(j) IN
           /\ r \in Job /\ r.id = j.id /\ r.attempt = j.attempt /\ r.timeout = j.timeout
           /\ r.status = "failed" /\ r.state \in {"retry_wait", "exhausted"}
  BY ConstantsAssumption
  DEF scheduleBenchmarkJobRetry, Job, Statuses, StatusReports, SchedulerStates, Absent

\* What the scheduler makes of a job.
LEMMA ReconcileLater ==
    ASSUME NEW j \in Job
    PROVE  LET n == ReconciledJob(j) IN
           /\ n.id = j.id
           /\ Tidy(j) => Later(j, n) /\ Tidy(n)
           /\ Unended(j) => Unended(n)
<1>1. PICK n : n = ReconciledJob(j)
  OBVIOUS
<1>2. j.attempt \in Nat /\ j.timeout \in Int
  BY DEF Job, Absent
<1>3. CASE TimedOut(j)
  <2>1. PICK r, z : r = scheduleBenchmarkJobRetry(j) /\ z = IF j.timeout = Absent THEN 0 ELSE j.timeout
    OBVIOUS
  <2>2. n = [r EXCEPT !.timeout = z]
    BY <1>1, <1>3, <2>1 DEF ReconciledJob
  <2>a. r \in Job /\ r.id = j.id /\ r.attempt = j.attempt /\ r.state \in {"retry_wait", "exhausted"}
    BY <2>1, RetryFields
  <2>3. n.id = j.id /\ n.attempt = j.attempt /\ n.state \in {"retry_wait", "exhausted"} /\ n.timeout = z
    BY <2>2, <2>a DEF Job
  <2>4. (Tidy(j) => j.state # "terminal") /\ ~ (z > 0)
    BY <1>2, <1>3, <2>1 DEF TimedOut, Due, Tidy, Absent
  <2> QED
    BY <1>1, <1>2, <2>1, <2>3, <2>4 DEF Later, Tidy, Unended
<1>4. CASE ~ TimedOut(j) /\ RetryReady(j)
  <2>1. n = [j EXCEPT !.status = "queued", !.state = "queued"]
    BY <1>1, <1>4 DEF ReconciledJob
  <2>2. n.id = j.id /\ n.attempt = j.attempt /\ n.state = "queued" /\ n.timeout = j.timeout
    BY <2>1 DEF Job
  <2> QED
    BY <1>1, <1>2, <1>4, <2>2 DEF Later, Tidy, Unended, RetryReady
<1>5. CASE ~ TimedOut(j) /\ ~ RetryReady(j)
  <2>1. n = j \/ n = [j EXCEPT !.next = 0]
    BY <1>1, <1>5 DEF ReconciledJob
  <2>2. n.id = j.id /\ n.attempt = j.attempt /\ n.state = j.state /\ n.status = j.status /\ n.timeout = j.timeout
    BY <2>1 DEF Job
  <2> QED
    BY <1>1, <1>2, <2>2 DEF Later, Tidy, Unended
<1> QED
  BY <1>3, <1>4, <1>5

\* What a claim makes of a queued job.
LEMMA ClaimLater ==
    ASSUME NEW j \in Job, j.status = "queued"
    PROVE  LET n == ClaimedJob(j) IN
           (Tidy(j) => Later(j, n)) /\ Tidy(n) /\ Unended(n)
<1>1. PICK n, a : n = ClaimedJob(j) /\ a = j.attempt + 1
  OBVIOUS
<1>2. PICK x : x = Absent
  OBVIOUS
<1>3. n = [j EXCEPT !.status = "running", !.state = "running", !.attempt = a, !.timeout = Lease, !.next = x]
  BY <1>1, <1>2 DEF ClaimedJob
<1>4. n.id = j.id /\ n.attempt = a /\ n.state = "running" /\ n.status = "running"
  BY <1>3 DEF Job
<1>5. a >= j.attempt
  BY <1>1 DEF Job
<1> QED
  BY <1>1, <1>4, <1>5 DEF Later, Tidy, Unended

\* What a status report makes of a job.
LEMMA StatusLater ==
    ASSUME NEW j \in Job, NEW s \in StatusReports
    PROVE  LET n == StatusJob(j, s) IN
           /\ j.state # "terminal" /\ s # "queued" => Later(j, n) /\ Tidy(n)
           /\ s = "running" => Unended(n)
<1>1. PICK n : n = StatusJob(j, s)
  OBVIOUS
<1>2. j.attempt \in Nat
  BY DEF Job
<1>3. CASE s = "running"
  <2>1. PICK t : n = [j EXCEPT !.status = s, !.state = "running", !.timeout = t]
    BY <1>1, <1>3 DEF StatusJob
  <2>2. n.id = j.id /\ n.attempt = j.attempt /\ n.state = "running" /\ n.status = "running"
    BY <1>3, <2>1 DEF Job
  <2> QED
    BY <1>1, <1>2, <2>2 DEF Later, Tidy, Unended
<1>4. CASE s = "failed"
  <2>1. n = scheduleBenchmarkJobRetry(j)
    BY <1>1, <1>4 DEF StatusJob
  <2>2. n.id = j.id /\ n.attempt = j.attempt /\ n.state \in {"retry_wait", "exhausted"}
    BY <2>1, RetryFields
  <2> QED
    BY <1>1, <1>2, <1>4, <2>2 DEF Later, Tidy
<1>5. CASE s \in {"completed", "cancelled"}
  <2>1. n = [j EXCEPT !.status = s, !.state = "terminal"]
    BY <1>1, <1>5 DEF StatusJob
  <2>2. n.id = j.id /\ n.attempt = j.attempt /\ n.status = s
    BY <2>1 DEF Job
  <2> QED
    BY <1>1, <1>2, <1>5, <2>2 DEF Later, Tidy
<1> QED
  BY <1>3, <1>4, <1>5 DEF StatusReports

\* What a result makes of a job.
LEMMA ResultLater ==
    ASSUME NEW j \in Job, NEW s \in Statuses
    PROVE  LET n == ResultJob(j, s) IN
           /\ n.state = "terminal"
           /\ j.state # "terminal" /\ s \notin {"queued", "running"} => Later(j, n) /\ Tidy(n)
<1>1. PICK n : n = [j EXCEPT !.status = s, !.state = "terminal"]
  OBVIOUS
<1>2. n.id = j.id /\ n.attempt = j.attempt /\ n.status = s /\ n.state = "terminal" /\ j.attempt \in Nat
  BY <1>1 DEF Job
<1>3. j.state # "terminal" /\ s \notin {"queued", "running"} => Later(j, n) /\ Tidy(n)
  BY <1>2 DEF Later, Tidy
<1> QED
  BY <1>1, <1>2, <1>3 DEF ResultJob

\* Time changes nothing of a job but its timestamps.
LEMMA OlderLater ==
    ASSUME NEW j \in Job
    PROVE  LET n == OlderJob(j) IN
           /\ n.id = j.id /\ n.attempt = j.attempt /\ n.state = j.state /\ n.status = j.status
           /\ n.timeout > 0 => j.timeout > 0
<1>1. PICK n, t, x : n = OlderJob(j) /\ t = Earlier(j.timeout) /\ x = Earlier(j.next)
  OBVIOUS
<1>2. n = [j EXCEPT !.timeout = t, !.next = x]
  BY <1>1 DEF OlderJob
<1>3. n.id = j.id /\ n.attempt = j.attempt /\ n.state = j.state /\ n.status = j.status /\ n.timeout = t
  BY <1>2 DEF Job
<1>4. t > 0 => j.timeout > 0
  BY <1>1 DEF Earlier, Job, Absent
<1> QED
  BY <1>1, <1>3, <1>4

\* A list made from l: every job of it outside x is one of l, later, or new.
Derived(l, m, new, x) ==
    \A k \in 1..Len(m) : m[k].id \notin x =>
       Tidy(m[k]) /\ (m[k].id \in new \/ \E i \in 1..Len(l) : Later(l[i], m[k]))

\* What is made from a list that may replace d may replace d.
LEMMA DerivedSound ==
    ASSUME NEW J \in Seq(Job), NEW D \in Seq(Job), NEW m \in Seq(Job), NEW a, NEW x, NEW new,
           Sound(J, D, a, x), Derived(J, m, new, x), \A b \in new : b \notin a /\ ~ Has(D, b)
    PROVE  Sound(m, D, a, x)
<1>1. ASSUME NEW i \in 1..Len(D), NEW k \in 1..Len(m), D[i].id = m[k].id, D[i].id \notin x
      PROVE  Later(D[i], m[k])
  <2>1. m[k].id \notin new
    BY <1>1 DEF Has
  <2>2. PICK y \in 1..Len(J) : Later(J[y], m[k])
    BY <1>1, <2>1 DEF Derived
  <2>3. J[y].id = m[k].id
    BY <2>2 DEF Later
  <2>4. Later(D[i], J[y])
    BY <1>1, <2>3 DEF Sound, Forward
  <2>5. D[i].attempt \in Nat /\ J[y].attempt \in Nat /\ m[k].attempt \in Nat
    <3>1. D[i] \in Job /\ J[y] \in Job /\ m[k] \in Job
      OBVIOUS
    <3> QED
      BY <3>1 DEF Job
  <2>6. m[k].attempt >= J[y].attempt /\ J[y].attempt >= D[i].attempt
    BY <2>2, <2>4 DEF Later
  <2>7. m[k].attempt >= D[i].attempt
    BY <2>5, <2>6
  <2> QED
    BY <1>1, <2>2, <2>4, <2>7 DEF Later
<1>2. ASSUME NEW b \in a \ x
      PROVE  EndedIn(m, b) /\ (Has(m, b) => Has(D, b))
  <2>1. b \notin new /\ EndedIn(J, b) /\ (Has(J, b) => Has(D, b))
    BY DEF Sound
  <2>2. ASSUME NEW k \in 1..Len(m), m[k].id = b
        PROVE  m[k].state = "terminal" /\ Has(J, b)
    <3>1. PICK y \in 1..Len(J) : Later(J[y], m[k])
      BY <2>1, <2>2 DEF Derived
    <3>2. J[y].id = b
      BY <2>2, <3>1 DEF Later
    <3>3. J[y].state = "terminal"
      BY <2>1, <3>2 DEF EndedIn
    <3> QED
      BY <3>1, <3>2, <3>3 DEF Later, Has
  <2> QED
    BY <2>1, <2>2 DEF EndedIn, Has
<1>3. \A i \in 1..Len(m) : m[i].id \notin x => Tidy(m[i])
  BY DEF Derived
<1> QED
  BY <1>1, <1>2, <1>3 DEF Sound, Forward

\* A list may replace itself.
LEMMA SoundSelf ==
    ASSUME NEW L, NEW D, NEW a, NEW x, NEW c, NEW r, Good(L, c, r), Sound(L, D, a, x)
    PROVE  Sound(L, L, a, x)
<1>1. ASSUME NEW i \in 1..Len(L), NEW k \in 1..Len(L), L[i].id = L[k].id
      PROVE  Later(L[i], L[k])
  <2>1. i = k /\ L[i] \in Job
    BY <1>1 DEF Good
  <2>2. L[i].attempt \in Nat
    BY <2>1 DEF Job
  <2> QED
    BY <2>1, <2>2 DEF Later
<1> QED
  BY <1>1 DEF Sound, Forward

\* Less is said with fewer acknowledged jobs and more jobs left out.
LEMMA SoundLess ==
    ASSUME NEW L, NEW D, NEW a, NEW x, NEW b, NEW y, Sound(L, D, a, x), b \subseteq a, x \subseteq y
    PROVE  Sound(L, D, b, y)
  BY DEF Sound, Forward

\* Nothing is said of lists whose jobs are all left out.
LEMMA SoundOff ==
    ASSUME NEW L, NEW D, NEW a, NEW x, NEW c, NEW r, Good(L, c, r), Good(D, c, r),
           c \subseteq x, a \subseteq x
    PROVE  Sound(L, D, a, x)
<1>1. \A i \in 1..Len(L) : L[i].id \in x
  BY DEF Good
<1>2. \A i \in 1..Len(D) : D[i].id \in x
  BY DEF Good
<1> QED
  BY <1>1, <1>2 DEF Sound, Forward

LEMMA ListsLess ==
    ASSUME NEW J, NEW D, NEW W, NEW S, NEW a, NEW x, NEW b, NEW y,
           ListsInv(J, D, W, S, a, x), b \subseteq a, x \subseteq y
    PROVE  ListsInv(J, D, W, S, b, y)
<1>1. Sound(J, D, b, y) /\ Sound(D, D, b, y)
  BY SoundLess DEF ListsInv
<1>2. ASSUME NEW h \in Handlers, ~ S[h]
      PROVE  /\ Len(W[h]) <= 2
             /\ \A k \in 1..Len(W[h]) : Sound(W[h][k], D, b, y)
             /\ Len(W[h]) = 2 => Sound(W[h][2], W[h][1], b, y)
  BY <1>2, SoundLess DEF ListsInv
<1> QED
  BY <1>1, <1>2 DEF ListsInv

\* The list as it is, with the job j in place of its old copy, or new.
LEMMA UpsertElements ==
    ASSUME NEW c, NEW r, NEW list, Good(list, c, r), NEW j \in Job, NEW u, u = upsertBenchmarkJob(list, j)
    PROVE  /\ u \in Seq(Job) /\ Len(u) > 0 /\ u[1] = j
           /\ \A k \in 1..Len(u) :
                 u[k] = j \/ (u[k].id # j.id /\ \E i \in 1..Len(list) : u[k] = list[i])
<1>1. MaxJobs \in Nat \ {0}
  BY ConstantsAssumption
<1>2. ASSUME NEW rest, Good(rest, c, r), ~ Has(rest, j.id),
             \A i \in 1..Len(rest) : \E x \in 1..Len(list) : rest[i] = list[x],
             u = SubSeq(<<j>> \o rest, 1, IF Len(rest) < MaxJobs THEN Len(rest) + 1 ELSE MaxJobs)
      PROVE  /\ u \in Seq(Job) /\ Len(u) > 0 /\ u[1] = j
             /\ \A k \in 1..Len(u) :
                   u[k] = j \/ (u[k].id # j.id /\ \E i \in 1..Len(list) : u[k] = list[i])
  <2>1. rest \in Seq(Job)
    BY <1>2 DEF Good
  <2>2. /\ u \in Seq(Job)
        /\ Len(u) = IF Len(rest) < MaxJobs THEN Len(rest) + 1 ELSE MaxJobs
        /\ Len(u) > 0 => u[1] = j
        /\ \A i \in 2..Len(u) : i - 1 \in 1..Len(rest) /\ u[i] = rest[i - 1]
    BY <1>1, <1>2, <2>1, PrependElements
  <2>3. Len(u) > 0
    BY <1>1, <2>1, <2>2
  <2>4. ASSUME NEW k \in 1..Len(u), k # 1
        PROVE  u[k].id # j.id /\ \E i \in 1..Len(list) : u[k] = list[i]
    <3>1. k - 1 \in 1..Len(rest) /\ u[k] = rest[k - 1]
      BY <2>2, <2>4
    <3> QED
      BY <1>2, <3>1 DEF Has
  <2> QED
    BY <2>2, <2>3, <2>4
<1>3. CASE Has(list, j.id)
  <2>1. PICK p : p = Position(list, j.id)
    OBVIOUS
  <2>2. p \in 1..Len(list) /\ list[p].id = j.id
    BY <1>3, <2>1 DEF Has, Position
  <2>3. PICK rest : rest = RemoveAt(list, p)
    OBVIOUS
  <2>4. Good(rest, c, r) /\ ~ Has(rest, j.id)
    BY <2>2, <2>3, RemoveGood
  <2>5. \A i \in 1..Len(rest) : \E x \in 1..Len(list) : rest[i] = list[x]
    <3>1. list \in Seq(Job)
      BY DEF Good
    <3>2. /\ Len(rest) = Len(list) - 1
          /\ \A i \in 1..(Len(list) - 1) : rest[i] = IF i < p THEN list[i] ELSE list[i + 1]
      BY <2>2, <2>3, <3>1, RemoveAtFacts
    <3> QED
      BY <2>2, <3>1, <3>2
  <2> QED
    BY <1>2, <1>3, <2>1, <2>3, <2>4, <2>5 DEF upsertBenchmarkJob
<1>4. CASE ~ Has(list, j.id)
  BY <1>2, <1>4 DEF upsertBenchmarkJob
<1> QED
  BY <1>3, <1>4

\* What the scheduler makes of a list, job by job.
LEMMA ReconciledElements ==
    ASSUME NEW c, NEW r, NEW L, Good(L, c, r), NEW t, t = Reconciled(L)
    PROVE  /\ t \in Seq(Job) /\ Len(t) = Len(L)
           /\ \A i \in 1..Len(L) :
                 /\ t[i].id = L[i].id
                 /\ Tidy(L[i]) => Later(L[i], t[i]) /\ Tidy(t[i])
                 /\ Unended(L[i]) => Unended(t[i])
<1>1. L \in Seq(Job) /\ \A i \in 1..Len(L) : L[i] \in Job
  BY DEF Good
<1>2. t \in Seq(Job)
  <2>1. Good(t, c, r)
    BY ReconciledGood
  <2> QED
    BY <2>1 DEF Good
<1>3. CASE ReconcileChanges(L)
  <2>1. t = [i \in 1..Len(L) |-> ReconciledJob(L[i])]
    BY <1>3 DEF Reconciled
  <2>2. Len(t) = Len(L) /\ \A i \in 1..Len(L) : t[i] = ReconciledJob(L[i])
    BY <1>1, <1>2, <2>1
  <2>3. ASSUME NEW i \in 1..Len(L)
        PROVE  /\ t[i].id = L[i].id
               /\ Tidy(L[i]) => Later(L[i], t[i]) /\ Tidy(t[i])
               /\ Unended(L[i]) => Unended(t[i])
    BY <1>1, <2>2, ReconcileLater
  <2> QED
    BY <1>2, <2>2, <2>3
<1>4. CASE ~ ReconcileChanges(L)
  <2>1. t = L
    BY <1>4 DEF Reconciled
  <2>2. ASSUME NEW i \in 1..Len(L)
        PROVE  Later(L[i], L[i])
    <3>1. L[i].attempt \in Nat
      BY <1>1 DEF Job
    <3> QED
      BY <3>1 DEF Later
  <2> QED
    BY <1>2, <2>1, <2>2
<1> QED
  BY <1>3, <1>4

\* The reconciled list may replace what the list may replace, and takes no job
\* away from its runner.
LEMMA ReconciledSound ==
    ASSUME NEW c, NEW r, NEW L, Good(L, c, r), NEW D \in Seq(Job), NEW a, NEW x, Sound(L, D, a, x),
           NEW t, t = Reconciled(L)
    PROVE  /\ Sound(t, D, a, x)
           /\ \A b : Mine(L, b) => Mine(t, b)
<1>1. L \in Seq(Job) /\ \A i \in 1..Len(L) : L[i].id \notin x => Tidy(L[i])
  BY DEF Good, Sound
<1>2. /\ t \in Seq(Job) /\ Len(t) = Len(L)
      /\ \A i \in 1..Len(L) :
            /\ t[i].id = L[i].id
            /\ Tidy(L[i]) => Later(L[i], t[i]) /\ Tidy(t[i])
            /\ Unended(L[i]) => Unended(t[i])
  BY ReconciledElements
<1>3. Derived(L, t, {}, x)
  BY <1>1, <1>2 DEF Derived
<1>4. Sound(t, D, a, x)
  BY <1>1, <1>2, <1>3, DerivedSound
<1>5. ASSUME NEW b, Mine(L, b)
      PROVE  Mine(t, b)
  BY <1>2, <1>5 DEF Mine
<1> QED
  BY <1>4, <1>5

\* The list with j in place of an earlier copy of it, or with a new job j, may
\* replace what the list may replace; only the job j changes hands.
LEMMA UpsertSound ==
    ASSUME NEW c, NEW r, NEW L, Good(L, c, r), NEW D \in Seq(Job), NEW a, NEW x, Sound(L, D, a, x),
           NEW j \in Job,
           \/ j.id \in x
           \/ Tidy(j) /\ \E i \in 1..Len(L) : Later(L[i], j)
           \/ Tidy(j) /\ j.id \notin a /\ ~ Has(D, j.id),
           NEW u, u = upsertBenchmarkJob(L, j)
    PROVE  /\ Sound(u, D, a, x)
           /\ \A b : Mine(L, b) /\ (b # j.id \/ Unended(j)) => Mine(u, b)
           /\ Unended(j) => Mine(u, j.id)
           /\ j.state = "terminal" => EndedIn(u, j.id)
<1>1. L \in Seq(Job) /\ \A i \in 1..Len(L) : L[i] \in Job /\ (L[i].id \notin x => Tidy(L[i]))
  BY DEF Good, Sound
<1>2. /\ u \in Seq(Job)
      /\ \A k \in 1..Len(u) :
            u[k] = j \/ (u[k].id # j.id /\ \E i \in 1..Len(L) : u[k] = L[i])
  BY UpsertElements
<1>3. \A i \in 1..Len(L) : Later(L[i], L[i])
  <2> SUFFICES ASSUME NEW i \in 1..Len(L) PROVE Later(L[i], L[i])
    OBVIOUS
  <2>1. L[i].attempt \in Nat
    BY <1>1 DEF Job
  <2> QED
    BY <2>1 DEF Later
<1>4. Sound(u, D, a, x)
  <2>1. CASE j.id \in x \/ (Tidy(j) /\ \E i \in 1..Len(L) : Later(L[i], j))
    <3>1. Derived(L, u, {}, x)
      BY <1>1, <1>2, <1>3, <2>1 DEF Derived
    <3> QED
      BY <1>1, <1>2, <3>1, DerivedSound
  <2>2. CASE Tidy(j) /\ j.id \notin a /\ ~ Has(D, j.id)
    <3>1. Derived(L, u, {j.id}, x)
      BY <1>1, <1>2, <1>3, <2>2 DEF Derived
    <3> QED
      BY <1>1, <1>2, <2>2, <3>1, DerivedSound
  <2> QED
    BY <2>1, <2>2
<1> QED
  BY <1>2, <1>4 DEF Mine, EndedIn

\* What a unit of time makes of a list, job by job.
LEMMA OlderElements ==
    ASSUME NEW L \in Seq(Job), NEW t, t = Older(L)
    PROVE  /\ Len(t) = Len(L)
           /\ \A i \in 1..Len(L) :
                 /\ t[i].id = L[i].id /\ t[i].attempt = L[i].attempt
                 /\ t[i].state = L[i].state /\ t[i].status = L[i].status
                 /\ t[i].timeout > 0 => L[i].timeout > 0
<1>1. t = [i \in 1..Len(L) |-> OlderJob(L[i])]
  BY DEF Older
<1>2. Len(t) = Len(L) /\ \A i \in 1..Len(L) : t[i] = OlderJob(L[i]) /\ L[i] \in Job
  BY <1>1
<1> QED
  BY <1>2, OlderLater

\* A unit of time changes nothing of what the lists say of each other.
LEMMA OlderSound ==
    ASSUME NEW L \in Seq(Job), NEW D \in Seq(Job), NEW a, NEW x, Sound(L, D, a, x)
    PROVE  Sound(Older(L), Older(D), a, x)
<1>1. PICK t, e : t = Older(L) /\ e = Older(D)
  OBVIOUS
<1>2. /\ Len(t) = Len(L)
      /\ \A i \in 1..Len(L) : /\ t[i].id = L[i].id /\ t[i].attempt = L[i].attempt
                              /\ t[i].state = L[i].state /\ t[i].status = L[i].status
  BY <1>1, OlderElements
<1>3. /\ Len(e) = Len(D)
      /\ \A i \in 1..Len(D) : /\ e[i].id = D[i].id /\ e[i].attempt = D[i].attempt
                              /\ e[i].state = D[i].state /\ e[i].status = D[i].status
  BY <1>1, OlderElements
<1>4. \A i \in 1..Len(t) : t[i].id \notin x => Tidy(t[i])
  BY <1>2 DEF Sound, Tidy
<1>5. Forward(e, t, x)
  BY <1>2, <1>3 DEF Sound, Forward, Later
<1>6. ASSUME NEW b \in a \ x
      PROVE  EndedIn(t, b) /\ (Has(t, b) => Has(e, b))
  BY <1>2, <1>3 DEF Sound, EndedIn, Has
<1> QED
  BY <1>1, <1>4, <1>5, <1>6 DEF Sound

\* A unit of time takes no job from a runner and opens no ended one again.
LEMMA OlderKeeps ==
    ASSUME NEW L \in Seq(Job), NEW b
    PROVE  /\ Mine(L, b) => Mine(Older(L), b)
           /\ EndedIn(L, b) => EndedIn(Older(L), b)
<1>1. PICK t : t = Older(L)
  OBVIOUS
<1>2. /\ Len(t) = Len(L)
      /\ \A i \in 1..Len(L) :
            /\ t[i].id = L[i].id /\ t[i].state = L[i].state /\ t[i].status = L[i].status
            /\ t[i].timeout > 0 => L[i].timeout > 0
  BY <1>1, OlderElements
<1> QED
  BY <1>1, <1>2 DEF Mine, Unended, EndedIn

\* The job a handler finds is one of the list.
LEMMA Found ==
    ASSUME NEW c, NEW r, NEW L, Good(L, c, r), NEW b, Has(L, b)
    PROVE  \E i \in 1..Len(L) : L[i] = findBenchmarkJob(L, b) /\ L[i].id = b /\ L[i] \in Job
<1>1. PICK p : p = Position(L, b)
  OBVIOUS
<1>2. p \in 1..Len(L) /\ L[p].id = b
  BY <1>1 DEF Has, Position
<1>3. L[p] \in Job
  BY <1>2 DEF Good
<1> QED
  BY <1>1, <1>2, <1>3 DEF findBenchmarkJob
-------------------------------------------------------------------------------
-------------------------------------------------------------------------------
\* Less is said with fewer held jobs and more jobs left out.
LEMMA HoldsLess ==
    ASSUME NEW J, NEW D, NEW W, NEW S, NEW a, NEW x, NEW b, NEW y,
           HoldsInv(J, D, W, S, a, x), b \subseteq a, x \subseteq y
    PROVE  HoldsInv(J, D, W, S, b, y)
  BY DEF HoldsInv

\* The jobs nothing is said about only become more.
LEMMA OffGrows ==
    ASSUME astray \subseteq astray', requeued \subseteq requeued'
    PROVE  Off \subseteq Off'
  BY DEF Off

\* The initial state satisfies the invariant.
LEMMA SharedInit ==
    ASSUME Init
    PROVE  SharedInv
<1>1. PICK e : e = <<>>
  OBVIOUS
<1>2. Len(e) = 0 /\ e = <<>>
  BY <1>1
<1>3. /\ jobs = e /\ disk = e /\ acked = {} /\ created = {} /\ rpc = "idle"
      /\ \A h \in Handlers : /\ writes[h] = e /\ stage[h] = "free" /\ call[h].kind = "none"
                             /\ awaited[h] = FALSE /\ answer[h] = NoJob
  BY <1>1 DEF Init, NoCall
<1>4. Answering("result") = {} /\ Answering("claim") = {} /\ Reporting = {}
  BY <1>3 DEF Answering, Reporting
<1>5. Kept = {} /\ Held = {}
  BY <1>3, <1>4 DEF Kept, Held
<1>6. ListsInv(jobs, disk, writes, stale, {}, Off)
  BY <1>2, <1>3 DEF ListsInv, Sound, Forward
<1>7. HoldsInv(jobs, disk, writes, stale, {}, astray)
  BY DEF HoldsInv
<1>8. IdsInv /\ StageInv /\ WaitInv /\ PendingInv
  BY <1>2, <1>3, <1>4 DEF IdsInv, StageInv, WaitInv, PendingInv
<1> QED
  BY <1>5, <1>6, <1>7, <1>8 DEF SharedInv

\* Steps that touch no list and give nobody more to keep or to hold.
LEMMA SharedKept ==
    ASSUME SharedInv, UNCHANGED <<jobs, disk, writes, astray, requeued>>,
           Kept' \subseteq Kept, Held' \subseteq Held, IdsInv', StageInv', WaitInv',
           \A g \in Handlers : writes[g] # <<>> =>
              /\ stale'[g] = stale[g] /\ stage'[g] = stage[g]
              /\ call'[g] = call[g] /\ answer'[g] = answer[g],
           \A g \in Handlers : Len(writes[g]) \in Nat /\ (writes[g] = <<>> => Len(writes[g]) = 0)
    PROVE  SharedInv'
<1>1. Off' = Off
  BY DEF Off
<1>2. PICK J, D, W, S, T : J = jobs /\ D = disk /\ W = writes /\ S = stale /\ T = stale'
  OBVIOUS
<1>3. \A g \in Handlers : ~ T[g] => ~ S[g] \/ W[g] = <<>>
  BY <1>2
<1>4. \A g \in Handlers : Len(W[g]) \in Nat /\ (W[g] = <<>> => Len(W[g]) = 0)
  BY <1>2
<1>5. ListsInv(J, D, W, S, Kept, Off) /\ HoldsInv(J, D, W, S, Held, astray)
  BY <1>2 DEF SharedInv
<1>6. ListsInv(J, D, W, T, Kept, Off)
  <2>1. ASSUME NEW g \in Handlers, ~ T[g]
        PROVE  /\ Len(W[g]) <= 2
               /\ \A k \in 1..Len(W[g]) : Sound(W[g][k], D, Kept, Off)
               /\ Len(W[g]) = 2 => Sound(W[g][2], W[g][1], Kept, Off)
    <3>1. CASE ~ S[g]
      BY <1>5, <3>1 DEF ListsInv
    <3>2. CASE W[g] = <<>>
      BY <1>4, <3>2
    <3> QED
      BY <1>3, <2>1, <3>1, <3>2
  <2> QED
    BY <1>5, <2>1 DEF ListsInv
<1>7. HoldsInv(J, D, W, T, Held, astray)
  <2>1. ASSUME NEW e \in Held \ astray, NEW g \in Handlers, ~ T[g], NEW k \in 1..Len(W[g])
        PROVE  Mine(W[g][k], e)
    <3>1. ~ S[g]
      BY <1>3, <1>4, <2>1
    <3> QED
      BY <1>5, <2>1, <3>1 DEF HoldsInv
  <2> QED
    BY <1>5, <2>1 DEF HoldsInv
<1>8. ListsInv(J, D, W, T, Kept', Off)
  BY <1>6, ListsLess
<1>9. HoldsInv(J, D, W, T, Held', astray)
  BY <1>7, HoldsLess
<1>10. PendingInv'
  <2>1. PendingInv
    BY DEF SharedInv
  <2> QED
    BY <1>1, <2>1 DEF PendingInv
<1> QED
  BY <1>1, <1>2, <1>8, <1>9, <1>10 DEF SharedInv

\* The lists of a handler, as far as the proofs need to know.
LEMMA WritesType ==
    ASSUME TypeOK
    PROVE  \A g \in Handlers :
              /\ writes[g] \in Seq(Seq(Job)) /\ Len(writes[g]) \in Nat
              /\ writes[g] = <<>> <=> Len(writes[g]) = 0
<1> SUFFICES ASSUME NEW g \in Handlers
             PROVE  /\ writes[g] \in Seq(Seq(Job)) /\ Len(writes[g]) \in Nat
                    /\ writes[g] = <<>> <=> Len(writes[g]) = 0
  OBVIOUS
<1>1. writes[g] \in Seq(Seq(Job))
  BY DEF TypeOK
<1> QED
  BY <1>1, EmptySeq

\* A handler that has read the store and sets out to write sound lists.
LEMMA SharedWork ==
    ASSUME TypeOK, NEW h \in Handlers, SharedInv, stage[h] # "writing",
           NEW ws \in Seq(Seq(Job)), NEW ans, Work(h, ws, ans),
           call' = call, created \subseteq created', ans \in created' \union {NoJob, Failed},
           astray \subseteq astray', requeued \subseteq requeued',
           Len(ws) <= 2, \A k \in 1..Len(ws) : Sound(ws[k], disk, Kept, Off'),
           Len(ws) = 2 => Sound(ws[2], ws[1], Kept, Off'),
           \A e \in Held' \ astray' : \A k \in 1..Len(ws) : Mine(ws[k], e),
           ws = <<>> => ans \in {NoJob, Failed},
           call[h].kind = "claim" /\ ans \notin {NoJob, Failed} => Mine(ws[Len(ws)], ans),
           call[h].kind = "result" /\ ans \notin {NoJob, Failed} => Len(ws) = 1 /\ EndedIn(ws[1], ans)
    PROVE  SharedInv'
<1>1. /\ jobs' = jobs /\ disk' = disk /\ acked' = acked /\ rpc' = rpc /\ rjob' = rjob
      /\ awaited' = awaited
  BY DEF Work, runnerVars
<1>2. stage'[h] = "writing" /\ writes'[h] = ws /\ answer'[h] = ans /\ ~ stale'[h]
  BY DEF Work, TypeOK
<1>3. ASSUME NEW g \in Handlers, g # h
      PROVE  /\ stage'[g] = stage[g] /\ writes'[g] = writes[g] /\ answer'[g] = answer[g]
             /\ stale'[g] = stale[g]
  BY <1>3 DEF Work, TypeOK
<1>4. Off \subseteq Off'
  BY OffGrows
<1>5. \A k : Answering(k)' = Answering(k)
  <2> SUFFICES ASSUME NEW k, NEW g \in Handlers
               PROVE  g \in Answering(k)' <=> g \in Answering(k)
    BY DEF Answering
  <2>1. CASE g = h
    BY <1>2, <2>1 DEF Answering
  <2>2. CASE g # h
    BY <1>1, <1>3, <2>2 DEF Answering
  <2> QED
    BY <2>1, <2>2
<1>6. \A g \in Reporting' : g \in Reporting /\ g # h
  BY <1>2, <1>3 DEF Reporting
<1>7. Kept' = Kept
  <2>1. \A g \in Answering("result") : answer'[g] = answer[g]
    BY <1>3 DEF Answering
  <2> QED
    BY <1>1, <1>5, <2>1 DEF Kept
<1>8. Held' \subseteq Held
  <2>1. \A g \in Answering("claim") : answer'[g] = answer[g]
    BY <1>3 DEF Answering
  <2> QED
    BY <1>1, <1>5, <1>6, <2>1 DEF Held
<1>9. PICK J, D, W, V, S, T, o, y : J = jobs /\ D = disk /\ W = writes /\ V = writes' /\ S = stale
                               /\ T = stale' /\ o = Off' /\ y = astray'
  OBVIOUS
<1>10. ListsInv(J, D, W, S, Kept, o) /\ HoldsInv(J, D, W, S, Held', y)
  <2>1. ListsInv(J, D, W, S, Kept, Off) /\ HoldsInv(J, D, W, S, Held, astray)
    BY <1>9 DEF SharedInv
  <2> QED
    BY <1>4, <1>8, <1>9, <2>1, ListsLess, HoldsLess
<1>11. ListsInv(J, D, V, T, Kept, o)
  BY <1>2, <1>3, <1>9, <1>10 DEF ListsInv
<1>12. HoldsInv(J, D, V, T, Held', y)
  BY <1>2, <1>3, <1>9, <1>10 DEF HoldsInv
<1>13. IdsInv'
  BY <1>1, <1>2, <1>3 DEF SharedInv, IdsInv
<1>14. StageInv'
  BY <1>2, <1>3 DEF SharedInv, StageInv
<1>15. WaitInv'
  BY <1>1, <1>6 DEF SharedInv, WaitInv
<1>16. PendingInv'
  <2>1. PendingInv
    BY DEF SharedInv
  <2> SUFFICES ASSUME NEW g \in Handlers,
                      stage'[g] = "writing", ~ stale'[g], writes'[g] # <<>>,
                      answer'[g] \notin {NoJob, Failed}
               PROVE  /\ call'[g].kind = "claim" /\ answer'[g] \notin astray' =>
                            Mine(writes'[g][Len(writes'[g])], answer'[g])
                      /\ call'[g].kind = "result" /\ answer'[g] \notin Off' =>
                            Len(writes'[g]) = 1 /\ EndedIn(writes'[g][1], answer'[g])
    BY DEF PendingInv
  <2>2. CASE g = h
    BY <1>2, <2>2
  <2>3. CASE g # h
    BY <1>3, <1>4, <2>1, <2>3 DEF PendingInv
  <2> QED
    BY <2>2, <2>3
<1> QED
  BY <1>1, <1>7, <1>9, <1>11, <1>12, <1>13, <1>14, <1>15, <1>16 DEF SharedInv

\* The same for a handler that writes one list.
LEMMA SharedWorkOne ==
    ASSUME TypeOK, NEW h \in Handlers, SharedInv, stage[h] # "writing",
           NEW u \in Seq(Job), NEW ans, Work(h, <<u>>, ans),
           call' = call, created \subseteq created', ans \in created' \union {NoJob, Failed},
           astray \subseteq astray', requeued \subseteq requeued',
           Sound(u, disk, Kept, Off'),
           \A e \in Held' \ astray' : Mine(u, e),
           call[h].kind # "claim",
           call[h].kind = "result" => EndedIn(u, ans)
    PROVE  SharedInv'
<1>1. PICK ws : ws = <<u>>
  OBVIOUS
<1>2. ws \in Seq(Seq(Job)) /\ Len(ws) = 1 /\ ws[1] = u
  BY <1>1
<1>3. Len(ws) <= 2 /\ Len(ws) # 2 /\ ws # <<>> /\ \A k \in 1..Len(ws) : ws[k] = u
  <2>1. \A n : n = 1 => n <= 2 /\ n # 2 /\ n # 0
    OBVIOUS
  <2>2. \A k \in 1..1 : k = 1
    OBVIOUS
  <2> QED
    BY <1>2, <2>1, <2>2, EmptySeq
<1>4. Work(h, ws, ans)
  BY <1>1
<1>5. /\ \A k \in 1..Len(ws) : Sound(ws[k], disk, Kept, Off')
      /\ \A e \in Held' \ astray' : \A k \in 1..Len(ws) : Mine(ws[k], e)
  BY <1>3
<1> QED
  BY <1>2, <1>3, <1>4, <1>5, SharedWork

\* What a handler that reads the store may rely on.
LEMMA Read ==
    ASSUME JobsInv, SharedInv, astray \subseteq astray', requeued \subseteq requeued'
    PROVE  /\ Good(jobs, created, requeued) /\ Good(disk, created, requeued) /\ disk \in Seq(Job)
           /\ Sound(jobs, disk, Kept, Off')
           /\ \A e \in Held \ astray : Mine(jobs, e)
<1>1. Sound(jobs, disk, Kept, Off)
  BY DEF SharedInv, ListsInv
<1>2. Sound(jobs, disk, Kept, Off')
  BY <1>1, OffGrows, SoundLess
<1>3. \A e \in Held \ astray : Mine(jobs, e)
  BY DEF SharedInv, HoldsInv
<1> QED
  BY <1>2, <1>3, GoodLists DEF JobsInv, TypeOK

\* A handler that sets out to write leaves nobody more to hold, and has no
\* report any more.
LEMMA WorkHeld ==
    ASSUME TypeOK, NEW h \in Handlers, NEW ws, NEW ans, Work(h, ws, ans), call' = call,
           stage[h] # "writing", ws = <<>> => ans \in {NoJob, Failed}
    PROVE  \A e \in Held' :
              /\ e \in Held
              /\ \/ e = rjob /\ rpc \in {"claimed", "starting", "executing"}
                 \/ \E g \in Answering("claim") : answer[g] = e
                 \/ \E g \in Reporting : g # h /\ call[g].id = e
<1>1. rpc' = rpc /\ rjob' = rjob /\ awaited' = awaited
  BY DEF Work, runnerVars
<1>2. stage'[h] = "writing" /\ writes'[h] = ws /\ answer'[h] = ans
  BY DEF Work, TypeOK
<1>3. ASSUME NEW g \in Handlers, g # h
      PROVE  /\ stage'[g] = stage[g] /\ writes'[g] = writes[g] /\ answer'[g] = answer[g]
             /\ stale'[g] = stale[g]
  BY <1>3 DEF Work, TypeOK
<1>4. \A g \in Reporting' : g \in Reporting /\ g # h
  BY <1>2, <1>3 DEF Reporting
<1>5. \A g \in Answering("claim")' : g \in Answering("claim") /\ answer'[g] = answer[g]
  <2> SUFFICES ASSUME NEW g \in Handlers, g \in Answering("claim")'
               PROVE  g \in Answering("claim") /\ answer'[g] = answer[g]
    BY DEF Answering
  <2>1. g # h
    BY <1>2 DEF Answering
  <2> QED
    BY <1>1, <1>3, <2>1 DEF Answering
<1> QED
  BY <1>1, <1>4, <1>5 DEF Held
-------------------------------------------------------------------------------
\* The operator queues a job: its identifier is new to every list.
LEMMA SharedCreate ==
    ASSUME JobsInv, NEW h \in Handlers, SharedInv, CreateJob(h)
    PROVE  SharedInv'
<1>1. PICK b \in JobIds \ created :
         /\ created' = created \union {b}
         /\ Work(h, <<upsertBenchmarkJob(jobs, NewJob(b))>>, b)
  BY DEF CreateJob
<1>2. call' = call /\ astray' = astray /\ requeued' = requeued /\ stage[h] = "free"
  BY DEF CreateJob
<1>3. /\ Good(jobs, created, requeued) /\ Good(disk, created, requeued) /\ disk \in Seq(Job)
      /\ Sound(jobs, disk, Kept, Off')
      /\ \A e \in Held \ astray : Mine(jobs, e)
  BY <1>2, Read
<1>4. PICK n, u : n = NewJob(b) /\ u = upsertBenchmarkJob(jobs, n)
  OBVIOUS
<1>5. n \in Job /\ n.id = b /\ Tidy(n) /\ Unended(n)
  BY <1>4 DEF NewJob, Job, Statuses, StatusReports, SchedulerStates, Absent, Tidy, Unended
<1>6. ~ Has(disk, b)
  BY <1>1, <1>3 DEF Good, Has
<1>7. b \notin Kept
  BY <1>1, ConstantsAssumption DEF SharedInv, IdsInv, Kept, Answering
<1>8. Sound(u, disk, Kept, Off') /\ \A e : Mine(jobs, e) => Mine(u, e)
  BY <1>3, <1>4, <1>5, <1>6, <1>7, UpsertSound
<1>9. u \in Seq(Job)
  BY <1>3, <1>4, <1>5, UpsertElements
<1>10. Work(h, <<u>>, b)
  BY <1>1, <1>4
<1>11. \A e \in Held' \ astray' : Mine(u, e)
  <2>1. <<u>> # <<>>
    BY <1>9
  <2>2. \A e \in Held' : e \in Held
    BY <1>2, <1>10, <2>1, WorkHeld DEF JobsInv
  <2> QED
    BY <1>2, <1>3, <1>8, <2>2
<1>12. call[h].kind = "none"
  BY <1>2 DEF SharedInv, StageInv
<1> QED
  BY <1>1, <1>2, <1>8, <1>9, <1>10, <1>11, <1>12, SharedWorkOne DEF JobsInv

\* The scheduler, and a handler that writes the jobs back as it read them.
LEMMA SharedReconcile ==
    ASSUME JobsInv, NEW h \in Handlers, SharedInv, ReconcileJobs(h) \/ UpdateNode(h)
    PROVE  SharedInv'
<1>1. PICK u : Work(h, <<u>>, NoJob) /\ (u = jobs \/ u = Reconciled(jobs))
  BY DEF ReconcileJobs, UpdateNode
<1>2. call' = call /\ created' = created /\ astray' = astray /\ requeued' = requeued /\ stage[h] = "free"
  BY DEF ReconcileJobs, UpdateNode
<1>3. /\ Good(jobs, created, requeued) /\ disk \in Seq(Job)
      /\ Sound(jobs, disk, Kept, Off')
      /\ \A e \in Held \ astray : Mine(jobs, e)
  BY <1>2, Read
<1>4. Sound(u, disk, Kept, Off') /\ \A e : Mine(jobs, e) => Mine(u, e)
  BY <1>1, <1>3, ReconciledSound
<1>5. u \in Seq(Job)
  <2>1. Good(u, created, requeued)
    BY <1>1, <1>3, ReconciledGood
  <2> QED
    BY <2>1 DEF Good
<1>6. \A e \in Held' \ astray' : Mine(u, e)
  <2>1. <<u>> # <<>>
    BY <1>5
  <2>2. \A e \in Held' : e \in Held
    BY <1>1, <1>2, <2>1, WorkHeld DEF JobsInv
  <2> QED
    BY <1>2, <1>3, <1>4, <2>2
<1>7. call[h].kind = "none"
  BY <1>2 DEF SharedInv, StageInv
<1> QED
  BY <1>1, <1>2, <1>4, <1>5, <1>6, <1>7, SharedWorkOne DEF JobsInv

\* A claim: the job it answers with becomes its runner's, and stays that of
\* whoever held it before.
LEMMA SharedClaim ==
    ASSUME JobsInv, NEW h \in Handlers, SharedInv, ClaimJob(h)
    PROVE  SharedInv'
<1>1. PICK t, first : t = Reconciled(jobs) /\ first = IF ReconcileChanges(jobs) THEN <<t>> ELSE <<>>
  OBVIOUS
<1>2. /\ call' = call /\ created' = created /\ astray' = astray /\ requeued' = requeued
      /\ stage[h] # "writing" /\ call[h].kind = "claim"
  BY DEF ClaimJob
<1>3. /\ Good(jobs, created, requeued) /\ disk \in Seq(Job)
      /\ Sound(jobs, disk, Kept, Off')
      /\ \A e \in Held \ astray : Mine(jobs, e)
  BY <1>2, Read
<1>4. /\ Good(t, created, requeued) /\ t \in Seq(Job)
      /\ Sound(t, disk, Kept, Off')
      /\ \A e \in Held \ astray : Mine(t, e)
  <2>1. Good(t, created, requeued)
    BY <1>1, <1>3, ReconciledGood
  <2>2. Sound(t, disk, Kept, Off') /\ \A e : Mine(jobs, e) => Mine(t, e)
    BY <1>1, <1>3, ReconciledSound
  <2>3. t \in Seq(Job)
    BY <2>1 DEF Good
  <2> QED
    BY <1>3, <2>1, <2>2, <2>3
<1>6. /\ first \in Seq(Seq(Job)) /\ Len(first) <= 1
      /\ \A k \in 1..Len(first) : first[k] = t
  <2>1. <<t>> \in Seq(Seq(Job)) /\ Len(<<t>>) = 1 /\ <<t>>[1] = t
    BY <1>4
  <2>2. <<>> \in Seq(Seq(Job)) /\ Len(<<>>) = 0
    OBVIOUS
  <2> QED
    BY <1>1, <2>1, <2>2
<1>7. ASSUME NEW i \in 1..Len(t), NextQueued(t, i),
             Work(h, Append(first, upsertBenchmarkJob(t, ClaimedJob(t[i]))), t[i].id)
      PROVE  SharedInv'
  <2>1. t[i] \in Job /\ t[i].status = "queued" /\ t[i].id \in created
    BY <1>4, <1>7 DEF Good, NextQueued, Claimable
  <2>a. t[i].id \notin Off' => Tidy(t[i])
    BY <1>4 DEF Sound
  <2>2. PICK n, u : n = ClaimedJob(t[i]) /\ u = upsertBenchmarkJob(t, n)
    OBVIOUS
  <2>3. n \in Job /\ n.id = t[i].id /\ (Tidy(t[i]) => Later(t[i], n)) /\ Tidy(n) /\ Unended(n)
    BY <2>1, <2>2, ClaimFollows, ClaimLater DEF Follows
  <2>b. n.id \in Off' \/ (Tidy(n) /\ \E y \in 1..Len(t) : Later(t[y], n))
    BY <2>3, <2>a
  <2>4. Sound(u, disk, Kept, Off') /\ Mine(u, n.id) /\ \A e : Mine(t, e) => Mine(u, e)
    BY <1>3, <1>4, <2>2, <2>3, <2>b, UpsertSound
  <2>c. Sound(t, t, Kept, Off')
    BY <1>4, SoundSelf
  <2>5. Sound(u, t, Kept, Off')
    BY <1>4, <2>2, <2>3, <2>b, <2>c, UpsertSound
  <2>7. u \in Seq(Job)
    BY <1>4, <2>2, <2>3, UpsertElements
  <2>8. PICK ws : ws = Append(first, u)
    OBVIOUS
  <2>9. /\ ws \in Seq(Seq(Job)) /\ Len(ws) = Len(first) + 1 /\ ws[Len(ws)] = u
        /\ \A k \in 1..Len(first) : ws[k] = t
        /\ Len(first) \in Nat
    BY <1>6, <2>7, <2>8
  <2>d. \A k \in 1..Len(ws) : ws[k] = u \/ ws[k] = t
    BY <2>9
  <2>10. Len(ws) <= 2 /\ ws # <<>> /\ \A k \in 1..Len(ws) : Sound(ws[k], disk, Kept, Off')
    <3>2. Len(ws) <= 2 /\ Len(ws) # 0
      BY <1>6, <2>9
    <3> QED
      BY <1>4, <2>4, <2>d, <3>2
  <2>11. Len(ws) = 2 => Sound(ws[2], ws[1], Kept, Off')
    <3>1. ASSUME Len(ws) = 2 PROVE ws[2] = u /\ ws[1] = t
      <4>1. Len(first) = 1
        <5>1. \A m \in Nat : m + 1 = 2 => m = 1
          OBVIOUS
        <5> QED
          BY <2>9, <3>1, <5>1
      <4>2. ws[2] = u
        BY <2>9, <3>1
      <4>3. 1 \in 1..Len(first)
        BY <4>1
      <4> QED
        BY <2>9, <4>2, <4>3
    <3> QED
      BY <2>5, <3>1
  <2>12. Work(h, ws, t[i].id) /\ Mine(ws[Len(ws)], t[i].id)
    BY <1>7, <2>2, <2>3, <2>4, <2>8, <2>9
  <2>13. \A e \in Held' \ astray' : \A k \in 1..Len(ws) : Mine(ws[k], e)
    <3>1. \A e \in Held' : e \in Held
      BY <1>2, <2>10, <2>12, WorkHeld DEF JobsInv
    <3>2. \A e \in Held' \ astray' : Mine(t, e) /\ Mine(u, e)
      BY <1>2, <1>4, <2>4, <3>1
    <3> QED
      BY <2>d, <3>2
  <2> QED
    BY <1>2, <2>1, <2>9, <2>10, <2>11, <2>12, <2>13, SharedWork DEF JobsInv
<1>8. CASE Work(h, first, NoJob)
  <2>1. \A k \in 1..Len(first) : Sound(first[k], disk, Kept, Off')
    BY <1>4, <1>6
  <2>2. Len(first) \in Nat
    BY <1>6
  <2>3. Len(first) <= 2 /\ Len(first) # 2
    <3>1. \A n \in Nat : n <= 1 => n <= 2 /\ n # 2
      OBVIOUS
    <3> QED
      BY <1>6, <2>2, <3>1
  <2>4. \A e \in Held' \ astray' : \A k \in 1..Len(first) : Mine(first[k], e)
    <3>1. \A e \in Held' : e \in Held
      BY <1>2, <1>8, WorkHeld DEF JobsInv
    <3> QED
      BY <1>2, <1>4, <1>6, <3>1
  <2> QED
    BY <1>2, <1>6, <1>8, <2>1, <2>3, <2>4, SharedWork DEF JobsInv
<1> QED
  BY <1>1, <1>7, <1>8 DEF ClaimJob

\* What a report that is not overtaken finds: the job is its sender's, and is
\* held by nobody else, unless the sender has only begun with it.
LEMMA ReportHeld ==
    ASSUME JobsInv, NEW h \in Handlers, SharedInv, JobStatus(h) \/ JobResult(h),
           NEW ws, NEW ans, Work(h, ws, ans), ws = <<>> => ans \in {NoJob, Failed}
    PROVE  /\ astray \subseteq astray' /\ requeued \subseteq requeued'
           /\ call[h].id \notin astray' => call[h].id \in Held \ astray
           /\ \A e \in Held' \ astray' :
                 /\ e \in Held \ astray
                 /\ e = call[h].id => call[h].kind = "status" /\ call[h].status = "running"
<1>1. /\ call' = call /\ created' = created /\ Reports(h) /\ stage[h] = "received"
      /\ call[h].kind \in {"status", "result"}
  BY DEF JobStatus, JobResult
<1>2. astray \subseteq astray' /\ requeued \subseteq requeued' /\ (stale[h] => call[h].id \in astray')
  BY <1>1 DEF Reports
<1>3. ASSUME ~ stale[h] PROVE h \in Reporting
  BY <1>1, <1>3 DEF Reporting
<1>4. call[h].id \in JobIds
  BY <1>1 DEF JobsInv, CallsOK
<1>5. call[h].id \notin astray' => call[h].id \in Held \ astray
  BY <1>2, <1>3, <1>4 DEF Held
<1>6. \A e \in Held' :
              /\ e \in Held
              /\ \/ e = rjob /\ rpc \in {"claimed", "starting", "executing"}
                 \/ \E g \in Answering("claim") : answer[g] = e
                 \/ \E g \in Reporting : g # h /\ call[g].id = e
  BY <1>1, WorkHeld DEF JobsInv
<1>7. ASSUME NEW e \in Held' \ astray', e = call[h].id
      PROVE  call[h].kind = "status" /\ call[h].status = "running"
  <2>1. h \in Reporting
    BY <1>2, <1>3, <1>7
  <2>2. \A g \in Reporting : g = h
    BY <2>1 DEF SharedInv, WaitInv
  <2>3. ASSUME NEW g \in Answering("claim") PROVE FALSE
    <3>1. awaited[g] /\ stage[g] = "writing" /\ call[g].kind = "claim" /\ g \in Handlers
      BY <2>3 DEF Answering
    <3>2. rpc = "claiming"
      BY <3>1 DEF SharedInv, WaitInv
    <3>3. awaited[h]
      BY <2>1, <3>2 DEF SharedInv, WaitInv
    <3>4. g = h
      BY <3>1, <3>3 DEF SharedInv, WaitInv
    <3> QED
      BY <1>1, <3>1, <3>4
  <2>4. rpc \in {"claimed", "starting", "executing"}
    BY <1>6, <1>7, <2>2, <2>3
  <2>5. awaited[h]
    BY <2>1, <2>4 DEF SharedInv, WaitInv
  <2> QED
    BY <2>4, <2>5 DEF SharedInv, WaitInv
<1> QED
  BY <1>2, <1>5, <1>6, <1>7

\* A status report.
LEMMA SharedStatus ==
    ASSUME JobsInv, NEW h \in Handlers, SharedInv, JobStatus(h)
    PROVE  SharedInv'
<1>1. PICK b, s : b = call[h].id /\ s = call[h].status
  OBVIOUS
<1>2. /\ call' = call /\ created' = created /\ Reports(h) /\ stage[h] = "received"
      /\ call[h].kind = "status"
  BY DEF JobStatus
<1>3. s \in StatusReports /\ b \in created
  BY <1>1, <1>2 DEF JobsInv, CallsOK, SharedInv, IdsInv
<1>4. astray \subseteq astray' /\ requeued \subseteq requeued' /\ (s = "queued" => b \in requeued')
  BY <1>1, <1>2 DEF Reports, Requeues
<1>5. /\ Good(jobs, created, requeued) /\ disk \in Seq(Job)
      /\ Sound(jobs, disk, Kept, Off')
      /\ \A e \in Held \ astray : Mine(jobs, e)
  BY <1>4, Read
<1>6. CASE Has(jobs, b)
  <2>1. PICK i \in 1..Len(jobs) : jobs[i] = findBenchmarkJob(jobs, b) /\ jobs[i].id = b /\ jobs[i] \in Job
    BY <1>5, <1>6, Found
  <2>2. PICK n, u : n = StatusJob(jobs[i], s) /\ u = upsertBenchmarkJob(jobs, n)
    OBVIOUS
  <2>3. n \in Job /\ n.id = b
    BY <1>3, <2>1, <2>2, StatusFollows DEF Follows
  <2>6. u \in Seq(Job)
    BY <1>5, <2>2, <2>3, UpsertElements
  <2>7. Work(h, <<u>>, b)
    BY <1>1, <1>6, <2>1, <2>2 DEF JobStatus
  <2>8. <<u>> # <<>>
    BY <2>6
  <2>9. /\ b \notin astray' => b \in Held \ astray
        /\ \A e \in Held' \ astray' :
              /\ e \in Held \ astray
              /\ e = b => s = "running"
    BY <1>1, <2>7, <2>8, ReportHeld
  <2>10. ASSUME b \notin Off' PROVE Tidy(n) /\ Later(jobs[i], n)
    <3>1. b \notin astray' /\ s # "queued"
      BY <1>4, <2>10 DEF Off
    <3>2. jobs[i].state # "terminal"
      BY <1>5, <2>1, <2>9, <3>1 DEF Mine, Unended
    <3> QED
      BY <1>3, <2>1, <2>2, <3>1, <3>2, StatusLater
  <2>11. s = "running" => Unended(n)
    BY <1>3, <2>1, <2>2, StatusLater
  <2>12. /\ Sound(u, disk, Kept, Off')
         /\ \A e : Mine(jobs, e) /\ (e # n.id \/ Unended(n)) => Mine(u, e)
    BY <1>5, <2>2, <2>3, <2>10, UpsertSound
  <2>13. \A e \in Held' \ astray' : Mine(u, e)
    BY <1>5, <2>3, <2>9, <2>11, <2>12
  <2> QED
    BY <1>2, <1>3, <1>4, <2>6, <2>7, <2>12, <2>13, SharedWorkOne DEF JobsInv
<1>7. CASE ~ Has(jobs, b)
  <2>1. PICK ws : ws = <<>>
    OBVIOUS
  <2>2. Work(h, ws, Failed)
    BY <1>1, <1>7, <2>1 DEF JobStatus
  <2>3. ws \in Seq(Seq(Job)) /\ Len(ws) = 0
    BY <2>1
  <2>4. Len(ws) <= 2 /\ Len(ws) # 2 /\ 1..Len(ws) = {}
    BY <2>3
  <2> QED
    BY <1>2, <1>4, <2>2, <2>3, <2>4, SharedWork DEF JobsInv
<1> QED
  BY <1>6, <1>7

\* A result: what will be acknowledged has ended in the list that is written.
LEMMA SharedResult ==
    ASSUME JobsInv, NEW h \in Handlers, SharedInv, JobResult(h)
    PROVE  SharedInv'
<1>1. PICK b, s : b = call[h].id /\ s = call[h].status
  OBVIOUS
<1>2. /\ call' = call /\ created' = created /\ Reports(h) /\ stage[h] = "received"
      /\ call[h].kind = "result"
  BY DEF JobResult
<1>3. s \in Statuses /\ b \in created
  BY <1>1, <1>2 DEF JobsInv, CallsOK, SharedInv, IdsInv
<1>4. astray \subseteq astray' /\ requeued \subseteq requeued' /\ (s \in {"queued", "running"} => b \in requeued')
  BY <1>1, <1>2 DEF Reports, Requeues
<1>5. /\ Good(jobs, created, requeued) /\ disk \in Seq(Job)
      /\ Sound(jobs, disk, Kept, Off')
      /\ \A e \in Held \ astray : Mine(jobs, e)
  BY <1>4, Read
<1>6. PICK u : /\ Work(h, <<u>>, b) /\ u \in Seq(Job)
               /\ (b \in Off' \/ b \in Held \ astray) => Sound(u, disk, Kept, Off')
               /\ EndedIn(u, b)
               /\ \A e : Mine(jobs, e) /\ e # b => Mine(u, e)
  <2>1. CASE Has(jobs, b)
    <3>1. PICK i \in 1..Len(jobs) : jobs[i] = findBenchmarkJob(jobs, b) /\ jobs[i].id = b /\ jobs[i] \in Job
      BY <1>5, <2>1, Found
    <3>2. PICK n, u : n = ResultJob(jobs[i], s) /\ u = upsertBenchmarkJob(jobs, n)
      OBVIOUS
    <3>3. n \in Job /\ n.id = b /\ n.state = "terminal"
      BY <1>3, <3>1, <3>2, ResultFollows, ResultLater DEF Follows
    <3>4. Work(h, <<u>>, b)
      BY <1>1, <2>1, <3>1, <3>2 DEF JobResult
    <3>5. u \in Seq(Job)
      BY <1>5, <3>2, <3>3, UpsertElements
    <3>6. \A k \in 1..Len(u) : u[k] = n \/ (u[k].id # n.id /\ \E y \in 1..Len(jobs) : u[k] = jobs[y])
      BY <1>5, <3>2, <3>3, UpsertElements
    <3>7. EndedIn(u, b) /\ \A e : Mine(jobs, e) /\ e # b => Mine(u, e)
      BY <3>3, <3>6 DEF EndedIn, Mine
    <3>8. ASSUME b \in Off' \/ b \in Held \ astray PROVE Sound(u, disk, Kept, Off')
      <4>1. ASSUME b \notin Off' PROVE Tidy(n) /\ Later(jobs[i], n)
        <5>1. s \notin {"queued", "running"}
          BY <1>4, <4>1 DEF Off
        <5>2. jobs[i].state # "terminal"
          BY <1>5, <3>1, <3>8, <4>1 DEF Mine, Unended
        <5> QED
          BY <1>3, <3>1, <3>2, <5>1, <5>2, ResultLater
      <4> QED
        BY <1>5, <3>2, <3>3, <4>1, UpsertSound
    <3> QED
      BY <3>4, <3>5, <3>7, <3>8
  <2>2. CASE ~ Has(jobs, b)
    <3>1. EndedIn(jobs, b) /\ jobs \in Seq(Job)
      BY <1>5, <2>2 DEF EndedIn, Has, Good
    <3>2. Work(h, <<jobs>>, b)
      BY <1>1, <2>2 DEF JobResult
    <3> QED
      BY <1>5, <3>1, <3>2
  <2> QED
    BY <2>1, <2>2
<1>7. <<u>> # <<>>
  BY <1>6
<1>8. /\ b \notin astray' => b \in Held \ astray
      /\ \A e \in Held' \ astray' : e \in Held \ astray /\ e # b
  BY <1>1, <1>2, <1>6, <1>7, ReportHeld
<1>9. Sound(u, disk, Kept, Off')
  BY <1>6, <1>8 DEF Off
<1>10. \A e \in Held' \ astray' : Mine(u, e)
  BY <1>5, <1>6, <1>8
<1> QED
  BY <1>2, <1>3, <1>4, <1>6, <1>9, <1>10, SharedWorkOne DEF JobsInv
-------------------------------------------------------------------------------
\* What a write does to the handlers: those with something left to write are
\* overtaken, and no report is.
LEMMA WriteOvertakes ==
    ASSUME JobsInv, NEW h \in Handlers, SharedInv, Write(h) \/ WriteUnsaved(h)
    PROVE  /\ jobs' = writes[h][1] /\ 1 \in 1..Len(writes[h]) /\ disk' \in {disk, writes[h][1]}
           /\ UNCHANGED <<created, stage, call, awaited, rpc, rjob, acked, requeued>>
           /\ stage[h] = "writing" /\ writes[h] # <<>> /\ stale'[h] = stale[h]
           /\ \A g \in Handlers : g # h =>
                 /\ writes'[g] = writes[g] /\ answer'[g] = answer[g]
                 /\ ~ stale'[g] => writes[g] = <<>> /\ Len(writes[g]) = 0
           /\ Reporting' = Reporting
<1>1. writes[h] \in Seq(Seq(Job)) /\ writes[h] # <<>> /\ Len(writes[h]) \in Nat /\ stage[h] = "writing"
  BY WritesType DEF JobsInv, Write, WriteUnsaved
<1>2. 1 \in 1..Len(writes[h]) /\ Head(writes[h]) = writes[h][1]
  BY <1>1
<1>3. stale' = [g \in Handlers |-> stale[g] \/ (g # h /\ writes[g] # <<>>)]
  BY DEF Write, WriteUnsaved, Overtakes
<1>4. ASSUME NEW g \in Handlers, g # h
      PROVE  /\ writes'[g] = writes[g] /\ answer'[g] = answer[g]
             /\ stale'[g] <=> (stale[g] \/ writes[g] # <<>>)
  <2>1. writes'[g] = writes[g] /\ answer'[g] = answer[g]
    BY <1>4 DEF Write, WriteUnsaved, JobsInv, TypeOK
  <2> QED
    BY <1>3, <1>4, <2>1
<1>5. stale'[h] = stale[h]
  <2>1. stale[h] \in BOOLEAN
    BY DEF JobsInv, TypeOK
  <2> QED
    BY <1>3, <2>1
<1>6. stage' = stage /\ call' = call
  BY DEF Write, WriteUnsaved
<1>7. ASSUME NEW g \in Handlers
      PROVE  g \in Reporting' <=> g \in Reporting
  <2>1. CASE stage[g] = "received"
    <3>1. writes[g] = <<>> /\ g # h
      BY <1>1, <2>1 DEF SharedInv, StageInv
    <3> QED
      BY <1>4, <1>6, <3>1 DEF Reporting
  <2>2. CASE stage[g] # "received"
    BY <1>6, <2>2 DEF Reporting
  <2> QED
    BY <2>1, <2>2
<1>8. Reporting' = Reporting
  <2>1. Reporting' \subseteq Handlers /\ Reporting \subseteq Handlers
    BY DEF Reporting
  <2> QED
    BY <1>7, <2>1
<1>9. \A g \in Handlers : writes[g] = <<>> => Len(writes[g]) = 0
  OBVIOUS
<1>10. /\ jobs' = writes[h][1] /\ disk' \in {disk, writes[h][1]}
       /\ UNCHANGED <<created, awaited, rpc, rjob, acked, requeued>>
  BY <1>2 DEF Write, WriteUnsaved, Overtakes, runnerVars
<1> QED
  BY <1>1, <1>2, <1>4, <1>5, <1>6, <1>8, <1>9, <1>10

\* The parts of the invariant that are not about lists.
LEMMA WriteKeeps ==
    ASSUME JobsInv, NEW h \in Handlers, SharedInv, Write(h) \/ WriteUnsaved(h)
    PROVE  IdsInv' /\ StageInv' /\ WaitInv'
<1>1. /\ UNCHANGED <<created, stage, call, awaited, rpc, rjob, acked>>
      /\ stage[h] = "writing"
      /\ \A g \in Handlers : g # h => writes'[g] = writes[g] /\ answer'[g] = answer[g]
      /\ Reporting' = Reporting
  BY WriteOvertakes
<1>2. answer'[h] \in {answer[h], Failed}
  BY DEF Write, WriteUnsaved, JobsInv, TypeOK
<1>3. IdsInv'
  BY <1>1, <1>2 DEF SharedInv, IdsInv
<1>4. StageInv'
  BY <1>1 DEF SharedInv, StageInv
<1>5. WaitInv'
  BY <1>1 DEF SharedInv, WaitInv
<1> QED
  BY <1>3, <1>4, <1>5

\* An overtaken write: of the jobs drawn so far nothing is said any more.
LEMMA SharedWriteStale ==
    ASSUME JobsInv, JobsInv', NEW h \in Handlers, SharedInv, Write(h) \/ WriteUnsaved(h), stale[h]
    PROVE  SharedInv'
<1>1. /\ created' = created /\ requeued' = requeued /\ stale'[h]
      /\ \A g \in Handlers : g # h =>
            /\ writes'[g] = writes[g]
            /\ ~ stale'[g] => writes[g] = <<>> /\ Len(writes[g]) = 0
  BY WriteOvertakes
<1>2. astray' = created'
  BY <1>1 DEF Write, WriteUnsaved, Overtakes
<1>3. IdsInv' /\ StageInv' /\ WaitInv'
  BY WriteKeeps
<1>4. Kept' \subseteq created' /\ Held' \subseteq created'
  <2>1. \A k : \A g \in Answering(k)' : answer'[g] \in created'
    BY <1>3 DEF IdsInv, Answering
  <2>2. \A g \in Reporting' : call'[g].id \in created'
    BY <1>3 DEF IdsInv, Reporting
  <2> QED
    BY <1>3, <2>1, <2>2 DEF IdsInv, Kept, Held
<1>5. PICK J, D, V, T, c, r, o, a, b : J = jobs' /\ D = disk' /\ V = writes' /\ T = stale' /\ c = created'
         /\ r = requeued' /\ o = Off' /\ a = Kept' /\ b = Held'
  OBVIOUS
<1>6. Good(J, c, r) /\ Good(D, c, r)
  BY <1>5 DEF JobsInv, TypeOK, JobsInOrder, ListOK, Good
<1>7. c \subseteq o /\ a \subseteq o
  BY <1>2, <1>4, <1>5 DEF Off
<1>8. Sound(J, D, a, o) /\ Sound(D, D, a, o)
  BY <1>6, <1>7, SoundOff
<1>9. \A g \in Handlers : ~ T[g] => V[g] = <<>> /\ Len(V[g]) = 0
  BY <1>1, <1>5
<1>10. ListsInv(J, D, V, T, a, o)
  <2>1. ASSUME NEW g \in Handlers, ~ T[g]
        PROVE  Len(V[g]) <= 2 /\ Len(V[g]) # 2 /\ 1..Len(V[g]) = {}
    <3>1. PICK n : n = Len(V[g])
      OBVIOUS
    <3>2. n = 0
      BY <1>9, <2>1, <3>1
    <3>3. n <= 2 /\ n # 2 /\ 1..n = {}
      BY ONLY <3>2
    <3> QED
      BY <3>1, <3>3
  <2> QED
    BY <1>8, <2>1 DEF ListsInv
<1>11. HoldsInv(J, D, V, T, b, astray')
  BY <1>2, <1>4, <1>5 DEF HoldsInv
<1>12. PendingInv'
  BY <1>5, <1>9 DEF PendingInv
<1> QED
  BY <1>3, <1>5, <1>10, <1>11, <1>12 DEF SharedInv

\* A write of a current copy that is saved: what the handler has left to write
\* may replace it, and a job it will answer with is as the answer says.
LEMMA SharedWrite ==
    ASSUME JobsInv, NEW h \in Handlers, SharedInv, Write(h), ~ stale[h]
    PROVE  SharedInv'
<1>1. PICK W, T, J, D, a, o, y, b :
         /\ W = writes[h] /\ T = Tail(W) /\ J = W[1] /\ D = disk
         /\ a = Kept /\ o = Off /\ y = astray /\ b = Held
  OBVIOUS
<1>2. /\ jobs' = J /\ 1 \in 1..Len(W)
      /\ UNCHANGED <<created, stage, call, awaited, rpc, rjob, acked, requeued>>
      /\ stage[h] = "writing" /\ W # <<>> /\ ~ stale'[h]
      /\ \A g \in Handlers : g # h =>
            /\ writes'[g] = writes[g] /\ answer'[g] = answer[g]
            /\ ~ stale'[g] => writes[g] = <<>> /\ Len(writes[g]) = 0
      /\ Reporting' = Reporting
  BY <1>1, WriteOvertakes
<1>3. W \in Seq(Seq(Job)) /\ Len(W) \in Nat
  BY <1>1, WritesType DEF JobsInv
<1>4. disk' = J /\ writes'[h] = T /\ answer' = answer /\ astray' = y /\ Off' = o
  <2>1. Head(W) = J
    BY <1>1, <1>2, <1>3
  <2> QED
    BY <1>1, <2>1 DEF Write, Overtakes, JobsInv, TypeOK, Off
<1>5. ListsInv(jobs, D, writes, stale, a, o) /\ HoldsInv(jobs, D, writes, stale, b, y)
  BY <1>1 DEF SharedInv
<1>6. /\ Len(W) <= 2
      /\ \A k \in 1..Len(W) : Sound(W[k], D, a, o)
      /\ Len(W) = 2 => Sound(W[2], J, a, o)
  BY <1>1, <1>5 DEF ListsInv
<1>7. \A e \in b \ y : \A k \in 1..Len(W) : Mine(W[k], e)
  BY <1>1, <1>5 DEF HoldsInv
<1>8. \/ Len(W) = 1 /\ T = <<>> /\ Len(T) = 0
      \/ Len(W) = 2 /\ Len(T) = 1 /\ T # <<>> /\ T[1] = W[2]
  <2>1. T \in Seq(Seq(Job)) /\ Len(T) = Len(W) - 1 /\ (Len(W) = 2 => T[1] = W[2])
    BY <1>1, <1>2, <1>3
  <2>2. Len(W) = 1 \/ Len(W) = 2
    <3>1. \A n \in Nat : 1 \in 1..n /\ n <= 2 => n = 1 \/ n = 2
      OBVIOUS
    <3> QED
      BY <1>2, <1>3, <1>6, <3>1
  <2> QED
    BY <2>1, <2>2, EmptySeq
<1>9. answer[h] \notin {NoJob, Failed} =>
          /\ call[h].kind = "claim" /\ answer[h] \notin y => Mine(W[Len(W)], answer[h])
          /\ call[h].kind = "result" /\ answer[h] \notin o => Len(W) = 1 /\ EndedIn(J, answer[h])
  BY <1>1, <1>2 DEF SharedInv, PendingInv
<1>10. ASSUME NEW k, NEW g \in Answering(k)'
       PROVE  /\ g \in Handlers /\ answer'[g] = answer[g]
              /\ \/ g \in Answering(k)
                 \/ g = h /\ T = <<>> /\ call[h].kind = k /\ answer[h] \notin {NoJob, Failed}
  BY <1>2, <1>4, <1>10 DEF Answering
<1>11. ASSUME NEW e \in Kept' \ o
       PROVE  e \in a \/ (Len(W) = 1 /\ EndedIn(J, e))
  BY <1>1, <1>2, <1>9, <1>10, <1>11 DEF Kept
<1>12. ASSUME NEW e \in Held' \ y
       PROVE  e \in b \/ (Len(W) = 1 /\ Mine(J, e))
  <2>1. CASE e \in b
    BY <2>1
  <2>2. CASE \E g \in Answering("claim")' : answer'[g] = e /\ g \notin Answering("claim")
    <3>1. T = <<>> /\ call[h].kind = "claim" /\ answer[h] = e /\ e \notin {NoJob, Failed}
      BY <1>10, <2>2
    <3>2. Len(W) = 1 /\ W[Len(W)] = J
      BY <1>1, <1>8, <3>1
    <3> QED
      BY <1>9, <1>12, <3>1, <3>2
  <2>3. \A g \in Answering("claim")' : answer'[g] = e /\ g \in Answering("claim") => e \in b
    BY <1>1, <1>10, <1>12 DEF Held
  <2>4. e = rjob /\ rpc \in {"claimed", "starting", "executing"} => e \in b
    BY <1>1, <1>2, <1>12 DEF Held
  <2>5. \A g \in Reporting : call[g].id = e => e \in b
    BY <1>1, <1>2, <1>12 DEF Held
  <2> QED
    BY <1>2, <1>12, <2>2, <2>3, <2>4, <2>5 DEF Held
<1>13. Sound(J, J, a, o)
  <2>1. Good(J, created, requeued)
    BY <1>1, <1>2, GoodLists DEF JobsInv
  <2> QED
    BY <1>1, <1>2, <1>6, <2>1, SoundSelf
<1>14. Sound(J, J, Kept', o)
  BY <1>11, <1>13 DEF Sound
<1>15. PICK V, S : V = writes' /\ S = stale'
  OBVIOUS
<1>16. ListsInv(J, J, V, S, Kept', o)
  <2>1. ASSUME NEW g \in Handlers, ~ S[g]
        PROVE  /\ Len(V[g]) <= 2
               /\ \A k \in 1..Len(V[g]) : Sound(V[g][k], J, Kept', o)
               /\ Len(V[g]) = 2 => Sound(V[g][2], V[g][1], Kept', o)
    <3>1. CASE g # h \/ Len(W) = 1
      <4>1. Len(V[g]) = 0
        BY <1>2, <1>4, <1>8, <1>15, <2>1, <3>1
      <4> QED
        BY <4>1
    <3>2. CASE g = h /\ Len(W) = 2
      <4>1. V[g] = T /\ Len(T) = 1 /\ T[1] = W[2]
        BY <1>4, <1>8, <1>15, <3>2
      <4>2. Sound(W[2], J, Kept', o)
        BY <1>6, <1>11, <3>2 DEF Sound
      <4>3. \A k \in 1..1 : k = 1
        OBVIOUS
      <4> QED
        BY <4>1, <4>2, <4>3
    <3> QED
      BY <1>8, <3>1, <3>2
  <2> QED
    BY <1>14, <2>1 DEF ListsInv
<1>17. HoldsInv(J, J, V, S, Held', y)
  <2> SUFFICES ASSUME NEW e \in Held' \ y
               PROVE  /\ Mine(J, e)
                      /\ \A g \in Handlers : ~ S[g] => \A k \in 1..Len(V[g]) : Mine(V[g][k], e)
    BY DEF HoldsInv
  <2>1. Mine(J, e) /\ (Len(W) = 2 => Mine(W[2], e))
    <3>1. e \in b => Mine(J, e) /\ (Len(W) = 2 => Mine(W[2], e))
      BY <1>1, <1>2, <1>7
    <3> QED
      BY <1>12, <3>1
  <2>2. ASSUME NEW g \in Handlers, ~ S[g], NEW k \in 1..Len(V[g])
        PROVE  Mine(V[g][k], e)
    <3>1. CASE g # h \/ Len(W) = 1
      <4>1. Len(V[g]) = 0
        BY <1>2, <1>4, <1>8, <1>15, <2>2, <3>1
      <4> QED
        BY <2>2, <4>1
    <3>2. CASE g = h /\ Len(W) = 2
      <4>1. V[g] = T /\ Len(T) = 1 /\ T[1] = W[2]
        BY <1>4, <1>8, <1>15, <3>2
      <4>2. k = 1
        BY <2>2, <4>1
      <4> QED
        BY <2>1, <3>2, <4>1, <4>2
    <3> QED
      BY <1>8, <3>1, <3>2
  <2> QED
    BY <2>1, <2>2
<1>18. PendingInv'
  <2> SUFFICES ASSUME NEW g \in Handlers,
                      stage'[g] = "writing", ~ stale'[g], writes'[g] # <<>>,
                      answer'[g] \notin {NoJob, Failed}
               PROVE  /\ call'[g].kind = "claim" /\ answer'[g] \notin astray' =>
                            Mine(writes'[g][Len(writes'[g])], answer'[g])
                      /\ call'[g].kind = "result" /\ answer'[g] \notin Off' =>
                            Len(writes'[g]) = 1 /\ EndedIn(writes'[g][1], answer'[g])
    BY DEF PendingInv
  <2>1. g = h
    BY <1>2
  <2>2. writes'[g] = T /\ Len(T) = 1 /\ T[1] = W[2] /\ Len(W) = 2
    BY <1>4, <1>8, <2>1
  <2> QED
    BY <1>2, <1>4, <1>9, <2>1, <2>2
<1>19. IdsInv' /\ StageInv' /\ WaitInv'
  BY WriteKeeps
<1> QED
  BY <1>2, <1>4, <1>15, <1>16, <1>17, <1>18, <1>19 DEF SharedInv

\* A write of a current copy that is not saved: the handler answers an error.
LEMMA SharedWriteUnsaved ==
    ASSUME JobsInv, NEW h \in Handlers, SharedInv, WriteUnsaved(h), ~ stale[h]
    PROVE  SharedInv'
<1>1. PICK W, J, D, a, o, y, b :
         /\ W = writes[h] /\ J = W[1] /\ D = disk
         /\ a = Kept /\ o = Off /\ y = astray /\ b = Held
  OBVIOUS
<1>2. /\ jobs' = J /\ 1 \in 1..Len(W)
      /\ UNCHANGED <<created, stage, call, awaited, rpc, rjob, acked, requeued>>
      /\ stage[h] = "writing" /\ W # <<>>
      /\ \A g \in Handlers : g # h =>
            /\ writes'[g] = writes[g] /\ answer'[g] = answer[g]
            /\ ~ stale'[g] => writes[g] = <<>> /\ Len(writes[g]) = 0
      /\ Reporting' = Reporting
  BY <1>1, WriteOvertakes
<1>4. disk' = D /\ writes'[h] = <<>> /\ answer'[h] = Failed /\ astray' = y /\ Off' = o
  BY <1>1 DEF WriteUnsaved, Overtakes, JobsInv, TypeOK, Off
<1>5. ListsInv(jobs, D, writes, stale, a, o) /\ HoldsInv(jobs, D, writes, stale, b, y)
  BY <1>1 DEF SharedInv
<1>6. Sound(J, D, a, o) /\ Sound(D, D, a, o)
  BY <1>1, <1>2, <1>5 DEF ListsInv
<1>7. \A e \in b \ y : Mine(J, e) /\ Mine(D, e)
  BY <1>1, <1>2, <1>5 DEF HoldsInv
<1>10. ASSUME NEW k, NEW g \in Answering(k)'
       PROVE  g \in Answering(k) /\ answer'[g] = answer[g]
  BY <1>2, <1>4, <1>10 DEF Answering
<1>11. Kept' \subseteq a
  BY <1>1, <1>2, <1>10 DEF Kept
<1>12. Held' \subseteq b
  BY <1>1, <1>2, <1>10 DEF Held
<1>15. PICK V, S : V = writes' /\ S = stale'
  OBVIOUS
<1>9. \A g \in Handlers : ~ S[g] => V[g] = <<>> /\ Len(V[g]) = 0
  BY <1>2, <1>4, <1>15
<1>a. \A g \in Handlers : ~ S[g] => Len(V[g]) <= 2 /\ Len(V[g]) # 2 /\ 1..Len(V[g]) = {}
  BY <1>9
<1>16. ListsInv(J, D, V, S, Kept', o)
  <2>1. Sound(J, D, Kept', o) /\ Sound(D, D, Kept', o)
    BY <1>6, <1>11, SoundLess
  <2> QED
    BY <1>a, <2>1 DEF ListsInv
<1>17. HoldsInv(J, D, V, S, Held', y)
  BY <1>7, <1>12, <1>a DEF HoldsInv
<1>18. PendingInv'
  BY <1>9, <1>15 DEF PendingInv
<1>19. IdsInv' /\ StageInv' /\ WaitInv'
  BY WriteKeeps
<1> QED
  BY <1>2, <1>4, <1>15, <1>16, <1>17, <1>18, <1>19 DEF SharedInv
-------------------------------------------------------------------------------
\* A handler answers, and the runner, if it still waits, hears it: what it is
\* told it holds or has acknowledged was kept for it.
LEMMA SharedReply ==
    ASSUME JobsInv, NEW h \in Handlers, SharedInv, Reply(h)
    PROVE  SharedInv'
<1>1. /\ stage[h] = "writing" /\ writes[h] = <<>>
      /\ UNCHANGED <<jobs, disk, created, writes, astray, requeued>>
      /\ stage'[h] = "free" /\ call'[h].kind = "none" /\ ~ awaited'[h] /\ answer'[h] = NoJob
  BY DEF Reply, JobsInv, TypeOK, NoCall
<1>2. ASSUME NEW g \in Handlers, g # h
      PROVE  /\ stage'[g] = stage[g] /\ call'[g] = call[g] /\ answer'[g] = answer[g]
             /\ awaited'[g] = awaited[g] /\ stale'[g] = stale[g]
  BY <1>2 DEF Reply, JobsInv, TypeOK
<1>3. Reporting' = Reporting
  <2>1. \A g \in Handlers : g \in Reporting' <=> g \in Reporting
    BY <1>1, <1>2 DEF Reporting
  <2>2. Reporting' \subseteq Handlers /\ Reporting \subseteq Handlers
    BY DEF Reporting
  <2> QED
    BY <2>1, <2>2
<1>4. ASSUME NEW k, NEW g \in Answering(k)'
      PROVE  g \in Answering(k) /\ answer'[g] = answer[g]
  BY <1>1, <1>2, <1>4 DEF Answering
<1>5. awaited[h] => /\ Reporting = {}
                    /\ \A g \in Handlers : ~ awaited'[g]
                    /\ rpc \in {"claiming", "starting", "reporting"}
  <2>1. ASSUME awaited[h] PROVE rpc \in {"claiming", "starting", "reporting"}
    BY <2>1 DEF SharedInv, WaitInv
  <2>2. ASSUME awaited[h], NEW g \in Handlers PROVE ~ awaited'[g]
    <3>1. CASE g = h
      BY <1>1, <3>1
    <3>2. CASE g # h
      BY <1>2, <2>2, <3>2 DEF SharedInv, WaitInv
    <3> QED
      BY <3>1, <3>2
  <2>3. ASSUME awaited[h], NEW g \in Reporting PROVE FALSE
    <3>1. g \in Handlers /\ g # h
      BY <1>1 DEF Reporting
    <3>2. awaited[g]
      BY <2>1, <2>3 DEF SharedInv, WaitInv
    <3> QED
      BY <2>3, <3>1, <3>2 DEF SharedInv, WaitInv
  <2> QED
    BY <2>1, <2>2, <2>3
<1>6. CASE ~ awaited[h]
  <2>1. rpc' = rpc /\ rjob' = rjob /\ acked' = acked
    BY <1>6 DEF Reply, runnerVars
  <2>2. Kept' \subseteq Kept
    BY <1>4, <2>1 DEF Kept
  <2>3. Held' \subseteq Held
    <3>1. \A g \in Reporting : call'[g] = call[g]
      BY <1>1, <1>2 DEF Reporting
    <3> QED
      BY <1>3, <1>4, <2>1, <3>1 DEF Held
  <2>4. IdsInv'
    BY <1>1, <1>2, <2>1 DEF SharedInv, IdsInv
  <2>5. WaitInv'
    BY <1>1, <1>2, <1>3, <2>1 DEF SharedInv, WaitInv, Reporting
  <2>6. StageInv'
    BY <1>1, <1>2 DEF SharedInv, StageInv
  <2> QED
    BY <1>1, <1>2, <2>2, <2>3, <2>4, <2>5, <2>6, WritesType, SharedKept DEF JobsInv
<1>7. CASE awaited[h]
  <2>1. RunnerHears(call[h].kind, answer[h])
    BY <1>7 DEF Reply
  <2>2. \/ answer[h] \notin {NoJob, Failed} /\ call[h].kind = "claim" /\ rpc' = "claimed"
           /\ rjob' = answer[h] /\ acked' = acked
        \/ rpc = "starting" /\ rpc' = "executing" /\ rjob' = rjob /\ acked' = acked
        \/ rpc' = "idle" /\ acked' = acked
        \/ answer[h] \notin {NoJob, Failed} /\ call[h].kind = "result" /\ rpc' = "idle"
           /\ acked' = acked \union {answer[h]}
    BY <2>1 DEF RunnerHears, RunnerIdle
  <2>3. ASSUME NEW k, call[h].kind = k, answer[h] \notin {NoJob, Failed} PROVE h \in Answering(k)
    BY <1>1, <1>7, <2>3 DEF Answering
  <2>4. Kept' \subseteq Kept
    BY <1>4, <2>2, <2>3 DEF Kept
  <2>5. Held' \subseteq Held
    BY <1>3, <1>4, <1>5, <1>7, <2>2, <2>3 DEF Held
  <2>6. IdsInv'
    BY <1>1, <1>2, <2>2 DEF SharedInv, IdsInv
  <2>7. WaitInv'
    BY <1>3, <1>5, <1>7 DEF WaitInv
  <2>8. StageInv'
    BY <1>1, <1>2 DEF SharedInv, StageInv
  <2> QED
    BY <1>1, <1>2, <2>4, <2>5, <2>6, <2>7, <2>8, WritesType, SharedKept DEF JobsInv
<1> QED
  BY <1>6, <1>7

\* A call of the runner: it speaks of the job it holds, and a claim overtakes
\* the reports before it.
LEMMA SharedSend ==
    ASSUME JobsInv, NEW h \in Handlers, SharedInv, NEW q, NEW l, Send(h, q, l),
           \/ /\ q.kind = "claim" /\ rpc = "idle" /\ l = "claiming"
              /\ stale' = [g \in Handlers |-> stale[g] \/ stage[g] = "received"]
           \/ /\ q.kind = "status" /\ q.id = rjob /\ q.status = "running"
              /\ rpc = "claimed" /\ l = "starting" /\ stale' = stale
           \/ /\ q.kind \in {"status", "result"} /\ q.id = rjob
              /\ rpc = "executing" /\ l = "reporting" /\ stale' = stale
    PROVE  SharedInv'
<1>1. /\ stage'[h] = "received" /\ call'[h] = q /\ awaited'[h] /\ rpc' = l /\ rjob' = rjob
      /\ UNCHANGED <<jobs, disk, created, writes, answer, acked, astray, requeued>>
      /\ stage[h] = "free"
  BY DEF Send, JobsInv, TypeOK
<1>2. ASSUME NEW g \in Handlers, g # h
      PROVE  stage'[g] = stage[g] /\ call'[g] = call[g] /\ awaited'[g] = awaited[g]
  BY <1>2 DEF Send, JobsInv, TypeOK
<1>3. writes[h] = <<>>
  BY <1>1 DEF SharedInv, StageInv
<1>4. ASSUME NEW g \in Handlers, writes[g] # <<>>
      PROVE  /\ stale'[g] = stale[g] /\ stage'[g] = stage[g]
             /\ call'[g] = call[g] /\ answer'[g] = answer[g]
  <2>1. g # h /\ stage[g] = "writing"
    BY <1>3, <1>4 DEF SharedInv, StageInv
  <2>2. stale[g] \in BOOLEAN
    BY DEF JobsInv, TypeOK
  <2>3. stale'[g] = stale[g]
    BY <2>1, <2>2
  <2> QED
    BY <1>1, <1>2, <2>1, <2>3
<1>5. ASSUME NEW k, NEW g \in Answering(k)'
      PROVE  g \in Answering(k)
  BY <1>1, <1>2, <1>5 DEF Answering
<1>6. rpc \in {"idle", "claimed", "executing"} /\ \A g \in Handlers : ~ awaited[g]
  BY DEF SharedInv, WaitInv
<1>7. rpc # "idle" => Reporting = {}
  BY <1>6 DEF SharedInv, WaitInv, Reporting
<1>8. \A g \in Reporting' : g = h /\ q.kind \in {"status", "result"} /\ rpc # "idle"
  <2> SUFFICES ASSUME NEW g \in Reporting'
               PROVE  g = h /\ q.kind \in {"status", "result"} /\ rpc # "idle"
    OBVIOUS
  <2>1. g \in Handlers /\ stage'[g] = "received" /\ ~ stale'[g] /\ call'[g].kind \in {"status", "result"}
    BY DEF Reporting
  <2>2. CASE g # h
    <3>1. stage[g] = "received" /\ call[g] = call'[g]
      BY <1>2, <2>1, <2>2
    <3>2. CASE stale' = stale
      BY <1>7, <2>1, <3>1, <3>2 DEF Reporting
    <3>3. CASE stale' = [f \in Handlers |-> stale[f] \/ stage[f] = "received"]
      BY <2>1, <3>1, <3>3
    <3> QED
      BY <3>2, <3>3
  <2>3. CASE g = h
    BY <1>1, <2>1, <2>3
  <2> QED
    BY <2>2, <2>3
<1>9. Kept' \subseteq Kept
  BY <1>1, <1>5 DEF Kept
<1>10. Held' \subseteq Held
  <2>1. \A g \in Reporting' : call'[g].id = rjob /\ rpc \in {"claimed", "executing"}
    BY <1>1, <1>6, <1>8
  <2> QED
    BY <1>1, <1>5, <2>1 DEF Held
<1>11. q.kind \in {"status", "result"} => q.id \in created
  BY DEF SharedInv, IdsInv
<1>12. IdsInv'
  BY <1>1, <1>2, <1>11 DEF SharedInv, IdsInv
<1>13. StageInv'
  BY <1>1, <1>2, <1>3 DEF SharedInv, StageInv
<1>14. WaitInv'
  <2>1. \A g \in Handlers : awaited'[g] => g = h
    BY <1>2, <1>6
  <2> QED
    BY <1>1, <1>8, <2>1 DEF WaitInv
<1> QED
  BY <1>1, <1>4, <1>9, <1>10, <1>12, <1>13, <1>14, WritesType, SharedKept DEF JobsInv

\* A call is lost: the runner, if it waited for it, forgets the job.
LEMMA SharedLost ==
    ASSUME JobsInv, NEW h \in Handlers, SharedInv, LoseCall(h)
    PROVE  SharedInv'
<1>1. /\ stage[h] = "received" /\ stage'[h] = "free" /\ call'[h].kind = "none" /\ ~ awaited'[h]
      /\ UNCHANGED <<jobs, disk, created, writes, answer, acked, astray, requeued>>
      /\ awaited[h] => rpc' = "idle"
      /\ ~ awaited[h] => rpc' = rpc /\ rjob' = rjob
  BY DEF LoseCall, RunnerIdle, JobsInv, TypeOK, NoCall
<1>2. ASSUME NEW g \in Handlers, g # h
      PROVE  /\ stage'[g] = stage[g] /\ call'[g] = call[g] /\ awaited'[g] = awaited[g]
             /\ stale'[g] = stale[g]
  BY <1>2 DEF LoseCall, JobsInv, TypeOK
<1>3. writes[h] = <<>>
  BY <1>1 DEF SharedInv, StageInv
<1>4. \A g \in Reporting' : g \in Reporting /\ g # h /\ call'[g] = call[g]
  BY <1>1, <1>2 DEF Reporting
<1>5. ASSUME NEW k, NEW g \in Answering(k)'
      PROVE  g \in Answering(k)
  BY <1>1, <1>2, <1>5 DEF Answering
<1>6. Kept' \subseteq Kept
  BY <1>1, <1>5 DEF Kept
<1>7. Held' \subseteq Held
  BY <1>1, <1>4, <1>5 DEF Held
<1>8. IdsInv'
  BY <1>1, <1>2 DEF SharedInv, IdsInv
<1>9. StageInv'
  BY <1>1, <1>2, <1>3 DEF SharedInv, StageInv
<1>10. WaitInv'
  <2>1. CASE awaited[h]
    <3>1. \A g \in Handlers : ~ awaited'[g]
      <4> SUFFICES ASSUME NEW g \in Handlers PROVE ~ awaited'[g]
        OBVIOUS
      <4>1. g # h => ~ awaited[g]
        BY <2>1 DEF SharedInv, WaitInv
      <4> QED
        BY <1>1, <1>2, <4>1
    <3> QED
      BY <1>1, <1>4, <2>1, <3>1 DEF SharedInv, WaitInv
  <2>2. CASE ~ awaited[h]
    <3>1. \A g \in Handlers : awaited'[g] => g # h /\ awaited[g] /\ call'[g] = call[g]
      BY <1>1, <1>2
    <3>2. \A g \in Reporting' : awaited'[g] = awaited[g]
      BY <1>2, <1>4 DEF Reporting
    <3> QED
      BY <1>1, <1>4, <2>2, <3>1, <3>2 DEF SharedInv, WaitInv
  <2> QED
    BY <2>1, <2>2
<1> QED
  BY <1>1, <1>2, <1>3, <1>6, <1>7, <1>8, <1>9, <1>10, WritesType, SharedKept DEF JobsInv

\* The runner gives up: nobody waits for anything any more.
LEMMA SharedGivesUp ==
    ASSUME JobsInv, SharedInv, RunnerGivesUp
    PROVE  SharedInv'
<1>1. /\ rpc' = "idle"
      /\ UNCHANGED <<jobs, disk, created, stage, call, writes, answer, acked, stale, astray, requeued>>
      /\ \A g \in Handlers : ~ awaited'[g]
  BY DEF RunnerGivesUp, RunnerIdle, historyVars
<1>2. \A k : Answering(k)' = {}
  BY <1>1 DEF Answering
<1>3. Reporting' = Reporting
  BY <1>1 DEF Reporting
<1>4. Kept' \subseteq Kept
  BY <1>1, <1>2 DEF Kept
<1>5. Held' \subseteq Held
  BY <1>1, <1>2, <1>3 DEF Held
<1>6. IdsInv' /\ StageInv'
  BY <1>1 DEF SharedInv, IdsInv, StageInv
<1>7. WaitInv'
  BY <1>1, <1>3 DEF SharedInv, WaitInv
<1> QED
  BY <1>1, <1>4, <1>5, <1>6, <1>7, WritesType, SharedKept DEF JobsInv

\* A restart of the marshal: memory is the file again.
LEMMA SharedRestart ==
    ASSUME JobsInv, SharedInv, Restart
    PROVE  SharedInv'
<1>1. /\ jobs' = disk /\ UNCHANGED <<disk, created, acked, astray, requeued>>
      /\ \A h \in Handlers : /\ stage'[h] = "free" /\ call'[h].kind = "none" /\ writes'[h] = <<>>
                             /\ answer'[h] = NoJob /\ ~ awaited'[h]
      /\ rpc' = "idle" \/ (rpc' = rpc /\ rjob' = rjob)
  BY DEF Restart, RunnerIdle, NoCall
<1>2. (\A k : Answering(k)' = {}) /\ Reporting' = {}
  BY <1>1 DEF Answering, Reporting
<1>3. Kept' \subseteq Kept
  BY <1>1, <1>2 DEF Kept
<1>4. Held' \subseteq Held
  BY <1>1, <1>2 DEF Held
<1>5. Off' = Off
  BY <1>1 DEF Off
<1>6. PICK D, V, S : D = disk /\ V = writes' /\ S = stale'
  OBVIOUS
<1>7. \A g \in Handlers : Len(V[g]) <= 2 /\ Len(V[g]) # 2 /\ 1..Len(V[g]) = {}
  <2>1. \A g \in Handlers : Len(V[g]) = 0
    BY <1>1, <1>6
  <2>2. \A n : n = 0 => n <= 2 /\ n # 2 /\ 1..n = {}
    OBVIOUS
  <2> QED
    BY <2>1, <2>2
<1>8. Sound(D, D, Kept, Off) /\ \A e \in Held \ astray : Mine(D, e)
  BY <1>6 DEF SharedInv, ListsInv, HoldsInv
<1>9. ListsInv(D, D, V, S, Kept', Off)
  <2>1. Sound(D, D, Kept', Off)
    BY <1>3, <1>8, SoundLess
  <2> QED
    BY <1>7, <2>1 DEF ListsInv
<1>10. HoldsInv(D, D, V, S, Held', astray)
  BY <1>4, <1>7, <1>8 DEF HoldsInv
<1>11. IdsInv' /\ StageInv' /\ WaitInv' /\ PendingInv'
  BY <1>1, <1>2 DEF SharedInv, IdsInv, StageInv, WaitInv, PendingInv
<1> QED
  BY <1>1, <1>5, <1>6, <1>9, <1>10, <1>11 DEF SharedInv

\* A unit of time.
LEMMA SharedTick ==
    ASSUME JobsInv, SharedInv, Tick
    PROVE  SharedInv'
<1>1. PICK W, V, J, D, S, a, b, o, y :
         /\ W = writes /\ V = writes' /\ J = jobs /\ D = disk /\ S = stale
         /\ a = Kept /\ b = Held /\ o = Off /\ y = astray
  OBVIOUS
<1>2. /\ jobs' = Older(J) /\ disk' = Older(D)
      /\ UNCHANGED <<created, stage, call, answer, awaited, rpc, rjob, acked, stale, astray, requeued>>
  BY <1>1 DEF Tick, runnerVars, historyVars
<1>3. J \in Seq(Job) /\ D \in Seq(Job)
  BY <1>1 DEF JobsInv, TypeOK
<1>4. ASSUME NEW h \in Handlers
      PROVE  /\ Len(V[h]) = Len(W[h]) /\ Len(W[h]) \in Nat
             /\ \A k \in 1..Len(W[h]) : V[h][k] = Older(W[h][k]) /\ W[h][k] \in Seq(Job)
             /\ W[h] = <<>> <=> V[h] = <<>>
             /\ W[h] # <<>> => Len(W[h]) \in 1..Len(W[h])
  <2>1. V[h] = [k \in 1..Len(W[h]) |-> Older(W[h][k])]
    BY <1>1 DEF Tick
  <2>2. W[h] \in Seq(Seq(Job))
    BY <1>1 DEF JobsInv, TypeOK
  <2>3. \A k \in 1..Len(W[h]) : W[h][k] \in Seq(Job)
    BY <2>2
  <2>4. \A k \in 1..Len(W[h]) : Older(W[h][k]) \in Seq(Job)
    <3>1. \A k \in 1..Len(W[h]) : Good(W[h][k], created, requeued)
      BY <1>1, GoodLists DEF JobsInv
    <3> QED
      BY <3>1, OlderGood DEF Good
  <2>5. V[h] \in Seq(Seq(Job)) /\ Len(V[h]) = Len(W[h])
    BY <2>1, <2>2, <2>4
  <2> QED
    BY <2>1, <2>2, <2>3, <2>5, EmptySeq
<1>5. \A k : Answering(k)' = Answering(k)
  <2> SUFFICES ASSUME NEW k, NEW g \in Handlers
               PROVE  g \in Answering(k)' <=> g \in Answering(k)
    BY DEF Answering
  <2> QED
    BY <1>1, <1>2, <1>4 DEF Answering
<1>6. Reporting' = Reporting
  BY <1>2 DEF Reporting
<1>7. Kept' = a /\ Held' = b /\ Off' = o
  BY <1>1, <1>2, <1>5, <1>6 DEF Kept, Held, Off
<1>8. ListsInv(J, D, W, S, a, o) /\ HoldsInv(J, D, W, S, b, y)
  BY <1>1 DEF SharedInv
<1>9. ListsInv(Older(J), Older(D), V, S, a, o)
  <2>1. Sound(Older(J), Older(D), a, o) /\ Sound(Older(D), Older(D), a, o)
    BY <1>3, <1>8, OlderSound DEF ListsInv
  <2>2. ASSUME NEW h \in Handlers, ~ S[h]
        PROVE  /\ Len(V[h]) <= 2
               /\ \A k \in 1..Len(V[h]) : Sound(V[h][k], Older(D), a, o)
               /\ Len(V[h]) = 2 => Sound(V[h][2], V[h][1], a, o)
    <3>1. Len(W[h]) <= 2 /\ \A k \in 1..Len(W[h]) : Sound(W[h][k], D, a, o)
      BY <1>8, <2>2 DEF ListsInv
    <3>2. Len(W[h]) = 2 => Sound(W[h][2], W[h][1], a, o)
      BY <1>8, <2>2 DEF ListsInv
    <3>3. \A k \in 1..Len(W[h]) : Sound(Older(W[h][k]), Older(D), a, o)
      BY <1>3, <1>4, <3>1, OlderSound
    <3>4. Len(W[h]) = 2 => Sound(Older(W[h][2]), Older(W[h][1]), a, o)
      BY <1>4, <3>2, OlderSound
    <3> QED
      BY <1>4, <3>1, <3>3, <3>4
  <2> QED
    BY <2>1, <2>2 DEF ListsInv
<1>10. HoldsInv(Older(J), Older(D), V, S, b, y)
  BY <1>3, <1>4, <1>8, OlderKeeps DEF HoldsInv
<1>11. PendingInv'
  <2> SUFFICES ASSUME NEW g \in Handlers,
                      stage'[g] = "writing", ~ stale'[g], V[g] # <<>>,
                      answer'[g] \notin {NoJob, Failed}
               PROVE  /\ call'[g].kind = "claim" /\ answer'[g] \notin astray' =>
                            Mine(V[g][Len(V[g])], answer'[g])
                      /\ call'[g].kind = "result" /\ answer'[g] \notin Off' =>
                            Len(V[g]) = 1 /\ EndedIn(V[g][1], answer'[g])
    BY <1>1 DEF PendingInv
  <2>1. /\ call[g].kind = "claim" /\ answer[g] \notin y => Mine(W[g][Len(W[g])], answer[g])
        /\ call[g].kind = "result" /\ answer[g] \notin o =>
              Len(W[g]) = 1 /\ EndedIn(W[g][1], answer[g])
    BY <1>1, <1>2, <1>4 DEF SharedInv, PendingInv
  <2>2. \A k \in 1..Len(W[g]) : \A e : /\ Mine(W[g][k], e) => Mine(V[g][k], e)
                                       /\ EndedIn(W[g][k], e) => EndedIn(V[g][k], e)
    BY <1>4, OlderKeeps
  <2>3. Len(W[g]) \in 1..Len(W[g]) /\ Len(V[g]) = Len(W[g])
    BY <1>4
  <2> QED
    BY <1>1, <1>2, <1>7, <2>1, <2>2, <2>3
<1>12. IdsInv' /\ WaitInv'
  BY <1>2, <1>6 DEF SharedInv, IdsInv, WaitInv
<1>13. StageInv'
  BY <1>1, <1>2, <1>4 DEF SharedInv, StageInv
<1> QED
  BY <1>1, <1>2, <1>7, <1>9, <1>10, <1>11, <1>12, <1>13 DEF SharedInv

\* Every step keeps the invariant.
LEMMA SharedStep ==
    ASSUME JobsInv, SharedInv, [Next]_vars
    PROVE  SharedInv'
<1>1. ASSUME NEW h \in Handlers, MarshalStep(h) PROVE SharedInv'
  <2>1. CASE Write(h) \/ WriteUnsaved(h)
    <3>1. JobsInv'
      BY JobsInvStep
    <3> QED
      BY <2>1, <3>1, SharedWriteStale, SharedWrite, SharedWriteUnsaved
  <2>2. CASE ~ (Write(h) \/ WriteUnsaved(h))
    BY <1>1, <2>2, SharedCreate, SharedReconcile, SharedClaim, SharedStatus, SharedResult, SharedReply
    DEF MarshalStep
  <2> QED
    BY <2>1, <2>2
<1>2. ASSUME NEW h \in Handlers, RunnerStep(h) PROVE SharedInv'
  <2>1. CASE SendClaim(h)
    BY <2>1, SharedSend DEF SendClaim
  <2>2. CASE SendRunning(h)
    BY <2>2, SharedSend DEF SendRunning
  <2>3. CASE SendStatus(h)
    BY <2>3, SharedSend DEF SendStatus
  <2>4. CASE SendResult(h)
    BY <2>4, SharedSend DEF SendResult
  <2> QED
    BY <1>2, <2>1, <2>2, <2>3, <2>4 DEF RunnerStep
<1>3. ASSUME UNCHANGED vars PROVE SharedInv'
  <2>1. UNCHANGED <<jobs, disk, created, stage, call, writes, answer, awaited, rpc, rjob, acked,
                    stale, astray, requeued>>
    BY <1>3 DEF vars, handlerVars, runnerVars, historyVars
  <2>2. (\A k : Answering(k)' = Answering(k)) /\ Reporting' = Reporting
    BY <2>1 DEF Answering, Reporting
  <2>3. Kept' = Kept /\ Held' = Held /\ Off' = Off
    BY <2>1, <2>2 DEF Kept, Held, Off
  <2>4. IdsInv' /\ StageInv' /\ WaitInv' /\ PendingInv'
    BY <2>1, <2>2, <2>3 DEF SharedInv, IdsInv, StageInv, WaitInv, PendingInv
  <2> QED
    BY <2>1, <2>3, <2>4 DEF SharedInv
<1> QED
  BY <1>1, <1>2, <1>3, SharedLost, SharedGivesUp, SharedRestart, SharedTick DEF Next

\* A result that was acknowledged to the runner survives every restart, for
\* any number of handlers, jobs and faults: an acknowledged job that is listed
\* is in the state file and ended there, unless an overtaken write or report,
\* or one that puts the job back, was applied to it.
THEOREM AcknowledgedSurvives == Spec => []AckedIsDurable
<1>1. Init => SharedInv
  BY SharedInit
<1>2. JobsInv /\ SharedInv /\ [Next]_vars => JobsInv' /\ SharedInv'
  BY JobsInvStep, SharedStep
<1>3. ASSUME JobsInv, SharedInv PROVE AckedIsDurable
  <2> SUFFICES ASSUME NEW b \in acked \ (astray \union requeued)
               PROVE  /\ Has(jobs, b) => Has(disk, b)
                      /\ Has(disk, b) => findBenchmarkJob(disk, b).state = "terminal"
    BY DEF AckedIsDurable
  <2>1. b \in Kept \ Off
    BY <1>3 DEF Kept, Off, JobsInv, TypeOK
  <2>2. (Has(jobs, b) => Has(disk, b)) /\ EndedIn(disk, b)
    BY <1>3, <2>1 DEF SharedInv, ListsInv, Sound
  <2>3. ASSUME Has(disk, b) PROVE findBenchmarkJob(disk, b).state = "terminal"
    <3>1. Good(disk, created, requeued)
      BY <1>3, GoodLists DEF JobsInv
    <3> QED
      BY <2>2, <2>3, <3>1, Found DEF EndedIn
  <2> QED
    BY <2>2, <2>3
<1> QED
  BY <1>1, <1>2, <1>3, JobsInvInit, PTL DEF Spec

\* Until its lease is over the runner's job is running, whichever handlers run
\* beside it, however often the marshal restarts and whatever is not saved,
\* unless an overtaken write or report was applied to the job.
THEOREM LeaseHolds == Spec => []LeaseProtects
<1>1. Init => SharedInv
  BY SharedInit
<1>2. JobsInv /\ SharedInv /\ [Next]_vars => JobsInv' /\ SharedInv'
  BY JobsInvStep, SharedStep
<1>3. ASSUME JobsInv, SharedInv PROVE LeaseProtects
  <2> SUFFICES ASSUME NEW i \in 1..Len(jobs),
                      rpc \in {"claimed", "starting", "executing"}, jobs[i].id = rjob,
                      rjob \notin astray, jobs[i].timeout > 0
               PROVE  jobs[i].status = "running"
    BY DEF LeaseProtects
  <2>1. rjob \in Held \ astray
    BY <1>3 DEF Held, JobsInv, CallsOK
  <2>2. Mine(jobs, rjob)
    BY <1>3, <2>1 DEF SharedInv, HoldsInv
  <2> QED
    BY <2>2 DEF Mine, Unended
<1> QED
  BY <1>1, <1>2, <1>3, JobsInvInit, PTL DEF Spec

\* A step changes the file only to a list that takes nothing back.
LEMMA DiskStep ==
    ASSUME JobsInv, SharedInv, [Next]_vars
    PROVE  Forward(disk, disk', Off')
<1>1. PICK D, o : D = disk /\ o = Off'
  OBVIOUS
<1>2. Good(D, created, requeued) /\ D \in Seq(Job)
  BY <1>1, GoodLists DEF JobsInv, TypeOK
<1>3. Forward(D, D, o)
  <2> SUFFICES ASSUME NEW i \in 1..Len(D), NEW k \in 1..Len(D), D[i].id = D[k].id
               PROVE  Later(D[i], D[k])
    BY DEF Forward
  <2>1. i = k /\ D[i] \in Job
    BY <1>2 DEF Good
  <2>2. D[i].attempt \in Nat
    BY <2>1 DEF Job
  <2> QED
    BY <2>1, <2>2 DEF Later
<1>4. CASE disk' = disk
  BY <1>1, <1>3, <1>4
<1>5. ASSUME NEW h \in Handlers, Write(h)
      PROVE  Forward(disk, disk', Off')
  <2>1. writes[h] \in Seq(Seq(Job)) /\ writes[h] # <<>> /\ disk' = Head(writes[h])
    BY <1>5 DEF Write, JobsInv, TypeOK
  <2>2. 1 \in 1..Len(writes[h]) /\ disk' = writes[h][1]
    BY <2>1
  <2>3. CASE stale[h]
    <3>1. created \subseteq o
      BY <1>1, <1>5, <2>3 DEF Write, Overtakes, Off
    <3> QED
      BY <1>1, <1>2, <3>1 DEF Good, Forward
  <2>4. CASE ~ stale[h]
    <3>1. Off' = Off
      BY <1>5, <2>4 DEF Write, Overtakes, Off
    <3> QED
      BY <2>2, <2>4, <3>1 DEF SharedInv, ListsInv, Sound
  <2> QED
    BY <2>3, <2>4
<1>6. CASE Tick
  <2>1. PICK e : e = Older(D)
    OBVIOUS
  <2>2. /\ Len(e) = Len(D)
        /\ \A i \in 1..Len(D) : /\ e[i].id = D[i].id /\ e[i].attempt = D[i].attempt
                                /\ e[i].state = D[i].state /\ e[i].status = D[i].status
    BY <1>2, <2>1, OlderElements
  <2>3. Forward(D, e, o)
    BY <1>3, <2>2 DEF Forward, Later
  <2> QED
    BY <1>1, <1>6, <2>1, <2>3 DEF Tick
<1> QED
  BY <1>4, <1>5, <1>6
  DEF Next, MarshalStep, RunnerStep, CreateJob, ReconcileJobs, UpdateNode, ClaimJob, JobStatus,
      JobResult, Work, WriteUnsaved, Reply, SendClaim, SendRunning, SendStatus, SendResult, Send,
      LoseCall, RunnerGivesUp, Restart, vars

\* The state file never takes back an ended job or an attempt, through
\* retries, failed saves and restarts and with any number of handlers, but for
\* jobs an overtaken write or report, or one that puts the job back, reached.
THEOREM FileMovesForward == Spec => DiskMovesForward
<1>1. Init => SharedInv
  BY SharedInit
<1>2. JobsInv /\ SharedInv /\ [Next]_vars => JobsInv' /\ SharedInv'
  BY JobsInvStep, SharedStep
<1>3. JobsInv /\ SharedInv /\ [Next]_vars =>
        [\A i \in 1..Len(disk), k \in 1..Len(disk') :
          (disk[i].id = disk'[k].id /\ disk[i].id \notin astray' \union requeued') =>
             /\ disk'[k].attempt >= disk[i].attempt
             /\ disk[i].state = "terminal" =>
                   disk'[k].state = "terminal" /\ disk'[k].status = disk[i].status]_vars
  BY DiskStep DEF Forward, Later, Off
<1> QED
  BY <1>1, <1>2, <1>3, JobsInvInit, PTL DEF Spec, DiskMovesForward
===============================================================================
