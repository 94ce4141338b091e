----------------------------- MODULE BenchmarkJobs -----------------------------
(***************************************************************************)
(* The benchmark jobs of one managed node: internal/httpapi/               *)
(* benchmark_jobs.go, benchmark_results.go, benchmark_scheduler_background *)
(* .go and the subscriber's benchmark_runner_loop.go, over the node record *)
(* kept by internal/appstate/state.go.                                     *)
(*                                                                         *)
(* Every marshal handler reads a deep copy of the node (Store.Snapshot),   *)
(* works on it, and writes the whole node back (Store.UpsertNode).  Reads  *)
(* and writes lock the store; nothing is locked between them.  A handler   *)
(* slot holds the lists its handler has still to write; the handlers of    *)
(* different slots interleave.                                             *)
(*                                                                         *)
(* Neither reads nor reports are checked against what happened meanwhile:  *)
(* a handler may write a copy that another write has overtaken, and a      *)
(* report may reach a job that its sender gave up and claimed again.  The  *)
(* history variables stale and astray say when this happened, and requeued *)
(* which jobs their subscriber put back by a report; the properties are    *)
(* about all other jobs.                                                   *)
(*                                                                         *)
(* Time: timeout_at and next_attempt_at are kept as the time left until    *)
(* they come, which Tick counts down wherever a copy of them is held.      *)
(***************************************************************************)
EXTENDS Integers, Sequences, FiniteSets, SequencesExt

CONSTANTS JobIds,          \* benchmark identifiers the marshal may draw
          Handlers,        \* marshal handlers that may run at the same time
          MaxJobs,         \* length of the job list (maxBenchmarkJobs, 8)
          MaxAttempts,     \* max_attempts (3 by default)
          Lease,           \* lease_timeout_seconds
          RetryDelay,      \* retry_delay_seconds
          Reported,        \* the statuses a subscriber reports at the end
          MaxFaults,       \* bound on failed saves, restarts, lost calls, requeues
          NoJob, Failed    \* answers of a handler that carry no job

\* benchmarkJobStatusAllowed: what the status endpoint accepts.
StatusReports == {"queued", "running", "completed", "failed", "cancelled"}

\* safeBenchmarkStatus: what the result endpoint accepts; anything else is
\* "reported" and kept as completed.
Statuses == StatusReports \union {"probe_ok", "probe_failed"}

ASSUME ConstantsAssumption ==
    /\ MaxJobs \in Nat \ {0}
    /\ MaxAttempts \in Nat \ {0}
    /\ Lease \in Nat \ {0}
    /\ RetryDelay \in Nat \ {0}
    /\ Reported \subseteq Statuses
    /\ MaxFaults \in Nat
    /\ NoJob \notin JobIds /\ Failed \notin JobIds /\ NoJob # Failed

VARIABLES
    jobs,    \* benchmark_jobs of the node in memory, newest update first
    disk,    \* the same list in the state file
    created, \* the identifiers drawn so far
    stage,   \* stage[h]: "free", "received" or "writing"
    call,    \* call[h]: what handler h was asked
    writes,  \* writes[h]: the lists h has still to write
    answer,  \* answer[h]: what h will answer
    awaited, \* awaited[h]: the runner waits for h's answer
    rpc,     \* where the subscriber's runner is
    rjob,    \* the job it works on, or NoJob
    acked,   \* jobs whose result the marshal acknowledged to the runner
    faults,  \* faults so far
    stale,   \* history: h's call, or the copy it works on, was overtaken
    astray,  \* history: jobs an overtaken write or report was applied to
    requeued \* history: jobs that a subscriber's report put back

handlerVars == <<stage, call, writes, answer, awaited>>
runnerVars == <<rpc, rjob, acked>>
historyVars == <<stale, astray, requeued>>
vars == <<jobs, disk, created, handlerVars, runnerVars, faults, historyVars>>
-------------------------------------------------------------------------------
(* One job *)

Absent == -1  \* the timestamp is missing

SchedulerStates == {"queued", "running", "retry_wait", "terminal", "exhausted"}

Job == [id : JobIds, status : Statuses, state : SchedulerStates, attempt : Nat,
        timeout : Nat \union {Absent}, next : Nat \union {Absent}]

\* A timestamp that is now or past, or absent.
Due(t) == t <= 0

NewJob(b) ==
    [id |-> b, status |-> "queued", state |-> "queued", attempt |-> 0,
     timeout |-> Absent, next |-> 0]

ClaimedJob(j) ==
    [j EXCEPT !.status = "running", !.state = "running", !.attempt = j.attempt + 1,
              !.timeout = Lease, !.next = Absent]

\* Fault: one attempt too many.
scheduleRetryOffByOne(j) ==
    IF j.attempt <= MaxAttempts
    THEN [j EXCEPT !.status = "failed", !.state = "retry_wait", !.next = RetryDelay]
    ELSE [j EXCEPT !.status = "failed", !.state = "exhausted", !.next = Absent]

scheduleBenchmarkJobRetry(j) ==
    IF j.attempt < MaxAttempts
    THEN [j EXCEPT !.status = "failed", !.state = "retry_wait", !.next = RetryDelay]
    ELSE [j EXCEPT !.status = "failed", !.state = "exhausted", !.next = Absent]

\* Fault: a lease counts as over one tick before it is.
TimedOutEarly(j) == j.status = "running" /\ j.timeout <= 1

\* A running job whose lease is over; a job without a lease was never claimed
\* and is given one that ends now.
TimedOut(j) == j.status = "running" /\ Due(j.timeout)

\* Fault: every failed job counts as waiting for a retry.
RetryReadyAnyFailed(j) == j.status = "failed" /\ Due(j.next)

RetryReady(j) == j.status = "failed" /\ j.state = "retry_wait" /\ Due(j.next)

\* The body of the loop of reconcileBenchmarkJobsForNode.
ReconciledJob(j) ==
    IF TimedOut(j) THEN
        [scheduleBenchmarkJobRetry(j) EXCEPT !.timeout = IF j.timeout = Absent THEN 0 ELSE j.timeout]
    ELSE IF RetryReady(j) THEN
        [j EXCEPT !.status = "queued", !.state = "queued"]
    ELSE IF j.status = "queued" /\ j.next = Absent THEN
        [j EXCEPT !.next = 0]
    ELSE j

\* The switch of subscriberBenchmarkJobStatus.
StatusJob(j, s) ==
    CASE s = "running"   -> [j EXCEPT !.status = s, !.state = "running",
                                      !.timeout = IF j.timeout = Absent THEN Lease ELSE j.timeout]
      [] s = "failed"    -> scheduleBenchmarkJobRetry(j)
      [] s = "queued"    -> [j EXCEPT !.status = s]
      [] OTHER           -> [j EXCEPT !.status = s, !.state = "terminal"]

\* completeBenchmarkJobWithResult: the status is kept beside the final state.
ResultJob(j, s) == [j EXCEPT !.status = s, !.state = "terminal"]

\* Reports that make a job claimable, or running, whatever became of it.
Requeues(kind, s) == s = "queued" \/ (kind = "result" /\ s = "running")
-------------------------------------------------------------------------------
(* The list of jobs *)

Has(list, b) == \E i \in 1..Len(list) : list[i].id = b
Position(list, b) == CHOOSE i \in 1..Len(list) : list[i].id = b
findBenchmarkJob(list, b) == list[Position(list, b)]

\* The job goes to the front, its old copy goes away, and the list is cut.
upsertBenchmarkJob(list, j) ==
    LET rest == IF Has(list, j.id) THEN RemoveAt(list, Position(list, j.id)) ELSE list
    IN  SubSeq(<<j>> \o rest, 1, IF Len(rest) < MaxJobs THEN Len(rest) + 1 ELSE MaxJobs)

\* Fault: a time-out does not set run.Changed.
ReconcileChangesRetriesOnly(list) == \E i \in 1..Len(list) : RetryReady(list[i])

\* run.Changed: only then the reconciled list replaces the one of the node.
ReconcileChanges(list) == \E i \in 1..Len(list) : TimedOut(list[i]) \/ RetryReady(list[i])

Reconciled(list) ==
    IF ReconcileChanges(list) THEN [i \in 1..Len(list) |-> ReconciledJob(list[i])] ELSE list

Claimable(j) == j.status = "queued" /\ Due(j.next)

\* nextQueuedBenchmarkJob: i is the first claimable position of the list.
NextQueued(list, i) ==
    /\ Claimable(list[i])
    /\ \A k \in 1..(i - 1) : ~ Claimable(list[k])
-------------------------------------------------------------------------------
NoCall == [kind |-> "none", id |-> NoJob, status |-> "none"]

Init ==
    /\ jobs = <<>>
    /\ disk = <<>>
    /\ created = {}
    /\ stage = [h \in Handlers |-> "free"]
    /\ call = [h \in Handlers |-> NoCall]
    /\ writes = [h \in Handlers |-> <<>>]
    /\ answer = [h \in Handlers |-> NoJob]
    /\ awaited = [h \in Handlers |-> FALSE]
    /\ rpc = "idle"
    /\ rjob = NoJob
    /\ acked = {}
    /\ faults = 0
    /\ stale = [h \in Handlers |-> FALSE]
    /\ astray = {}
    /\ requeued = {}

\* Handler h has read the store and will write the lists ws and answer ans.
Work(h, ws, ans) ==
    /\ stage' = [stage EXCEPT ![h] = "writing"]
    /\ writes' = [writes EXCEPT ![h] = ws]
    /\ answer' = [answer EXCEPT ![h] = ans]
    /\ stale' = [stale EXCEPT ![h] = FALSE]
    /\ UNCHANGED <<jobs, disk, awaited, runnerVars, faults>>
-------------------------------------------------------------------------------
(* Calls that do not come from the runner *)

\* nodeAction "benchmark": the operator queues a job for an eligible node.
CreateJob(h) ==
    /\ stage[h] = "free"
    /\ \E b \in JobIds \ created :
          /\ created' = created \union {b}
          /\ Work(h, <<upsertBenchmarkJob(jobs, NewJob(b))>>, b)
    /\ UNCHANGED <<call, astray, requeued>>

\* reconcileBenchmarkJobs, from the background tick or the operator.
ReconcileJobs(h) ==
    /\ stage[h] = "free"
    /\ ReconcileChanges(jobs)
    /\ Work(h, <<Reconciled(jobs)>>, NoJob)
    /\ UNCHANGED <<created, call, astray, requeued>>

\* subscriberHeartbeat and every other handler that updates the node but not
\* its jobs: it writes the jobs back as it read them.
UpdateNode(h) ==
    /\ stage[h] = "free"
    /\ Work(h, <<jobs>>, NoJob)
    /\ UNCHANGED <<created, call, astray, requeued>>
-------------------------------------------------------------------------------
(* Handlers of the runner's calls *)

\* subscriberBenchmarkJobClaim: reconcile, then claim from the same copy.
ClaimJob(h) ==
    /\ stage[h] = "received"
    /\ call[h].kind = "claim"
    /\ LET list == Reconciled(jobs)
           first == IF ReconcileChanges(jobs) THEN <<list>> ELSE <<>>
       IN  \/ \E i \in 1..Len(list) :
                 /\ NextQueued(list, i)
                 /\ Work(h, Append(first, upsertBenchmarkJob(list, ClaimedJob(list[i]))),
                         list[i].id)
           \/ /\ \A i \in 1..Len(list) : ~ Claimable(list[i])
              /\ Work(h, first, NoJob)
    /\ UNCHANGED <<created, call, astray, requeued>>

\* History: h applies a report to the job it is about.
Reports(h) ==
    /\ astray' = IF stale[h] THEN astray \union {call[h].id} ELSE astray
    /\ requeued' = IF Requeues(call[h].kind, call[h].status)
                   THEN requeued \union {call[h].id} ELSE requeued

\* subscriberBenchmarkJobStatus; a job that was cut from the list is a 404.
JobStatus(h) ==
    /\ stage[h] = "received"
    /\ call[h].kind = "status"
    /\ LET b == call[h].id
       IN  \/ /\ Has(jobs, b)
              /\ Work(h, <<upsertBenchmarkJob(jobs,
                              StatusJob(findBenchmarkJob(jobs, b), call[h].status))>>, b)
           \/ /\ ~ Has(jobs, b)
              /\ Work(h, <<>>, Failed)
    /\ Reports(h)
    /\ UNCHANGED <<created, call>>

\* subscriberBenchmarkResult; a result without a job is accepted all the same.
JobResult(h) ==
    /\ stage[h] = "received"
    /\ call[h].kind = "result"
    /\ LET b == call[h].id
       IN  \/ /\ Has(jobs, b)
              /\ Work(h, <<upsertBenchmarkJob(jobs,
                              ResultJob(findBenchmarkJob(jobs, b), call[h].status))>>, b)
           \/ /\ ~ Has(jobs, b)
              /\ Work(h, <<jobs>>, b)
    /\ Reports(h)
    /\ UNCHANGED <<created, call>>
-------------------------------------------------------------------------------
(* Store.UpsertNode, and the end of a handler *)

\* History: h replaces the node, which overtakes the other handlers that have
\* read it; if h was overtaken itself, what it writes of any job may be old.
Overtakes(h) ==
    /\ stale' = [g \in Handlers |-> stale[g] \/ (g # h /\ writes[g] # <<>>)]
    /\ astray' = IF stale[h] THEN created ELSE astray
    /\ UNCHANGED requeued

\* Fault: the handler answers although nothing was saved.
WriteMemoryOnly(h) ==
    /\ stage[h] = "writing"
    /\ writes[h] # <<>>
    /\ jobs' = Head(writes[h])
    /\ writes' = [writes EXCEPT ![h] = Tail(@)]
    /\ Overtakes(h)
    /\ UNCHANGED <<disk, created, stage, call, answer, awaited, runnerVars, faults>>

\* The node is replaced in memory and the state file is saved.
Write(h) ==
    /\ stage[h] = "writing"
    /\ writes[h] # <<>>
    /\ jobs' = Head(writes[h])
    /\ disk' = Head(writes[h])
    /\ writes' = [writes EXCEPT ![h] = Tail(@)]
    /\ Overtakes(h)
    /\ UNCHANGED <<created, stage, call, answer, awaited, runnerVars, faults>>

\* The node is replaced in memory, the save fails and the handler answers 500.
WriteUnsaved(h) ==
    /\ stage[h] = "writing"
    /\ writes[h] # <<>>
    /\ faults < MaxFaults
    /\ faults' = faults + 1
    /\ jobs' = Head(writes[h])
    /\ writes' = [writes EXCEPT ![h] = <<>>]
    /\ answer' = [answer EXCEPT ![h] = Failed]
    /\ Overtakes(h)
    /\ UNCHANGED <<disk, created, stage, call, awaited, runnerVars>>

RunnerIdle == rpc' = "idle" /\ rjob' = NoJob

\* What the runner makes of the answer to its call of kind k.
RunnerHears(k, ans) ==
    \/ /\ ans \in {NoJob, Failed}
       /\ RunnerIdle
       /\ UNCHANGED acked
    \/ /\ ans \notin {NoJob, Failed}
       /\ \/ k = "claim" /\ rpc' = "claimed" /\ rjob' = ans /\ UNCHANGED acked
          \/ k = "status" /\ rpc = "starting" /\ rpc' = "executing" /\ UNCHANGED <<rjob, acked>>
          \/ k = "status" /\ rpc = "reporting" /\ RunnerIdle /\ UNCHANGED acked
          \/ k = "result" /\ RunnerIdle /\ acked' = acked \union {ans}

\* The handler answers; nobody may be listening any more.
Reply(h) ==
    /\ stage[h] = "writing"
    /\ writes[h] = <<>>
    /\ stage' = [stage EXCEPT ![h] = "free"]
    /\ call' = [call EXCEPT ![h] = NoCall]
    /\ answer' = [answer EXCEPT ![h] = NoJob]
    /\ awaited' = [awaited EXCEPT ![h] = FALSE]
    /\ IF awaited[h] THEN RunnerHears(call[h].kind, answer[h]) ELSE UNCHANGED runnerVars
    /\ stale' = [stale EXCEPT ![h] = FALSE]
    /\ UNCHANGED <<jobs, disk, created, writes, faults, astray, requeued>>
-------------------------------------------------------------------------------
(* runSubscriberBenchmarkRunnerJob *)

Send(h, c, l) ==
    /\ stage[h] = "free"
    /\ stage' = [stage EXCEPT ![h] = "received"]
    /\ call' = [call EXCEPT ![h] = c]
    /\ awaited' = [awaited EXCEPT ![h] = TRUE]
    /\ rpc' = l
    /\ UNCHANGED <<jobs, disk, created, writes, answer, rjob, acked, astray, requeued>>

\* The runner polls again: reports that are still on their way are overtaken.
SendClaim(h) ==
    /\ rpc = "idle"
    /\ Send(h, [kind |-> "claim", id |-> NoJob, status |-> "none"], "claiming")
    /\ stale' = [g \in Handlers |-> stale[g] \/ stage[g] = "received"]
    /\ UNCHANGED faults

SendRunning(h) ==
    /\ rpc = "claimed"
    /\ Send(h, [kind |-> "status", id |-> rjob, status |-> "running"], "starting")
    /\ UNCHANGED <<faults, stale>>

\* Putting a job back is bounded like a fault.
Ends(kind, s) ==
    IF Requeues(kind, s) THEN faults < MaxFaults /\ faults' = faults + 1 ELSE UNCHANGED faults

\* A subscriber that is not the built-in runner may end with a status.
SendStatus(h) ==
    /\ rpc = "executing"
    /\ \E s \in Reported \intersect StatusReports :
          /\ Send(h, [kind |-> "status", id |-> rjob, status |-> s], "reporting")
          /\ Ends("status", s)
    /\ UNCHANGED stale

SendResult(h) ==
    /\ rpc = "executing"
    /\ \E s \in Reported :
          /\ Send(h, [kind |-> "result", id |-> rjob, status |-> s], "reporting")
          /\ Ends("result", s)
    /\ UNCHANGED stale

\* The runner's call times out, or its process ends: it forgets the job.
RunnerGivesUp ==
    /\ rpc # "idle"
    /\ RunnerIdle
    /\ awaited' = [h \in Handlers |-> FALSE]
    /\ UNCHANGED <<jobs, disk, created, stage, call, writes, answer, acked, faults,
                   historyVars>>
-------------------------------------------------------------------------------
(* Failures and time *)

\* A call never reaches the marshal.
LoseCall(h) ==
    /\ stage[h] = "received"
    /\ faults < MaxFaults
    /\ faults' = faults + 1
    /\ stage' = [stage EXCEPT ![h] = "free"]
    /\ call' = [call EXCEPT ![h] = NoCall]
    /\ awaited' = [awaited EXCEPT ![h] = FALSE]
    /\ IF awaited[h] THEN RunnerIdle ELSE UNCHANGED <<rpc, rjob>>
    /\ stale' = [stale EXCEPT ![h] = FALSE]
    /\ UNCHANGED <<jobs, disk, created, writes, answer, acked, astray, requeued>>

\* The marshal restarts: its handlers are gone and the state file is loaded.
Restart ==
    /\ faults < MaxFaults
    /\ faults' = faults + 1
    /\ jobs' = disk
    /\ stage' = [h \in Handlers |-> "free"]
    /\ call' = [h \in Handlers |-> NoCall]
    /\ writes' = [h \in Handlers |-> <<>>]
    /\ answer' = [h \in Handlers |-> NoJob]
    /\ awaited' = [h \in Handlers |-> FALSE]
    /\ IF \E h \in Handlers : awaited[h] THEN RunnerIdle ELSE UNCHANGED <<rpc, rjob>>
    /\ stale' = [h \in Handlers |-> FALSE]
    /\ UNCHANGED <<disk, created, acked, astray, requeued>>

Earlier(t) == IF t > 0 THEN t - 1 ELSE t
OlderJob(j) == [j EXCEPT !.timeout = Earlier(j.timeout), !.next = Earlier(j.next)]
Older(list) == [i \in 1..Len(list) |-> OlderJob(list[i])]

\* A unit of time passes for every copy of a job.
Tick ==
    /\ jobs' = Older(jobs)
    /\ disk' = Older(disk)
    /\ writes' = [h \in Handlers |-> [k \in 1..Len(writes[h]) |-> Older(writes[h][k])]]
    /\ UNCHANGED <<created, stage, call, answer, awaited, runnerVars, faults, historyVars>>
-------------------------------------------------------------------------------
MarshalStep(h) ==
    \/ CreateJob(h) \/ ReconcileJobs(h) \/ UpdateNode(h)
    \/ ClaimJob(h) \/ JobStatus(h) \/ JobResult(h)
    \/ Write(h) \/ WriteUnsaved(h) \/ Reply(h)

RunnerStep(h) == SendClaim(h) \/ SendRunning(h) \/ SendStatus(h) \/ SendResult(h)

Next ==
    \/ \E h \in Handlers : MarshalStep(h) \/ RunnerStep(h) \/ LoseCall(h)
    \/ RunnerGivesUp
    \/ Restart
    \/ Tick

Spec == Init /\ [][Next]_vars

(* Fairness.  Time passes; a handler that was started runs to its end; the   *)
(* runner's loop polls again and goes on with a job it holds.  Its sends are *)
(* strongly fair because other callers share the handlers.  Operators,       *)
(* heartbeats, the background tick (off by default), faults and the runner's *)
(* timeouts are not fair.                                                    *)
Fairness ==
    /\ WF_vars(Tick)
    /\ \A h \in Handlers :
          WF_vars(ClaimJob(h) \/ JobStatus(h) \/ JobResult(h) \/ Write(h) \/ Reply(h))
    /\ SF_vars(\E h \in Handlers : SendClaim(h))
    /\ SF_vars(\E h \in Handlers : SendRunning(h))
    /\ SF_vars(\E h \in Handlers : SendStatus(h) \/ SendResult(h))

FairSpec == Spec /\ Fairness
-------------------------------------------------------------------------------
(* Properties *)

Calls == [kind : {"none", "claim", "status", "result"},
          id : JobIds \union {NoJob}, status : Statuses \union {"none"}]

\* The type of every variable.
TypeOK ==
    /\ jobs \in Seq(Job)
    /\ disk \in Seq(Job)
    /\ created \subseteq JobIds
    /\ stage \in [Handlers -> {"free", "received", "writing"}]
    /\ call \in [Handlers -> Calls]
    /\ writes \in [Handlers -> Seq(Seq(Job))]
    /\ answer \in [Handlers -> JobIds \union {NoJob, Failed}]
    /\ awaited \in [Handlers -> BOOLEAN]
    /\ rpc \in {"idle", "claiming", "claimed", "starting", "executing", "reporting"}
    /\ rjob \in JobIds \union {NoJob}
    /\ acked \subseteq JobIds
    /\ faults \in 0..MaxFaults
    /\ stale \in [Handlers -> BOOLEAN]
    /\ astray \subseteq JobIds
    /\ requeued \subseteq JobIds

\* A job that may still be attempted has an attempt left, none was attempted
\* more than max_attempts times, only a failed job waits for a retry, and a
\* running job has a lease, so that its time-out is never a matter of defaults.
JobOK(j) ==
    /\ j.attempt <= MaxAttempts
    /\ (j.status = "queued" \/ j.state = "retry_wait") => j.attempt < MaxAttempts
    /\ j.state = "retry_wait" => j.status = "failed"
    /\ j.status = "running" => j.timeout # Absent

\* A bounded list that holds a job once; a job its subscriber put back may be
\* attempted beyond the bound and may run without a lease.
ListOK(list) ==
    /\ Len(list) <= MaxJobs
    /\ \A i, k \in 1..Len(list) : list[i].id = list[k].id => i = k
    /\ \A i \in 1..Len(list) :
          /\ list[i].id \in created
          /\ list[i].id \notin requeued => JobOK(list[i])

\* benchmark_jobs.go: the list in memory, the one in the state file and every
\* copy a handler is about to write are in order, though handlers write copies
\* that others have overtaken, reports arrive late, and calls, saves and
\* processes fail.
JobsInOrder ==
    /\ ListOK(jobs)
    /\ ListOK(disk)
    /\ \A h \in Handlers : \A k \in 1..Len(writes[h]) : ListOK(writes[h][k])

\* The state file never takes back an ended job or an attempt: a terminal job
\* stays as it is, and attempts are not uncounted, through retries, runners
\* that give up, lost answers, failed saves and restarts.  What does take them
\* back: a write of an overtaken copy, a report that reaches the marshal after
\* its sender polled again, and a report that puts the job back.
DiskMovesForward ==
    [][\A i \in 1..Len(disk), k \in 1..Len(disk') :
          (disk[i].id = disk'[k].id /\ disk[i].id \notin astray' \union requeued') =>
             /\ disk'[k].attempt >= disk[i].attempt
             /\ disk[i].state = "terminal" =>
                   disk'[k].state = "terminal" /\ disk'[k].status = disk[i].status]_vars

\* A result acknowledged to the runner survives a restart: as long as the job
\* is listed, the state file has it, and has it as terminal, unless an
\* overtaken write or report, or one that puts the job back, was applied to it.
AckedIsDurable ==
    \A b \in acked \ (astray \union requeued) :
       /\ Has(jobs, b) => Has(disk, b)
       /\ Has(disk, b) => findBenchmarkJob(disk, b).state = "terminal"

\* The lease protects the runner: until it is over nobody takes the job away,
\* whichever handlers run beside it, unless one of them writes an overtaken
\* copy or applies an overtaken report.
LeaseProtects ==
    \A i \in 1..Len(jobs) :
       (/\ rpc \in {"claimed", "starting", "executing"}
        /\ jobs[i].id = rjob
        /\ rjob \notin astray
        /\ jobs[i].timeout > 0)
       => jobs[i].status = "running"

Ended(b) ==
    \A i \in 1..Len(jobs) : jobs[i].id = b => jobs[i].state \in {"terminal", "exhausted"}

\* Every listed job ends or is cut from the list, though its runner may die any
\* number of times: its lease ends, it is retried, and its attempts run out.
EveryJobEnds == \A b \in JobIds : Has(jobs, b) ~> Ended(b)
===============================================================================
