---------------------------- MODULE ForecastJobs ----------------------------
(***************************************************************************)
(* Asynchronous forecast processing: API requests (BackgroundJobService,   *)
(* ForecastRunService and MLForecastingService), the durable rows in       *)
(* PostgreSQL, the RQ queue in Redis and the worker processes, all         *)
(* interleaved.                                                            *)
(*                                                                         *)
(* A handler is a sequence of steps.  Every SELECT is a step that copies   *)
(* what it read into the handler's session (req); every commit is a step   *)
(* that writes from that session, not from the current row: there are no   *)
(* version columns and no row locks here, so the last writer wins.  The    *)
(* ORM leaves a column out of the UPDATE when the session already holds    *)
(* the new value (WriteJob, WriteRun).                                     *)
(***************************************************************************)
EXTENDS JobRules, Naturals

CONSTANTS
    Runs,            \* forecast runs
    Jobs,            \* ids of background_jobs rows: bounds the rows created
    Clients,         \* concurrent API requests
    Workers,         \* RQ worker processes
    None,            \* no run, no job
    MaxRetries,      \* RQ_MAX_RETRIES
    ImmediateRetry,  \* RQ_RETRY_INTERVAL_SECONDS = 0
    Ops,             \* the endpoints clients call
    Faults           \* the failures that may happen

OpNames == {"create", "enqueue", "get", "cancel", "retry", "cancel_run", "process"}

\* api: a request dies or gets a database error    redis: Redis calls fail
\* connect: a worker's session cannot connect      kill: a worker dies
\* persist: writing the predictions fails          ml: the pipeline fails
\* expire: RQ forgets a settled job after its TTL
FaultNames == {"api", "redis", "connect", "kill", "persist", "ml", "expire"}

ASSUME ParametersAssumption ==
    /\ MaxRetries \in Nat
    /\ ImmediateRetry \in BOOLEAN
    /\ Ops \subseteq OpNames
    /\ Faults \subseteq FaultNames
    /\ Clients \cap Workers = {}
    /\ None \notin Runs
    /\ None \notin Jobs

VARIABLES
    runStatus,    \* forecast_runs.status, "none" before the row exists
    results,      \* the runs whose predictions and metrics are stored
    jobStatus,    \* background_jobs.status, "none" before the row exists
    jobRun,       \* background_jobs.entity_id
    attempts,     \* background_jobs.attempts
    rq,           \* status of the RQ job with the row's rq_job_id
    retriesLeft,  \* RQ's retries_left for that job
    pc,           \* where each request or worker is
    req,          \* its session: what it read and works on
    withdrawn     \* history: the runs cancelled while nobody was at work on them

runVars == <<runStatus, results>>
jobVars == <<jobStatus, jobRun, attempts>>
rqVars  == <<rq, retriesLeft>>
vars    == <<runVars, jobVars, rqVars, pc, req, withdrawn>>

Procs == Clients \cup Workers

NoRequest ==
    [op |-> "none", job |-> None, run |-> None, jobSeen |-> "none",
     runSeen |-> "none", attempts |-> 0, rqSeen |-> "none"]

Init ==
    /\ runStatus = [r \in Runs |-> "none"]
    /\ results = {}
    /\ jobStatus = [j \in Jobs |-> "none"]
    /\ jobRun = [j \in Jobs |-> None]
    /\ attempts = [j \in Jobs |-> 0]
    /\ rq = [j \in Jobs |-> "absent"]
    /\ retriesLeft = [j \in Jobs |-> 0]
    /\ pc = [p \in Procs |-> "idle"]
    /\ req = [p \in Procs |-> NoRequest]
    /\ withdrawn = {}

-----------------------------------------------------------------------------
(* Handlers and sessions *)

Goto(p, label, session) ==
    /\ pc' = [pc EXCEPT ![p] = label]
    /\ req' = [req EXCEPT ![p] = session]

Done(p) == Goto(p, "idle", NoRequest)

\* A session that works on a run whose status it has read, or on a job
RunSession(op, r, seen) == [NoRequest EXCEPT !.op = op, !.run = r, !.runSeen = seen]

JobSession(op, j, r, seen, tries) ==
    [NoRequest EXCEPT !.op = op, !.job = j, !.run = r, !.jobSeen = seen, !.attempts = tries]

\* ... and what it has read or written since
SawRun(s, seen) == [s EXCEPT !.runSeen = seen]

SawJob(s, seen, tries) == [s EXCEPT !.jobSeen = seen, !.attempts = tries]

SawRq(s, seen) == [s EXCEPT !.rqSeen = seen]

\* UPDATE background_jobs SET status, from a session that holds `seen`
WriteJob(j, seen, new) ==
    jobStatus' = [jobStatus EXCEPT ![j] = IF seen = new THEN @ ELSE new]

\* UPDATE forecast_runs SET status, likewise
WriteRun(r, seen, new) ==
    runStatus' = [runStatus EXCEPT ![r] = IF seen = new THEN @ ELSE new]

ActiveJobs(r) == {j \in Jobs : jobRun[j] = r /\ jobStatus[j] \in ActiveJobStatuses}

\* What a missing partial index would let through.
IndexNeverRefuses(j, seen, new) == TRUE

\* uq_background_jobs_active_forecast_run: at most one active row per run
IndexAllows(j, seen, new) ==
    new \in ActiveJobStatuses /\ seen # new => ActiveJobs(jobRun[j]) \subseteq {j}

HeldBy(j) == {w \in Workers : pc[w] # "idle" /\ req[w].job = j}

\* No worker holds a job of the run, no request processes it
Idle(r) ==
    /\ \A j \in Jobs : jobRun[j] = r => HeldBy(j) = {}
    /\ \A c \in Clients : req[c].op = "process" => req[c].run # r

\* The cancellation took effect, and before anybody worked on the run
Withdraw(r) ==
    withdrawn' = IF Idle(r) /\ runStatus'[r] = "cancelled"
                 THEN withdrawn \cup {r} ELSE withdrawn

-----------------------------------------------------------------------------
(* Forecast run requests *)

\* ForecastRunService.create_run
CreateRun(r) ==
    /\ "create" \in Ops
    /\ runStatus[r] = "none"
    /\ runStatus' = [runStatus EXCEPT ![r] = "pending"]
    /\ UNCHANGED <<results, jobVars, rqVars, pc, req, withdrawn>>

\* ForecastRunService.cancel_run: load and check ...
CancelRunLoad(c, r) ==
    /\ "cancel_run" \in Ops
    /\ pc[c] = "idle"
    /\ RunCancellable(runStatus[r])
    /\ Goto(c, "cancel_run_write", RunSession("cancel_run", r, runStatus[r]))
    /\ UNCHANGED <<runVars, jobVars, rqVars, withdrawn>>

\* ... then write and commit; the background job is left alone
CancelRunWrite(c) ==
    /\ pc[c] = "cancel_run_write"
    /\ WriteRun(req[c].run, req[c].runSeen, "cancelled")
    /\ Withdraw(req[c].run)
    /\ Done(c)
    /\ UNCHANGED <<results, jobVars, rqVars>>

-----------------------------------------------------------------------------
(* Background job requests: enqueue, get, cancel, retry *)

\* enqueue_forecast_run: load the run
EnqueueLoad(c, r) ==
    /\ "enqueue" \in Ops
    /\ pc[c] = "idle"
    /\ runStatus[r] # "none"
    /\ Goto(c, "check", RunSession("enqueue", r, runStatus[r]))
    /\ UNCHANGED <<runVars, jobVars, rqVars, withdrawn>>

CancelGoesOn(s) == s.op = "cancel" /\ JobCancellable(s.jobSeen)

RetryGoesOn(s) == s.op = "retry" /\ JobRetryable(s.jobSeen, s.attempts, MaxRetries)

\* Where a request continues once get_job has returned the row
Resume(c, s) ==
    \/ CancelGoesOn(s) /\ Goto(c, "cancel_rq", SawJob(s, s.jobSeen, 0))
    \/ RetryGoesOn(s) /\ Goto(c, "retry_load", SawJob(s, s.jobSeen, 0))
    \/ ~CancelGoesOn(s) /\ ~RetryGoesOn(s) /\ Done(c)

\* get_job, the first step of cancel_job and retry_job: load the row.  A row in
\* a terminal status is not reconciled with RQ.
GetJobLoad(c, j, op) ==
    /\ op \in Ops
    /\ pc[c] = "idle"
    /\ jobStatus[j] # "none"
    /\ LET s == JobSession(op, j, jobRun[j], jobStatus[j], attempts[j])
       IN  IF jobStatus[j] \in TerminalJobStatuses
           THEN Resume(c, s)
           ELSE Goto(c, "reconcile", s)
    /\ UNCHANGED <<runVars, jobVars, rqVars, withdrawn>>

\* _reconcile_job_status: ask RQ.  Nothing to write when RQ has no such job,
\* agrees, or says "queued" (that status has no branch), or is unavailable.
ReconcileRead(c) ==
    /\ pc[c] = "reconcile"
    /\ LET mapped == MapRqStatus(rq[req[c].job])
       IN  \/ /\ \/ mapped \in {"none", "queued", req[c].jobSeen}
                 \/ "redis" \in Faults
              /\ Resume(c, req[c])
           \/ /\ mapped \notin {"none", "queued", req[c].jobSeen}
              /\ Goto(c, "reconcile_write", SawRq(req[c], mapped))
    /\ UNCHANGED <<runVars, jobVars, rqVars, withdrawn>>

\* ... and write what RQ said.  An index violation ends the request (503).
ReconcileWrite(c) ==
    LET s == req[c] IN
    /\ pc[c] = "reconcile_write"
    /\ \/ /\ IndexAllows(s.job, s.jobSeen, s.rqSeen)
          /\ WriteJob(s.job, s.jobSeen, s.rqSeen)
          /\ Resume(c, SawRq(SawJob(s, s.rqSeen, s.attempts), "none"))
       \/ /\ ~IndexAllows(s.job, s.jobSeen, s.rqSeen)
          /\ Done(c)
          /\ UNCHANGED jobStatus
    /\ UNCHANGED <<runVars, jobRun, attempts, rqVars, withdrawn>>

\* cancel_job: dispatcher.cancel_job.  A job RQ does not know is fine; one
\* that is cancelled already is an InvalidJobOperation, reported as a 503.
CancelRq(c) ==
    LET j == req[c].job IN
    /\ pc[c] = "cancel_rq"
    /\ \/ /\ rq[j] # "canceled"
          /\ rq' = [rq EXCEPT ![j] = IF @ = "absent" THEN @ ELSE "canceled"]
          /\ Goto(c, "cancel_load", req[c])
       \/ /\ rq[j] = "canceled" \/ "redis" \in Faults
          /\ \/ UNCHANGED rq
             \/ rq[j] # "absent" /\ rq' = [rq EXCEPT ![j] = "canceled"]
          /\ Done(c)
    /\ UNCHANGED <<runVars, jobVars, retriesLeft, withdrawn>>

\* ... load the run, whatever its status ...
CancelLoadRun(c) ==
    /\ pc[c] = "cancel_load"
    /\ Goto(c, "cancel_write", SawRun(req[c], runStatus[req[c].run]))
    /\ UNCHANGED <<runVars, jobVars, rqVars, withdrawn>>

\* ... and write job and run in one commit
CancelWrite(c) ==
    LET s == req[c] IN
    /\ pc[c] = "cancel_write"
    /\ WriteJob(s.job, s.jobSeen, "cancelled")
    /\ WriteRun(s.run, s.runSeen, "cancelled")
    /\ Withdraw(s.run)
    /\ Done(c)
    /\ UNCHANGED <<results, jobRun, attempts, rqVars>>

\* retry_job: load the run of the failed job
RetryLoadRun(c) ==
    /\ pc[c] = "retry_load"
    /\ Goto(c, "check", RunSession("retry", req[c].run, runStatus[req[c].run]))
    /\ UNCHANGED <<runVars, jobVars, rqVars, withdrawn>>

\* enqueue_forecast_run and retry_job: return the active job of the run if
\* there is one, refuse a run that cannot be processed
CheckActiveJob(c) ==
    /\ pc[c] = "check"
    /\ IF ActiveJobs(req[c].run) = {} /\ RunProcessable(req[c].runSeen)
       THEN Goto(c, "create", req[c])
       ELSE Done(c)
    /\ UNCHANGED <<runVars, jobVars, rqVars, withdrawn>>

\* A job dispatched from a transaction that is never committed.
InsertUncommitted(c, j) ==
    /\ pc[c] = "create"
    /\ jobStatus[j] = "none"
    /\ Goto(c, "dispatch", JobSession(req[c].op, j, req[c].run, "none", 0))
    /\ UNCHANGED <<runVars, jobVars, rqVars, withdrawn>>

\* _create_forecast_processing_job.  retry_job also moves the run back to
\* pending in the same transaction.
InsertJob(c, j) ==
    LET s == req[c] IN
    /\ pc[c] = "create"
    /\ jobStatus[j] = "none"
    /\ ActiveJobs(s.run) = {}
    /\ jobStatus' = [jobStatus EXCEPT ![j] = "queued"]
    /\ jobRun' = [jobRun EXCEPT ![j] = s.run]
    /\ IF s.op = "retry"
       THEN WriteRun(s.run, s.runSeen, "pending")
       ELSE UNCHANGED runStatus
    /\ Goto(c, "dispatch", JobSession(s.op, j, s.run, "none", 0))
    /\ UNCHANGED <<results, attempts, rqVars, withdrawn>>

\* IntegrityError: roll back, answer with the active job or a conflict.  The
\* same answer stands for the bound: no row left in Jobs.
InsertRefused(c) ==
    /\ pc[c] = "create"
    /\ \/ ActiveJobs(req[c].run) # {}
       \/ \A j \in Jobs : jobStatus[j] # "none"
    /\ Done(c)
    /\ UNCHANGED <<runVars, jobVars, rqVars, withdrawn>>

\* Retry(max=max_retries - 1), and no Retry at all unless max_retries > 1
RetryBudget == IF MaxRetries > 1 THEN MaxRetries - 1 ELSE 0

\* The first delivery forgotten: Retry(max=max_retries).
EnqueueWithAllRetries(j) ==
    /\ rq' = [rq EXCEPT ![j] = "queued"]
    /\ retriesLeft' = [retriesLeft EXCEPT ![j] = MaxRetries]

EnqueueInRq(j) ==
    /\ rq' = [rq EXCEPT ![j] = "queued"]
    /\ retriesLeft' = [retriesLeft EXCEPT ![j] = RetryBudget]

\* _dispatch_job, after the row is committed
Dispatch(c) ==
    /\ pc[c] = "dispatch"
    /\ EnqueueInRq(req[c].job)
    /\ Done(c)
    /\ UNCHANGED <<runVars, jobVars, withdrawn>>

\* Redis fails; the job may have reached the queue all the same
DispatchFails(c) ==
    /\ "redis" \in Faults
    /\ pc[c] = "dispatch"
    /\ EnqueueInRq(req[c].job) \/ UNCHANGED rqVars
    /\ Goto(c, "enqueue_failed", req[c])
    /\ UNCHANGED <<runVars, jobVars, withdrawn>>

\* _mark_enqueue_failed; the session still holds the status it inserted
MarkEnqueueFailed(c) ==
    /\ pc[c] = "enqueue_failed"
    /\ WriteJob(req[c].job, "queued", "failed")
    /\ Done(c)
    /\ UNCHANGED <<runVars, jobRun, attempts, rqVars, withdrawn>>

-----------------------------------------------------------------------------
(* process_forecast_run, called by POST /forecast-runs/{id}/process and by *)
(* the worker's task                                                       *)

ProcessBegin(c, r) ==
    /\ "process" \in Ops
    /\ pc[c] = "idle"
    /\ runStatus[r] # "none"
    /\ Goto(c, "load_run", RunSession("process", r, "none"))
    /\ UNCHANGED <<runVars, jobVars, rqVars, withdrawn>>

\* The call returns, or raises an AppError: the API request is over, the task
\* goes on to settle its job.  A rollback has expired the task's job object:
\* marking the job failed still works, reading it for the log line raises.
Returns(p, label) ==
    IF p \in Clients THEN Done(p) ELSE Goto(p, label, SawRun(req[p], "none"))

\* The run's status is not looked at.
LoadRunUnchecked(p) ==
    /\ pc[p] = "load_run"
    /\ Goto(p, "begin", SawRun(req[p], runStatus[req[p].run]))
    /\ UNCHANGED <<runVars, jobVars, rqVars, withdrawn>>

LoadRun(p) ==
    LET r == req[p].run IN
    /\ pc[p] = "load_run"
    /\ IF RunProcessable(runStatus[r])
       THEN Goto(p, "begin", SawRun(req[p], runStatus[r]))
       ELSE Returns(p, "fail_job")
    /\ UNCHANGED <<runVars, jobVars, rqVars, withdrawn>>

\* Without the ML libraries the run fails at once
RefuseWithoutMl(p) ==
    /\ "ml" \in Faults
    /\ pc[p] = "begin"
    /\ WriteRun(req[p].run, req[p].runSeen, "failed")
    /\ Returns(p, "fail_job")
    /\ UNCHANGED <<results, jobVars, rqVars, withdrawn>>

BeginRun(p) ==
    /\ pc[p] = "begin"
    /\ WriteRun(req[p].run, req[p].runSeen, "running")
    /\ Goto(p, "forecast", SawRun(req[p], "running"))
    /\ UNCHANGED <<results, jobVars, rqVars, withdrawn>>

\* Too little data, or an error of the pipeline
PipelineFails(p) ==
    /\ "ml" \in Faults
    /\ pc[p] = "forecast"
    /\ WriteRun(req[p].run, req[p].runSeen, "failed")
    /\ Returns(p, "fail_job")
    /\ UNCHANGED <<results, jobVars, rqVars, withdrawn>>

\* The pipeline succeeds and the run's old rows are deleted, uncommitted
Forecast(p) ==
    /\ pc[p] = "forecast"
    /\ Goto(p, "persist", req[p])
    /\ UNCHANGED <<runVars, jobVars, rqVars, withdrawn>>

\* Predictions, metrics and the status in one commit.  Whoever else has deleted
\* the old rows of this run by now cannot see the new ones and will violate
\* uq_forecast_predictions_run_product_date.
Persist(p) ==
    LET r == req[p].run
        Beaten == {q \in Procs \ {p} : pc[q] = "persist" /\ req[q].run = r}
        label == IF p \in Clients THEN "idle" ELSE "finish_job"
    IN
    /\ pc[p] = "persist"
    /\ results' = results \cup {r}
    /\ WriteRun(r, req[p].runSeen, "completed")
    /\ pc' = [q \in Procs |-> IF q = p THEN label
                              ELSE IF q \in Beaten THEN "persist_conflict" ELSE pc[q]]
    /\ req' = [req EXCEPT ![p] = IF p \in Clients THEN NoRequest
                                 ELSE SawRun(@, "none")]
    /\ UNCHANGED <<jobVars, rqVars, withdrawn>>

\* The rows cannot be written: roll back (which expires the session, so the
\* status is written whatever it was) and mark the run failed
PersistFails(p) ==
    /\ \/ pc[p] = "persist_conflict"
       \/ pc[p] = "persist" /\ "persist" \in Faults
    /\ runStatus' = [runStatus EXCEPT ![req[p].run] = "failed"]
    /\ Returns(p, "fail_job_expired")
    /\ UNCHANGED <<results, jobVars, rqVars, withdrawn>>

-----------------------------------------------------------------------------
(* The worker's task, execute_forecast_processing_job, and RQ around it    *)

\* The task is over, only RQ's bookkeeping is left
Leaves(w, label) == Goto(w, label, JobSession("task", req[w].job, None, "none", 0))

\* RQ hands a queued job to an idle worker and reports it started
Dequeue(w, j) ==
    /\ pc[w] = "idle"
    /\ rq[j] = "queued"
    /\ rq' = [rq EXCEPT ![j] = "started"]
    /\ Goto(w, "load_job", JobSession("task", j, jobRun[j], "none", 0))
    /\ UNCHANGED <<runVars, jobVars, retriesLeft, withdrawn>>

\* A job cancelled while it was queued is left alone; no other status is checked
LoadJob(w) ==
    LET j == req[w].job IN
    /\ pc[w] = "load_job"
    /\ IF jobStatus[j] = "cancelled"
       THEN Leaves(w, "return")
       ELSE Goto(w, "start_job", SawJob(req[w], jobStatus[j], attempts[j]))
    /\ UNCHANGED <<runVars, jobVars, rqVars, withdrawn>>

\* mark_job_started and commit
StartJob(w) ==
    LET s == req[w] IN
    /\ pc[w] = "start_job"
    /\ IndexAllows(s.job, s.jobSeen, "started")
    /\ WriteJob(s.job, s.jobSeen, "started")
    /\ attempts' = [attempts EXCEPT ![s.job] = s.attempts + 1]
    /\ Goto(w, "load_run", SawJob(s, "started", s.attempts + 1))
    /\ UNCHANGED <<runVars, jobRun, rqVars, withdrawn>>

\* The index refuses: the session is unusable, the handler can only re-raise
StartJobRefused(w) ==
    /\ pc[w] = "start_job"
    /\ ~IndexAllows(req[w].job, req[w].jobSeen, "started")
    /\ Leaves(w, "raise")
    /\ UNCHANGED <<runVars, jobVars, rqVars, withdrawn>>

\* mark_job_finished and commit
FinishJob(w) ==
    /\ pc[w] = "finish_job"
    /\ WriteJob(req[w].job, "started", "finished")
    /\ Leaves(w, "return")
    /\ UNCHANGED <<runVars, jobRun, attempts, rqVars, withdrawn>>

\* _mark_non_retryable_failure: the task swallows an AppError, so that RQ
\* sees a success, unless reading the expired job object raises
FailJob(w) ==
    /\ pc[w] \in {"fail_job", "fail_job_expired"}
    /\ WriteJob(req[w].job, "started", "failed")
    /\ Leaves(w, IF pc[w] = "fail_job" THEN "return" ELSE "raise")
    /\ UNCHANGED <<runVars, jobRun, attempts, rqVars, withdrawn>>

\* A transaction cannot be opened; the session stays usable
WorkerDisconnected(w) ==
    /\ "connect" \in Faults
    /\ pc[w] \in {"load_run", "forecast", "finish_job"}
    /\ Goto(w, "job_error", req[w])
    /\ UNCHANGED <<runVars, jobVars, rqVars, withdrawn>>

ErrorStatus(tries) == IF tries < MaxRetries THEN "retrying" ELSE "failed"

\* _mark_unexpected_failure, then re-raise for RQ to see
JobError(w) ==
    LET s == req[w]
        new == ErrorStatus(s.attempts)
    IN
    /\ pc[w] = "job_error"
    /\ IF IndexAllows(s.job, s.jobSeen, new)
       THEN WriteJob(s.job, s.jobSeen, new)
       ELSE UNCHANGED jobStatus
    /\ Leaves(w, "raise")
    /\ UNCHANGED <<runVars, jobRun, attempts, rqVars, withdrawn>>

\* The work-horse dies, or a statement fails and leaves a session in which the
\* failure cannot be recorded: the rows stay as they were last committed
WorkerLost(w) ==
    /\ "kill" \in Faults
    /\ pc[w] \notin {"idle", "raise"}
    /\ Leaves(w, "raise")
    /\ UNCHANGED <<runVars, jobVars, rqVars, withdrawn>>

\* The whole worker dies and RQ learns of it only later (RqCleanup)
WorkerCrash(w) ==
    /\ "kill" \in Faults
    /\ pc[w] # "idle"
    /\ Done(w)
    /\ UNCHANGED <<runVars, jobVars, rqVars, withdrawn>>

\* RQ records that the task returned
RqSuccess(w) ==
    /\ pc[w] = "return"
    /\ rq' = [rq EXCEPT ![req[w].job] = "finished"]
    /\ Done(w)
    /\ UNCHANGED <<runVars, jobVars, retriesLeft, withdrawn>>

\* A retry that costs nothing: RQ forgets to count it.
UncountedRqRetry(j) ==
    /\ rq' = [rq EXCEPT ![j] = IF retriesLeft[j] = 0 THEN "failed" ELSE "queued"]
    /\ UNCHANGED retriesLeft

\* RQ's handling of a task that raised or died.  With an interval the job waits
\* for a scheduler, and the worker runs with with_scheduler=False.
RqRetry(j) ==
    IF retriesLeft[j] = 0
    THEN /\ rq' = [rq EXCEPT ![j] = "failed"]
         /\ UNCHANGED retriesLeft
    ELSE /\ rq' = [rq EXCEPT ![j] = IF ImmediateRetry THEN "queued" ELSE "scheduled"]
         /\ retriesLeft' = [retriesLeft EXCEPT ![j] = @ - 1]

RqFailure(w) ==
    /\ pc[w] = "raise"
    /\ RqRetry(req[w].job)
    /\ Done(w)
    /\ UNCHANGED <<runVars, jobVars, withdrawn>>

\* A job is taken from a worker that is only slow.
RqCleanupOfSlowJob(j) ==
    /\ rq[j] = "started"
    /\ RqRetry(j)
    /\ UNCHANGED <<runVars, jobVars, pc, req, withdrawn>>

\* Registry maintenance finds a started job whose worker is gone
RqCleanup(j) ==
    /\ rq[j] = "started"
    /\ HeldBy(j) = {}
    /\ RqRetry(j)
    /\ UNCHANGED <<runVars, jobVars, pc, req, withdrawn>>

\* A settled job outlives its result or failure TTL
RqExpire(j) ==
    /\ "expire" \in Faults
    /\ rq[j] \in {"finished", "failed"}
    /\ rq' = [rq EXCEPT ![j] = "absent"]
    /\ UNCHANGED <<runVars, jobVars, retriesLeft, pc, req, withdrawn>>

-----------------------------------------------------------------------------
(* An API process dies, or a database error ends the request *)
RequestAborted(c) ==
    /\ "api" \in Faults
    /\ pc[c] # "idle"
    /\ Done(c)
    /\ UNCHANGED <<runVars, jobVars, rqVars, withdrawn>>

RequestBegins(c) ==
    \/ \E r \in Runs : EnqueueLoad(c, r) \/ CancelRunLoad(c, r) \/ ProcessBegin(c, r)
    \/ \E j \in Jobs, op \in {"get", "cancel", "retry"} : GetJobLoad(c, j, op)

RequestStep(c) ==
    \/ CancelRunWrite(c)
    \/ ReconcileRead(c) \/ ReconcileWrite(c)
    \/ CancelRq(c) \/ CancelLoadRun(c) \/ CancelWrite(c)
    \/ RetryLoadRun(c) \/ CheckActiveJob(c)
    \/ (\E j \in Jobs : InsertJob(c, j)) \/ InsertRefused(c)
    \/ Dispatch(c) \/ DispatchFails(c) \/ MarkEnqueueFailed(c)

ProcessStep(p) ==
    \/ LoadRun(p) \/ RefuseWithoutMl(p) \/ BeginRun(p)
    \/ PipelineFails(p) \/ Forecast(p) \/ Persist(p) \/ PersistFails(p)

TaskStep(w) ==
    \/ LoadJob(w) \/ StartJob(w) \/ StartJobRefused(w)
    \/ FinishJob(w) \/ FailJob(w) \/ JobError(w)
    \/ RqSuccess(w) \/ RqFailure(w)

WorkerFault(w) == WorkerDisconnected(w) \/ WorkerLost(w) \/ WorkerCrash(w)

Next ==
    \/ \E r \in Runs : CreateRun(r)
    \/ \E c \in Clients : RequestBegins(c) \/ RequestStep(c) \/ RequestAborted(c)
    \/ \E p \in Procs : ProcessStep(p)
    \/ \E w \in Workers : (\E j \in Jobs : Dequeue(w, j)) \/ TaskStep(w) \/ WorkerFault(w)
    \/ \E j \in Jobs : RqCleanup(j) \/ RqExpire(j)

Spec == Init /\ [][Next]_vars

\* What the deployment keeps doing: the API finishes the requests it took, the
\* workers keep taking and executing deliveries, RQ maintains its registries.
\* Nobody promises that faults stop or that a client ever calls.
Progress ==
    /\ \A c \in Clients : WF_vars(RequestStep(c))
    /\ \A w \in Workers : /\ WF_vars(\E j \in Jobs : Dequeue(w, j))
                          /\ WF_vars(ProcessStep(w) \/ TaskStep(w))
    /\ \A j \in Jobs : WF_vars(RqCleanup(j))

\* The client's side of docs/swagger.md: poll GET /jobs/{job_id} of every job
Polling == \A j \in Jobs : SF_vars(\E c \in Clients : GetJobLoad(c, j, "get"))

FairSpec == Spec /\ Progress /\ Polling

-----------------------------------------------------------------------------
(* Safety *)

RequestLabels ==
    {"cancel_run_write", "check", "create", "dispatch", "enqueue_failed", "reconcile",
     "reconcile_write", "cancel_rq", "cancel_load", "cancel_write", "retry_load"}

JobRequestLabels ==
    {"dispatch", "enqueue_failed", "reconcile", "reconcile_write", "cancel_rq",
     "cancel_load", "cancel_write", "retry_load"}

ProcessLabels == {"load_run", "begin", "forecast", "persist", "persist_conflict"}

TaskLabels ==
    {"load_job", "start_job", "finish_job", "fail_job", "fail_job_expired",
     "job_error", "return", "raise"}

Sessions ==
    [op : {"none", "enqueue", "get", "cancel", "retry", "cancel_run", "process", "task"},
     job : Jobs \cup {None}, run : Runs \cup {None},
     jobSeen : JobStatuses \cup {"none"}, runSeen : RunStatuses \cup {"none"},
     attempts : Nat,
     rqSeen : JobStatuses \cup {"none"}]

Labels == {"idle"} \cup RequestLabels \cup ProcessLabels \cup TaskLabels

RowsOK ==
    /\ runStatus \in [Runs -> RunStatuses \cup {"none"}]
    /\ results \subseteq Runs
    /\ jobStatus \in [Jobs -> JobStatuses \cup {"none"}]
    /\ jobRun \in [Jobs -> Runs \cup {None}]
    /\ attempts \in [Jobs -> Nat]
    /\ withdrawn \subseteq Runs

QueueOK ==
    /\ rq \in [Jobs -> RqStatuses]
    /\ retriesLeft \in [Jobs -> 0..RetryBudget]

\* What a handler of p that is at `label` has in its session s
SessionFits(p, label, s) ==
    /\ label \in RequestLabels => p \in Clients
    /\ label \in TaskLabels => p \in Workers
    /\ label \notin {"idle", "return", "raise"} => s.run \in Runs
    /\ label \in JobRequestLabels \cup TaskLabels => s.job \in Jobs
    /\ p \in Workers /\ label # "idle" => s.job \in Jobs
    /\ label = "reconcile_write" => s.rqSeen \in JobStatuses
    /\ label \in {"check", "create"} => s.op \in {"enqueue", "retry"}

HandlersOK ==
    /\ pc \in [Procs -> Labels]
    /\ req \in [Procs -> Sessions]
    /\ \A p \in Procs : SessionFits(p, pc[p], req[p])

\* Every row holds a status of its vocabulary, every handler is at a step
\* of its own kind with the rows it needs in its session, and RQ never has more
\* retries left than it was given.
TypeOK == RowsOK /\ QueueOK /\ HandlersOK

\* The job of a session, if any, has a row, and the run is the one that row names
OwnRow(s) ==
    s.job # None => jobStatus[s.job] # "none" /\ s.run \in {None, jobRun[s.job]}

\* What RQ delivers and what a handler works on is a committed row, and a task
\* works on the run that row names (execute raises JobExecutionError otherwise).
RowPrecedesDelivery ==
    /\ \A j \in Jobs : rq[j] # "absent" => jobStatus[j] # "none"
    /\ \A j \in Jobs : jobStatus[j] = "none" <=> jobRun[j] = None
    /\ \A p \in Procs : OwnRow(req[p])

\* A run never has two jobs in flight, whatever mixture of enqueue, retry, stale
\* reconciliation and RQ redelivery rewrites their statuses: every write of an
\* active status meets the partial unique index.
OneActiveJobPerRun ==
    \A j, k \in Jobs :
        /\ jobRun[j] # None /\ jobRun[j] = jobRun[k]
        /\ jobStatus[j] \in ActiveJobStatuses /\ jobStatus[k] \in ActiveJobStatuses
        => j = k

\* The durable attempt counter and RQ's own retry counter are kept apart, yet a
\* job is never attempted more often than max_retries (once when that is 0).
AttemptsWithinBudget == \A j \in Jobs : attempts[j] <= RetryBudget + 1

\* A worker holds a delivery alone: RQ never gives a job to a second worker
\* while the first still has it, through retries, crashes and cleanups.
OneWorkerPerJob ==
    \A v, w \in Workers :
        pc[v] # "idle" /\ pc[w] # "idle" /\ req[v].job = req[w].job => v = w

Working(p) == pc[p] \in {"begin", "forecast", "persist", "persist_conflict"}

\* A run cancelled while nobody was at work on it is never computed, even when
\* RQ delivers its job all the same and a stale reconciliation has called that
\* cancelled job started again.
CancelledRunNeverComputes == \A p \in Procs : Working(p) => req[p].run \notin withdrawn

\* No two tasks compute the same run at once, although a run is guarded by
\* nothing but a status read some steps before it is written.
OneProcessorPerRun ==
    \A p, q \in Procs : Working(p) /\ Working(q) /\ req[p].run = req[q].run => p = q

Lifecycle == INSTANCE RunLifecycle WITH status <- runStatus, stored <- results

\* Queue, redeliveries, crashes and clean-up all refine the run's lifecycle.
ImplementsLifecycle == Lifecycle!Spec

\* ensure_valid_status_transition states the steps a job's status may take.
JobStatusFollowsTable ==
    [][\A j \in Jobs : jobStatus[j] # "none" =>
           ValidStatusTransition(jobStatus[j], jobStatus'[j])]_jobStatus

\* A run that is completed is never cancelled.
CompletedRunNeverCancelled ==
    [][\A r \in Runs : runStatus[r] = "completed" => runStatus'[r] # "cancelled"]_runStatus

-----------------------------------------------------------------------------
(* Liveness *)

\* A job in flight that reached RQ settles in the end, for whoever polls it.
PolledJobSettles ==
    \A j \in Jobs : jobStatus[j] \in ActiveJobStatuses /\ rq[j] # "absent"
                        ~> jobStatus[j] \in TerminalJobStatuses

\* RQ stops delivering a job: the retries run out under any crashes and failures.
DeliveriesEnd ==
    \A j \in Jobs : rq[j] = "queued" ~> rq[j] \in {"finished", "failed"}

=============================================================================
