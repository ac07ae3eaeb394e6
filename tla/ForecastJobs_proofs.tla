------------------------ MODULE ForecastJobs_proofs ------------------------
(***************************************************************************)
(* Theorems about ForecastJobs, for any number of runs, jobs, requests and *)
(* workers and any retry settings.                                         *)
(***************************************************************************)
EXTENDS ForecastJobs, TLAPS

-----------------------------------------------------------------------------
(* Sessions: what the constructors and updates of a session leave in it.   *)
(* The SMT backend has no record EXCEPT, so these lemmas stand in for the  *)
(* definitions everywhere below.                                           *)

\* A session for a run: no job, the given run status.
LEMMA RunSessionFields ==
    ASSUME NEW op, NEW r, NEW seen
    PROVE  /\ RunSession(op, r, seen).op = op
           /\ RunSession(op, r, seen).job = None
           /\ RunSession(op, r, seen).run = r
           /\ RunSession(op, r, seen).jobSeen = "none"
           /\ RunSession(op, r, seen).runSeen = seen
           /\ RunSession(op, r, seen).attempts = 0
           /\ RunSession(op, r, seen).rqSeen = "none"
  BY Zenon DEF RunSession, NoRequest

LEMMA RunSessionType ==
    ASSUME NEW op \in {"enqueue", "retry", "cancel_run", "process"}, NEW r \in Runs,
           NEW seen \in RunStatuses \cup {"none"}
    PROVE  RunSession(op, r, seen) \in Sessions
  BY Zenon DEF RunSession, NoRequest, Sessions

\* A session for a job: its run and what was read of its row.
LEMMA JobSessionFields ==
    ASSUME NEW op, NEW j, NEW r, NEW seen, NEW tries
    PROVE  /\ JobSession(op, j, r, seen, tries).op = op
           /\ JobSession(op, j, r, seen, tries).job = j
           /\ JobSession(op, j, r, seen, tries).run = r
           /\ JobSession(op, j, r, seen, tries).jobSeen = seen
           /\ JobSession(op, j, r, seen, tries).runSeen = "none"
           /\ JobSession(op, j, r, seen, tries).attempts = tries
           /\ JobSession(op, j, r, seen, tries).rqSeen = "none"
  BY Zenon DEF JobSession, NoRequest

LEMMA JobSessionType ==
    ASSUME NEW op \in {"enqueue", "get", "cancel", "retry", "task"}, NEW j \in Jobs,
           NEW r \in Runs \cup {None}, NEW seen \in JobStatuses \cup {"none"}, NEW tries \in Nat
    PROVE  JobSession(op, j, r, seen, tries) \in Sessions
  BY Zenon DEF JobSession, NoRequest, Sessions

\* An update of a session changes the field it names and keeps the others.
LEMMA SawRunFields ==
    ASSUME NEW s \in Sessions, NEW seen
    PROVE  /\ SawRun(s, seen).op = s.op
           /\ SawRun(s, seen).job = s.job
           /\ SawRun(s, seen).run = s.run
           /\ SawRun(s, seen).jobSeen = s.jobSeen
           /\ SawRun(s, seen).runSeen = seen
           /\ SawRun(s, seen).attempts = s.attempts
           /\ SawRun(s, seen).rqSeen = s.rqSeen
  BY Zenon DEF SawRun, Sessions

LEMMA SawRunType ==
    ASSUME NEW s \in Sessions, NEW seen \in RunStatuses \cup {"none"}
    PROVE  SawRun(s, seen) \in Sessions
  BY Zenon DEF SawRun, Sessions

LEMMA SawJobFields ==
    ASSUME NEW s \in Sessions, NEW seen, NEW tries
    PROVE  /\ SawJob(s, seen, tries).op = s.op
           /\ SawJob(s, seen, tries).job = s.job
           /\ SawJob(s, seen, tries).run = s.run
           /\ SawJob(s, seen, tries).jobSeen = seen
           /\ SawJob(s, seen, tries).runSeen = s.runSeen
           /\ SawJob(s, seen, tries).attempts = tries
           /\ SawJob(s, seen, tries).rqSeen = s.rqSeen
  BY Zenon DEF SawJob, Sessions

LEMMA SawJobType ==
    ASSUME NEW s \in Sessions, NEW seen \in JobStatuses \cup {"none"}, NEW tries \in Nat
    PROVE  SawJob(s, seen, tries) \in Sessions
  BY Zenon DEF SawJob, Sessions

LEMMA SawRqFields ==
    ASSUME NEW s \in Sessions, NEW seen
    PROVE  /\ SawRq(s, seen).op = s.op
           /\ SawRq(s, seen).job = s.job
           /\ SawRq(s, seen).run = s.run
           /\ SawRq(s, seen).jobSeen = s.jobSeen
           /\ SawRq(s, seen).runSeen = s.runSeen
           /\ SawRq(s, seen).attempts = s.attempts
           /\ SawRq(s, seen).rqSeen = seen
  BY Zenon DEF SawRq, Sessions

LEMMA SawRqType ==
    ASSUME NEW s \in Sessions, NEW seen \in JobStatuses \cup {"none"}
    PROVE  SawRq(s, seen) \in Sessions
  BY Zenon DEF SawRq, Sessions

LEMMA NoRequestFields ==
    /\ NoRequest \in Sessions
    /\ NoRequest.op = "none" /\ NoRequest.job = None /\ NoRequest.run = None
    /\ NoRequest.jobSeen = "none"
  BY DEF NoRequest, Sessions

-----------------------------------------------------------------------------
(* Type correctness                                                        *)

TypeInv == TypeOK /\ RowPrecedesDelivery

\* The values the helpers of the module return.
LEMMA HelperTypes ==
    /\ \A status : MapRqStatus(status) \in JobStatuses \cup {"none"}
    /\ \A tries : ErrorStatus(tries) \in JobStatuses
    /\ RetryBudget \in Nat
  BY ParametersAssumption DEF MapRqStatus, ErrorStatus, JobStatuses, RetryBudget

\* No job row disappears or moves to another run.
RowsStay ==
    \A j \in Jobs : jobStatus[j] # "none" => jobStatus'[j] # "none" /\ jobRun'[j] = jobRun[j]

\* One handler takes a step to `label` with session s.
LEMMA GotoType ==
    ASSUME TypeInv, NEW p \in Procs, NEW label \in Labels, NEW s \in Sessions,
           SessionFits(p, label, s), Goto(p, label, s)
    PROVE  /\ HandlersOK'
           /\ RowsStay /\ (s.job # None => jobStatus'[s.job] # "none"
                                            /\ s.run \in {None, jobRun'[s.job]})
                => \A q \in Procs : OwnRow(req[q])'
  <1>1. HandlersOK'
    BY DEF TypeInv, TypeOK, HandlersOK, Goto, SessionFits
  <1>2. ASSUME RowsStay, NEW q \in Procs,
               s.job # None => jobStatus'[s.job] # "none" /\ s.run \in {None, jobRun'[s.job]}
        PROVE  OwnRow(req[q])'
    <2>1. req'[q] = IF q = p THEN s ELSE req[q]
      BY DEF TypeInv, TypeOK, HandlersOK, Goto
    <2>2. req[q] \in Sessions /\ OwnRow(req[q])
      BY DEF TypeInv, TypeOK, HandlersOK, RowPrecedesDelivery
    <2>3. req[q].job \in Jobs \cup {None}
      BY <2>2 DEF Sessions
    <2>4. QED
      BY <1>2, <2>1, <2>2, <2>3 DEF OwnRow, RowsStay
  <1>3. QED
    BY <1>1, <1>2

LEMMA DoneType ==
    ASSUME TypeInv, NEW p \in Procs, Done(p)
    PROVE  HandlersOK' /\ (RowsStay => \A q \in Procs : OwnRow(req[q])')
  <1>1. SessionFits(p, "idle", NoRequest)
    BY DEF SessionFits, RequestLabels, TaskLabels, JobRequestLabels
  <1>2. "idle" \in Labels
    BY DEF Labels
  <1>3. QED
    BY <1>1, <1>2, GotoType, NoRequestFields DEF Done

\* A write of a job status touches one row, and never makes it disappear.
LEMMA WriteJobType ==
    ASSUME RowsOK, NEW j \in Jobs, NEW seen, NEW new \in JobStatuses, WriteJob(j, seen, new)
    PROVE  /\ jobStatus' \in [Jobs -> JobStatuses \cup {"none"}]
           /\ \A k \in Jobs \ {j} : jobStatus'[k] = jobStatus[k]
           /\ jobStatus'[j] \in {jobStatus[j], new}
           /\ \A k \in Jobs : jobStatus[k] # "none" => jobStatus'[k] # "none"
           /\ jobStatus[j] # "none" =>
                  \A k \in Jobs : jobStatus'[k] = "none" <=> jobStatus[k] = "none"
  BY DEF WriteJob, RowsOK, JobStatuses

LEMMA InitType == Init => TypeInv
  <1>1. SUFFICES ASSUME Init PROVE TypeInv
    OBVIOUS
  <1>2. RowsOK /\ QueueOK
    BY <1>1, HelperTypes DEF Init, RowsOK, QueueOK, RqStatuses
  <1>3. HandlersOK
    BY <1>1, NoRequestFields
    DEF Init, HandlersOK, SessionFits, Labels, RequestLabels, TaskLabels, JobRequestLabels
  <1>4. RowPrecedesDelivery
    BY <1>1, NoRequestFields DEF Init, RowPrecedesDelivery, OwnRow
  <1>5. QED
    BY <1>2, <1>3, <1>4 DEF TypeInv, TypeOK

\* get_job hands its row to the operation that asked for it.
LEMMA ResumeType ==
    ASSUME TypeInv, NEW c \in Clients, NEW s \in Sessions, Resume(c, s),
           s.run \in Runs, s.job \in Jobs, RowsStay,
           jobStatus'[s.job] # "none" /\ s.run = jobRun'[s.job]
    PROVE  HandlersOK' /\ \A q \in Procs : OwnRow(req[q])'
  <1> DEFINE t == SawJob(s, s.jobSeen, 0)
  <1>1. c \in Procs /\ s.jobSeen \in JobStatuses \cup {"none"}
    BY DEF Procs, Sessions
  <1>2. t \in Sessions /\ t.job = s.job /\ t.run = s.run
    BY <1>1, SawJobFields, SawJobType
  <1>3. CASE Done(c)
    BY <1>1, <1>3, DoneType
  <1>4. ASSUME NEW label \in {"cancel_rq", "retry_load"}, Goto(c, label, t)
        PROVE  HandlersOK' /\ \A q \in Procs : OwnRow(req[q])'
    <2>1. label \in Labels /\ SessionFits(c, label, t)
      BY <1>2, <1>4, ParametersAssumption
      DEF Labels, SessionFits, RequestLabels, TaskLabels, JobRequestLabels
    <2>2. QED
      BY <1>1, <1>2, <1>4, <2>1, GotoType
  <1>5. QED
    BY <1>3, <1>4 DEF Resume

LEMMA RequestStepType ==
    ASSUME TypeInv, NEW c \in Clients, RequestStep(c) PROVE TypeInv'
  <1> USE DEF TypeInv, TypeOK, RowsOK, QueueOK, RowPrecedesDelivery, SessionFits, Labels,
              RequestLabels, ProcessLabels, TaskLabels, JobRequestLabels, Procs,
              runVars, jobVars, rqVars
  <1>0. /\ c \in Procs /\ c \notin Workers
        /\ req[c] \in Sessions /\ OwnRow(req[c])
        /\ SessionFits(c, pc[c], req[c])
        /\ req[c].job \in Jobs => jobStatus[req[c].job] # "none"
    BY ParametersAssumption DEF HandlersOK, OwnRow
  <1>1. CASE CancelRunWrite(c)
    BY <1>0, <1>1, DoneType DEF CancelRunWrite, WriteRun, Withdraw, RunStatuses, RowsStay
  <1>2. CASE ReconcileRead(c)
    <2>1. RowsStay /\ req[c].job \in Jobs /\ req[c].run \in Runs
      BY <1>0, <1>2 DEF ReconcileRead, RowsStay
    <2>2. jobStatus'[req[c].job] # "none" /\ req[c].run = jobRun'[req[c].job]
      BY <1>0, <1>2, <2>1, ParametersAssumption DEF ReconcileRead, OwnRow
    <2>3. CASE Resume(c, req[c])
      BY <1>0, <1>2, <2>1, <2>2, <2>3, ResumeType DEF ReconcileRead
    <2>4. CASE \E mapped \in JobStatuses :
                   Goto(c, "reconcile_write", SawRq(req[c], mapped))
      BY <1>0, <1>2, <2>1, <2>2, <2>4, GotoType, SawRqFields, SawRqType, SMTT(40)
      DEF ReconcileRead
    <2>5. QED
      BY <1>2, <2>3, <2>4, HelperTypes DEF ReconcileRead
  <1>3. CASE ReconcileWrite(c)
    <2> DEFINE s == req[c]
               t == SawRq(SawJob(s, s.rqSeen, s.attempts), "none")
    <2>1. s.job \in Jobs /\ s.run \in Runs /\ s.rqSeen \in JobStatuses /\ s.attempts \in Nat
      BY <1>0, <1>3 DEF ReconcileWrite, Sessions
    <2>2. t \in Sessions /\ t.job = s.job /\ t.run = s.run
      <3> DEFINE u == SawJob(s, s.rqSeen, s.attempts)
      <3>0. s \in Sessions /\ s.rqSeen \in JobStatuses \cup {"none"} /\ s.attempts \in Nat
        BY <1>0, <2>1
      <3>1. u \in Sessions /\ u.job = s.job /\ u.run = s.run
        BY ONLY <3>0, SawJobFields, SawJobType
      <3> HIDE DEF u
      <3>2. SawRq(u, "none") \in Sessions /\ SawRq(u, "none").job = u.job
            /\ SawRq(u, "none").run = u.run
        BY <3>1, SawRqFields, SawRqType
      <3>3. QED
        BY <3>1, <3>2 DEF u
    <2>3. /\ RowsStay
          /\ jobStatus' \in [Jobs -> JobStatuses \cup {"none"}]
          /\ \A j \in Jobs : jobStatus'[j] = "none" <=> jobStatus[j] = "none"
      <3>1. CASE UNCHANGED jobStatus
        BY <1>3, <3>1 DEF ReconcileWrite, RowsStay
      <3>2. CASE WriteJob(s.job, s.jobSeen, s.rqSeen)
        BY <1>0, <1>3, <2>1, <3>2, WriteJobType DEF ReconcileWrite, RowsStay
      <3>3. QED
        BY <1>3, <3>1, <3>2 DEF ReconcileWrite
    <2>4. jobStatus'[s.job] # "none" /\ s.run = jobRun'[s.job]
      BY <1>0, <1>3, <2>1, <2>3, ParametersAssumption DEF ReconcileWrite, OwnRow
    <2>5. HandlersOK' /\ \A q \in Procs : OwnRow(req[q])'
      <3>1. CASE Done(c)
        BY <1>0, <2>3, <3>1, DoneType
      <3>2. CASE Resume(c, t)
        BY <1>0, <2>1, <2>2, <2>3, <2>4, <3>2, ResumeType
      <3>3. QED
        BY <1>3, <3>1, <3>2 DEF ReconcileWrite
    <2>6. QED
      BY <1>3, <2>3, <2>5 DEF ReconcileWrite
  <1>4. CASE CancelRq(c)
    <2>1. /\ pc[c] = "cancel_rq" /\ req[c].job \in Jobs /\ req[c] \in Sessions
          /\ "cancel_load" \in Labels /\ SessionFits(c, "cancel_load", req[c])
      BY <1>0, <1>4 DEF CancelRq
    <2>2. QueueOK'
      BY <1>0, <1>4, <2>1 DEF CancelRq, RqStatuses
    <2>3. RowsStay /\ RowsOK'
      BY <1>0, <1>4 DEF CancelRq, RowsStay
    <2>4. HandlersOK' /\ \A q \in Procs : OwnRow(req[q])'
      <3>1. CASE Done(c)
        BY <1>0, <2>3, <3>1, DoneType
      <3>2. CASE Goto(c, "cancel_load", req[c])
        <4>1. req[c].job # None => jobStatus'[req[c].job] # "none"
                                   /\ req[c].run \in {None, jobRun'[req[c].job]}
          BY <1>0, <1>4 DEF OwnRow, CancelRq
        <4>2. QED
          BY ONLY TypeInv, <1>0, <2>1, <2>3, <3>2, <4>1, GotoType, Zenon
      <3>3. QED
        BY <1>4, <3>1, <3>2 DEF CancelRq
    <2>5. QED
      BY <1>0, <1>4, <2>2, <2>3, <2>4 DEF CancelRq, RqStatuses
  <1>5. CASE CancelLoadRun(c)
    BY <1>0, <1>5, GotoType, SawRunFields, SawRunType, SMTT(40) DEF CancelLoadRun, RowsStay, OwnRow
  <1>6. CASE CancelWrite(c)
    BY <1>0, <1>6, DoneType
    DEF CancelWrite, WriteJob, WriteRun, Withdraw, RunStatuses, JobStatuses, RowsStay, OwnRow
  <1>7. CASE RetryLoadRun(c)
    BY <1>0, <1>7, GotoType, RunSessionFields, RunSessionType, SMTT(40) DEF RetryLoadRun, RowsStay
  <1>8. CASE CheckActiveJob(c)
    BY <1>0, <1>8, GotoType, DoneType, SMTT(40) DEF CheckActiveJob, RowsStay, OwnRow
  <1>9. CASE \E j \in Jobs : InsertJob(c, j)
    <2>1. PICK j \in Jobs : InsertJob(c, j)
      BY <1>9
    <2>2. RowsOK' /\ RowsStay
      BY <1>0, <2>1 DEF InsertJob, WriteRun, RunStatuses, JobStatuses, RowsStay
    <2>3. req[c].op \in {"enqueue", "retry"}
      BY <1>0, <2>1 DEF InsertJob
    <2> DEFINE t == JobSession(req[c].op, j, req[c].run, "none", 0)
    <2>4. /\ req[c].run \in Runs
          /\ t \in Sessions /\ t.job = j /\ t.run = req[c].run
      <3>1. req[c].run \in Runs
        BY <1>0, <2>1 DEF InsertJob
      <3>2. t \in Sessions
        BY ONLY <2>3, <3>1, JobSessionType
      <3>3. t.job = j /\ t.run = req[c].run
        BY JobSessionFields
      <3>4. QED
        BY <3>1, <3>2, <3>3
    <2>5. jobStatus'[j] # "none" /\ jobRun'[j] = req[c].run
      BY <2>1 DEF InsertJob
    <2>6. "dispatch" \in Labels /\ SessionFits(c, "dispatch", t)
      BY <1>0, <2>4
    <2>7. Goto(c, "dispatch", t)
      BY <2>1 DEF InsertJob
    <2>8. HandlersOK' /\ \A q \in Procs : OwnRow(req[q])'
      BY <1>0, <2>2, <2>4, <2>5, <2>6, <2>7, GotoType
    <2>9. QED
      BY <1>0, <2>1, <2>2, <2>8, ParametersAssumption DEF InsertJob
  <1>10. CASE InsertRefused(c)
    BY <1>0, <1>10, DoneType DEF InsertRefused, RowsStay
  <1>11. CASE Dispatch(c)
    BY <1>0, <1>11, DoneType, HelperTypes DEF Dispatch, EnqueueInRq, RqStatuses, RowsStay, OwnRow
  <1>12. CASE DispatchFails(c)
    BY <1>0, <1>12, GotoType, HelperTypes, SMTT(40)
    DEF DispatchFails, EnqueueInRq, RqStatuses, RowsStay, OwnRow
  <1>13. CASE MarkEnqueueFailed(c)
    BY <1>0, <1>13, DoneType DEF MarkEnqueueFailed, WriteJob, JobStatuses, RowsStay, OwnRow
  <1>14. QED
    BY <1>1, <1>2, <1>3, <1>4, <1>5, <1>6, <1>7, <1>8, <1>9, <1>10, <1>11, <1>12, <1>13
    DEF RequestStep

LEMMA RequestBeginsType ==
    ASSUME TypeInv, NEW c \in Clients, RequestBegins(c) PROVE TypeInv'
  <1> USE DEF TypeInv, TypeOK, RowsOK, QueueOK, RowPrecedesDelivery, SessionFits, Labels,
              RequestLabels, ProcessLabels, TaskLabels, JobRequestLabels, Procs,
              runVars, jobVars, rqVars
  <1>0. c \in Procs /\ c \notin Workers
    BY ParametersAssumption
  <1>1. ASSUME NEW r \in Runs, NEW label \in {"check", "cancel_run_write", "load_run"},
               NEW op \in {"enqueue", "cancel_run", "process"},
               label = "check" => op = "enqueue",
               NEW seen \in RunStatuses \cup {"none"},
               Goto(c, label, RunSession(op, r, seen)),
               UNCHANGED <<runVars, jobVars, rqVars, withdrawn>>
        PROVE  TypeInv'
    <2> DEFINE s == RunSession(op, r, seen)
    <2>1. s \in Sessions /\ s.run = r /\ s.job = None /\ s.op = op
      BY RunSessionFields, RunSessionType
    <2> HIDE DEF s
    <2>2. SessionFits(c, label, s) /\ label \in Labels
      BY <1>0, <1>1, <2>1
    <2>3. HandlersOK' /\ \A q \in Procs : OwnRow(req[q])'
      BY <1>0, <1>1, <2>1, <2>2, GotoType DEF RowsStay, s
    <2>4. QED
      BY <1>1, <2>3
  <1>2. ASSUME NEW r \in Runs, EnqueueLoad(c, r) PROVE TypeInv'
    BY <1>1, <1>2 DEF EnqueueLoad
  <1>3. ASSUME NEW r \in Runs, CancelRunLoad(c, r) PROVE TypeInv'
    BY <1>1, <1>3 DEF CancelRunLoad
  <1>4. ASSUME NEW r \in Runs, ProcessBegin(c, r) PROVE TypeInv'
    BY <1>1, <1>4 DEF ProcessBegin
  <1>5. ASSUME NEW j \in Jobs, NEW op \in {"get", "cancel", "retry"}, GetJobLoad(c, j, op)
        PROVE  TypeInv'
    <2> DEFINE s == JobSession(op, j, jobRun[j], jobStatus[j], attempts[j])
    <2>1. /\ jobStatus[j] \in JobStatuses \cup {"none"} /\ attempts[j] \in Nat
          /\ jobStatus[j] # "none" /\ jobRun[j] \in Runs
      BY <1>5 DEF GetJobLoad
    <2>2. s \in Sessions
      BY ONLY <1>5, <2>1, JobSessionType
    <2>3. s.run = jobRun[j] /\ s.job = j
      BY JobSessionFields
    <2>4. CASE Resume(c, s)
      <3>1. HandlersOK' /\ \A q \in Procs : OwnRow(req[q])'
        BY <1>5, <2>1, <2>2, <2>3, <2>4, ResumeType DEF GetJobLoad, RowsStay
      <3>2. QED
        BY <1>5, <3>1 DEF GetJobLoad
    <2>5. CASE Goto(c, "reconcile", s)
      <3> HIDE DEF s
      <3>1. SessionFits(c, "reconcile", s)
        BY <1>0, <2>1, <2>3
      <3>2. HandlersOK' /\ \A q \in Procs : OwnRow(req[q])'
        BY <1>0, <1>5, <2>1, <2>2, <2>3, <2>5, <3>1, GotoType DEF GetJobLoad, RowsStay
      <3>3. QED
        BY <1>5, <3>2 DEF GetJobLoad
    <2>6. QED
      BY <1>5, <2>4, <2>5 DEF GetJobLoad
  <1>6. QED
    BY <1>2, <1>3, <1>4, <1>5 DEF RequestBegins

\* A call of process_forecast_run ends, in a request or in a task.
LEMMA ReturnsType ==
    ASSUME TypeInv, NEW p \in Procs,
           NEW label \in {"finish_job", "fail_job", "fail_job_expired"},
           pc[p] \in ProcessLabels, Returns(p, label), RowsStay
    PROVE  HandlersOK' /\ \A q \in Procs : OwnRow(req[q])'
  <1>0. /\ req[p] \in Sessions /\ OwnRow(req[p]) /\ SessionFits(p, pc[p], req[p])
        /\ req[p].job \in Jobs \cup {None}
    BY DEF TypeInv, TypeOK, HandlersOK, RowPrecedesDelivery, Sessions
  <1>1. CASE p \in Clients
    BY <1>1, DoneType DEF Returns
  <1>2. CASE p \notin Clients
    <2> DEFINE s == SawRun(req[p], "none")
    <2>1. s \in Sessions /\ s.job = req[p].job /\ s.run = req[p].run
      BY <1>0, SawRunFields, SawRunType
    <2> HIDE DEF s
    <2>2. label \in Labels /\ SessionFits(p, label, s)
      BY <1>0, <1>2, <2>1
      DEF SessionFits, Labels, RequestLabels, ProcessLabels, TaskLabels, JobRequestLabels, Procs
    <2>3. Goto(p, label, s)
      BY <1>2 DEF Returns, s
    <2>4. s.job # None => jobStatus'[s.job] # "none" /\ s.run \in {None, jobRun'[s.job]}
      BY <1>0, <2>1 DEF OwnRow, RowsStay
    <2>5. QED
      BY <2>1, <2>2, <2>3, <2>4, GotoType
  <1>3. QED
    BY <1>1, <1>2

LEMMA ProcessStepType ==
    ASSUME TypeInv, NEW p \in Procs, ProcessStep(p) PROVE TypeInv'
  <1> USE DEF TypeInv, TypeOK, RowsOK, QueueOK, RowPrecedesDelivery, SessionFits, Labels,
              RequestLabels, ProcessLabels, TaskLabels, JobRequestLabels, Procs,
              runVars, jobVars, rqVars
  <1>0. /\ req[p] \in Sessions /\ OwnRow(req[p]) /\ SessionFits(p, pc[p], req[p])
    BY DEF HandlersOK
  <1>1. ASSUME NEW label \in {"begin", "forecast"}, pc[p] \in ProcessLabels,
               NEW seen \in RunStatuses \cup {"none"},
               Goto(p, label, SawRun(req[p], seen)), RowsStay, UNCHANGED jobVars
        PROVE  HandlersOK' /\ \A q \in Procs : OwnRow(req[q])'
    <2> DEFINE s == SawRun(req[p], seen)
    <2>1. s \in Sessions /\ s.job = req[p].job /\ s.run = req[p].run
      BY <1>0, SawRunFields, SawRunType
    <2> HIDE DEF s
    <2>2. label \in Labels /\ SessionFits(p, label, s)
      BY <1>0, <1>1, <2>1
    <2>3. QED
      BY <1>0, <1>1, <2>1, <2>2, GotoType, SMTT(40) DEF s, OwnRow
  <1>2. CASE LoadRun(p)
    BY <1>0, <1>1, <1>2, ReturnsType DEF LoadRun, RowsStay
  <1>3. CASE RefuseWithoutMl(p)
    BY <1>0, <1>3, ReturnsType DEF RefuseWithoutMl, WriteRun, RunStatuses, RowsStay
  <1>4. CASE BeginRun(p)
    BY <1>0, <1>1, <1>4 DEF BeginRun, WriteRun, RunStatuses, RowsStay
  <1>5. CASE PipelineFails(p)
    BY <1>0, <1>5, ReturnsType DEF PipelineFails, WriteRun, RunStatuses, RowsStay
  <1>6. CASE Forecast(p)
    BY <1>0, <1>6, GotoType, SMTT(40) DEF Forecast, RowsStay, OwnRow
  <1>7. CASE Persist(p)
    <2> DEFINE r == req[p].run
               s == IF p \in Clients THEN NoRequest ELSE SawRun(req[p], "none")
               label == IF p \in Clients THEN "idle" ELSE "finish_job"
    <2>1. r \in Runs
      BY <1>0, <1>7 DEF Persist
    <2>2. /\ s \in Sessions /\ OwnRow(s)
          /\ SessionFits(p, label, s) /\ label \in Labels
      <3>1. CASE p \in Clients
        BY <3>1, NoRequestFields, ParametersAssumption DEF OwnRow
      <3>2. CASE p \notin Clients
        BY <1>0, <1>7, <2>1, <3>2, SawRunFields, SawRunType DEF Persist, OwnRow
      <3>3. QED
        BY <3>1, <3>2
    <2>3. req' = [req EXCEPT ![p] = s]
      BY <1>7 DEF Persist
    <2>4. /\ pc'[p] = label
          /\ \A q \in Procs \ {p} :
                 \/ pc'[q] = pc[q]
                 \/ pc[q] = "persist" /\ pc'[q] = "persist_conflict"
      BY <1>7 DEF Persist
    <2>5. pc' \in [Procs -> Labels]
      BY <1>7 DEF Persist, HandlersOK
    <2> HIDE DEF s, label
    <2>6. req' \in [Procs -> Sessions] /\ \A q \in Procs : SessionFits(q, pc'[q], req'[q])
      BY <2>2, <2>3, <2>4 DEF HandlersOK
    <2>7. \A q \in Procs : OwnRow(req[q])'
      BY <1>7, <2>2, <2>3 DEF Persist, OwnRow, HandlersOK
    <2>8. RowsOK'
      BY <1>7, <2>1 DEF Persist, WriteRun, RunStatuses
    <2>9. QED
      BY <1>7, <2>5, <2>6, <2>7, <2>8 DEF Persist, HandlersOK
  <1>8. CASE PersistFails(p)
    BY <1>0, <1>8, ReturnsType DEF PersistFails, RunStatuses, RowsStay
  <1>9. QED
    BY <1>2, <1>3, <1>4, <1>5, <1>6, <1>7, <1>8 DEF ProcessStep

\* A task that is over keeps only its job.
LEMMA LeavesType ==
    ASSUME TypeInv, NEW w \in Workers, NEW label \in {"return", "raise"},
           pc[w] # "idle", Leaves(w, label), RowsStay
    PROVE  HandlersOK' /\ \A q \in Procs : OwnRow(req[q])'
  <1> DEFINE s == JobSession("task", req[w].job, None, "none", 0)
  <1>1. req[w].job \in Jobs /\ w \in Procs /\ w \notin Clients /\ OwnRow(req[w])
    BY ParametersAssumption
    DEF TypeInv, TypeOK, HandlersOK, SessionFits, Procs, RowPrecedesDelivery
  <1>2. s \in Sessions
    BY <1>1, JobSessionType
  <1>3. s.job = req[w].job /\ s.run = None
    BY JobSessionFields
  <1>4. Goto(w, label, s)
    BY DEF Leaves
  <1> HIDE DEF s
  <1>5. label \in Labels /\ SessionFits(w, label, s)
    BY <1>1, <1>3
    DEF SessionFits, Labels, RequestLabels, ProcessLabels, TaskLabels, JobRequestLabels
  <1>6. QED
    BY <1>1, <1>2, <1>3, <1>4, <1>5, GotoType, ParametersAssumption DEF OwnRow, RowsStay

LEMMA TaskStepType ==
    ASSUME TypeInv, NEW w \in Workers, TaskStep(w) PROVE TypeInv'
  <1> USE DEF TypeInv, TypeOK, RowsOK, QueueOK, RowPrecedesDelivery, SessionFits, Labels,
              RequestLabels, ProcessLabels, TaskLabels, JobRequestLabels, Procs,
              runVars, jobVars, rqVars
  <1>0. /\ w \in Procs /\ w \notin Clients
        /\ req[w] \in Sessions /\ OwnRow(req[w]) /\ SessionFits(w, pc[w], req[w])
        /\ pc[w] # "idle" => req[w].job \in Jobs /\ jobStatus[req[w].job] # "none"
    BY ParametersAssumption DEF HandlersOK, OwnRow
  <1>1. ASSUME NEW label \in {"start_job", "load_run"}, pc[w] \in TaskLabels \ {"return", "raise"},
               NEW seen \in JobStatuses \cup {"none"}, NEW tries \in Nat,
               Goto(w, label, SawJob(req[w], seen, tries)), RowsStay, UNCHANGED jobRun
        PROVE  HandlersOK' /\ \A q \in Procs : OwnRow(req[q])'
    <2> DEFINE s == SawJob(req[w], seen, tries)
    <2>1. s \in Sessions /\ s.job = req[w].job /\ s.run = req[w].run
      <3>1. req[w] \in Sessions
        BY <1>0
      <3>2. QED
        BY ONLY <1>1, <3>1, SawJobFields, SawJobType
    <2> HIDE DEF s
    <2>2. label \in Labels /\ SessionFits(w, label, s)
      BY <1>0, <1>1, <2>1
    <2>3. QED
      BY <1>0, <1>1, <2>1, <2>2, GotoType, SMTT(40) DEF s, OwnRow, RowsStay
  <1>2. CASE LoadJob(w)
    BY <1>0, <1>1, <1>2, LeavesType DEF LoadJob, RowsStay
  <1>3. CASE StartJob(w)
    <2>1. req[w].job \in Jobs /\ req[w].attempts + 1 \in Nat /\ "started" \in JobStatuses
      BY <1>0, <1>3 DEF StartJob, Sessions, JobStatuses
    <2>2. RowsOK' /\ RowsStay /\ UNCHANGED jobRun
          /\ \A j \in Jobs : jobStatus'[j] = "none" <=> jobStatus[j] = "none"
      BY <1>0, <1>3, <2>1, WriteJobType DEF StartJob, RowsStay
    <2>3. HandlersOK' /\ \A q \in Procs : OwnRow(req[q])'
      BY <1>0, <1>1, <1>3, <2>1, <2>2 DEF StartJob
    <2>4. QED
      BY <1>3, <2>2, <2>3 DEF StartJob
  <1>4. CASE StartJobRefused(w)
    BY <1>0, <1>4, LeavesType DEF StartJobRefused, RowsStay
  <1>5. ASSUME NEW label \in {"return", "raise"}, NEW seen, NEW new \in JobStatuses,
               pc[w] # "idle", Leaves(w, label),
               WriteJob(req[w].job, seen, new) \/ UNCHANGED jobStatus,
               UNCHANGED <<runVars, jobRun, attempts, rqVars, withdrawn>>
        PROVE  TypeInv'
    <2>1. RowsOK' /\ RowsStay
          /\ \A j \in Jobs : jobStatus'[j] = "none" <=> jobStatus[j] = "none"
      <3>1. CASE WriteJob(req[w].job, seen, new)
        BY <1>0, <1>5, <3>1, WriteJobType DEF RowsStay
      <3>2. CASE UNCHANGED jobStatus
        BY <1>5, <3>2 DEF RowsStay
      <3>3. QED
        BY <1>5, <3>1, <3>2
    <2>2. HandlersOK' /\ \A q \in Procs : OwnRow(req[q])'
      BY <1>5, <2>1, LeavesType
    <2>3. QED
      BY <1>5, <2>1, <2>2
  <1>6. CASE FinishJob(w)
    BY <1>5, <1>6 DEF FinishJob, JobStatuses
  <1>7. CASE FailJob(w)
    BY <1>5, <1>7 DEF FailJob, JobStatuses
  <1>8. CASE JobError(w)
    BY <1>5, <1>8, HelperTypes DEF JobError
  <1>9. CASE RqSuccess(w)
    BY <1>0, <1>9, DoneType DEF RqSuccess, RqStatuses, RowsStay
  <1>10. CASE RqFailure(w)
    BY <1>0, <1>10, DoneType, HelperTypes DEF RqFailure, RqRetry, RqStatuses, RowsStay
  <1>11. QED
    BY <1>2, <1>3, <1>4, <1>6, <1>7, <1>8, <1>9, <1>10 DEF TaskStep

\* The remaining steps: a run is created, RQ delivers, cleans up or forgets,
\* a worker or a request dies.
LEMMA EnvironmentType ==
    ASSUME TypeInv,
           \/ \E r \in Runs : CreateRun(r)
           \/ \E c \in Clients : RequestAborted(c)
           \/ \E w \in Workers : (\E j \in Jobs : Dequeue(w, j)) \/ WorkerFault(w)
           \/ \E j \in Jobs : RqCleanup(j) \/ RqExpire(j)
    PROVE  TypeInv'
  <1> USE DEF TypeInv, TypeOK, RowsOK, QueueOK, RowPrecedesDelivery, SessionFits, Labels,
              RequestLabels, ProcessLabels, TaskLabels, JobRequestLabels, Procs,
              runVars, jobVars, rqVars
  <1>1. ASSUME NEW r \in Runs, CreateRun(r) PROVE TypeInv'
    BY <1>1 DEF CreateRun, RunStatuses, HandlersOK, OwnRow
  <1>2. ASSUME NEW c \in Clients, RequestAborted(c) PROVE TypeInv'
    BY <1>2, DoneType DEF RequestAborted, RowsStay
  <1>3. ASSUME NEW w \in Workers, NEW j \in Jobs, Dequeue(w, j) PROVE TypeInv'
    <2> DEFINE s == JobSession("task", j, jobRun[j], "none", 0)
    <2>1. jobStatus[j] # "none" /\ jobRun[j] \in Runs
      BY <1>3, ParametersAssumption DEF Dequeue
    <2>2. s \in Sessions
      BY ONLY <2>1, JobSessionType
    <2>3. s.job = j /\ s.run = jobRun[j]
      BY JobSessionFields
    <2>4. Goto(w, "load_job", s)
      BY <1>3 DEF Dequeue
    <2> HIDE DEF s
    <2>5. SessionFits(w, "load_job", s)
      BY <2>1, <2>3
    <2>6. HandlersOK' /\ \A q \in Procs : OwnRow(req[q])'
      BY <1>3, <2>1, <2>2, <2>3, <2>4, <2>5, GotoType DEF Dequeue, RowsStay
    <2>7. QED
      BY <1>3, <2>1, <2>6 DEF Dequeue, RqStatuses
  <1>4. ASSUME NEW w \in Workers, WorkerFault(w) PROVE TypeInv'
    <2>1. CASE WorkerDisconnected(w)
      BY <2>1, GotoType, SMTT(40) DEF WorkerDisconnected, HandlersOK, RowsStay, OwnRow
    <2>2. CASE WorkerLost(w)
      BY <2>2, LeavesType DEF WorkerLost, RowsStay
    <2>3. CASE WorkerCrash(w)
      BY <2>3, DoneType DEF WorkerCrash, RowsStay
    <2>4. QED
      BY <1>4, <2>1, <2>2, <2>3 DEF WorkerFault
  <1>5. ASSUME NEW j \in Jobs, RqCleanup(j) \/ RqExpire(j) PROVE TypeInv'
    BY <1>5, HelperTypes DEF RqCleanup, RqRetry, RqExpire, RqStatuses, HandlersOK, OwnRow
  <1>6. QED
    BY <1>1, <1>2, <1>3, <1>4, <1>5

LEMMA StutterType == TypeInv /\ UNCHANGED vars => TypeInv'
  BY DEF TypeInv, TypeOK, RowsOK, QueueOK, HandlersOK, SessionFits, RowPrecedesDelivery, OwnRow,
     vars, runVars, jobVars, rqVars

\* Every step keeps the types.
LEMMA NextType == TypeInv /\ [Next]_vars => TypeInv'
  BY RequestStepType, RequestBeginsType, ProcessStepType, TaskStepType, EnvironmentType,
     StutterType DEF Next

\* Every row, every session and the queue stay well formed, and no delivery or
\* handler ever works on a row that is not committed, or on another run.
THEOREM TypeCorrect == Spec => [](TypeOK /\ RowPrecedesDelivery)
  <1>1. Spec => []TypeInv
    BY InitType, NextType, PTL DEF Spec
  <1>2. QED
    BY <1>1 DEF TypeInv

\* A delivery never overtakes the commit of its row, and a task works on the run
\* that the row names.
THEOREM RowsPrecedeDeliveries == Spec => []RowPrecedesDelivery
  BY TypeCorrect, PTL

-----------------------------------------------------------------------------
(* One active job per run                                                  *)

\* A status write the index lets through leaves every run one active job.
LEMMA IndexedWrite ==
    ASSUME TypeInv, OneActiveJobPerRun, NEW j \in Jobs, NEW seen, NEW new \in JobStatuses,
           jobStatus[j] # "none", IndexAllows(j, seen, new), WriteJob(j, seen, new),
           UNCHANGED jobRun
    PROVE  OneActiveJobPerRun'
  <1>1. jobRun[j] # None
    BY DEF TypeInv, RowPrecedesDelivery
  <1>2. RowsOK
    BY DEF TypeInv, TypeOK
  <1>3. CASE seen = new
    BY <1>2, <1>3 DEF WriteJob, RowsOK, OneActiveJobPerRun
  <1>4. CASE seen # new /\ new \in ActiveJobStatuses
    <2>1. ActiveJobs(jobRun[j]) \subseteq {j}
      BY <1>4 DEF IndexAllows
    <2>2. QED
      BY <1>1, <1>2, <1>4, <2>1, WriteJobType DEF ActiveJobs, OneActiveJobPerRun
  <1>5. CASE seen # new /\ new \notin ActiveJobStatuses
    BY <1>1, <1>2, <1>5, WriteJobType DEF OneActiveJobPerRun
  <1>6. QED
    BY <1>3, <1>4, <1>5

\* A settled status needs no leave of the index.
LEMMA TerminalWrite ==
    \A j, seen : \A new \in TerminalJobStatuses : IndexAllows(j, seen, new)
  BY DEF IndexAllows, ActiveJobStatuses, TerminalJobStatuses

LEMMA OneActiveInit == Init => OneActiveJobPerRun
  BY DEF Init, OneActiveJobPerRun

LEMMA OneActiveNext == TypeInv /\ OneActiveJobPerRun /\ [Next]_vars => OneActiveJobPerRun'
  <1> SUFFICES ASSUME TypeInv, OneActiveJobPerRun, [Next]_vars PROVE OneActiveJobPerRun'
    OBVIOUS
  <1>1. ASSUME UNCHANGED <<jobStatus, jobRun>> PROVE OneActiveJobPerRun'
    BY <1>1 DEF OneActiveJobPerRun
  <1>2. ASSUME NEW p \in Procs, pc[p] \in JobRequestLabels \cup TaskLabels
        PROVE  /\ req[p].job \in Jobs /\ jobStatus[req[p].job] # "none"
               /\ pc[p] = "reconcile_write" => req[p].rqSeen \in JobStatuses
    BY <1>2, ParametersAssumption
    DEF TypeInv, TypeOK, HandlersOK, SessionFits, RowPrecedesDelivery, OwnRow
  <1>3. ASSUME NEW c \in Clients, ReconcileWrite(c) PROVE OneActiveJobPerRun'
    BY <1>1, <1>2, <1>3, IndexedWrite DEF ReconcileWrite, JobRequestLabels, Procs
  <1>4. ASSUME NEW c \in Clients, CancelWrite(c) PROVE OneActiveJobPerRun'
    BY <1>2, <1>4, IndexedWrite, TerminalWrite
    DEF CancelWrite, JobRequestLabels, Procs, TerminalJobStatuses, JobStatuses
  <1>5. ASSUME NEW c \in Clients, NEW j \in Jobs, InsertJob(c, j) PROVE OneActiveJobPerRun'
    <2>1. \A k \in Jobs \ {j} : jobStatus'[k] = jobStatus[k] /\ jobRun'[k] = jobRun[k]
      BY <1>5 DEF InsertJob, TypeInv, TypeOK, RowsOK
    <2>2. jobRun'[j] = req[c].run /\ ActiveJobs(req[c].run) = {}
      BY <1>5 DEF InsertJob, TypeInv, TypeOK, RowsOK
    <2>3. QED
      BY <2>1, <2>2 DEF ActiveJobs, OneActiveJobPerRun
  <1>6. ASSUME NEW c \in Clients, MarkEnqueueFailed(c) PROVE OneActiveJobPerRun'
    BY <1>2, <1>6, IndexedWrite, TerminalWrite
    DEF MarkEnqueueFailed, JobRequestLabels, Procs, TerminalJobStatuses, JobStatuses
  <1>7. ASSUME NEW w \in Workers, StartJob(w) PROVE OneActiveJobPerRun'
    BY <1>2, <1>7, IndexedWrite DEF StartJob, TaskLabels, Procs, JobStatuses
  <1>8. ASSUME NEW w \in Workers, FinishJob(w) PROVE OneActiveJobPerRun'
    BY <1>2, <1>8, IndexedWrite, TerminalWrite
    DEF FinishJob, TaskLabels, Procs, TerminalJobStatuses, JobStatuses
  <1>9. ASSUME NEW w \in Workers, FailJob(w) PROVE OneActiveJobPerRun'
    BY <1>2, <1>9, IndexedWrite, TerminalWrite
    DEF FailJob, TaskLabels, Procs, TerminalJobStatuses, JobStatuses
  <1>10. ASSUME NEW w \in Workers, JobError(w) PROVE OneActiveJobPerRun'
    BY <1>1, <1>2, <1>10, IndexedWrite, HelperTypes DEF JobError, TaskLabels, Procs
  <1>11. ASSUME NEW c \in Clients, RequestStep(c) PROVE OneActiveJobPerRun'
    BY <1>1, <1>3, <1>4, <1>5, <1>6, <1>11
    DEF RequestStep, CancelRunWrite, ReconcileRead, CancelRq, CancelLoadRun, RetryLoadRun,
        CheckActiveJob, InsertRefused, Dispatch, DispatchFails, jobVars
  <1>12. ASSUME NEW w \in Workers, TaskStep(w) PROVE OneActiveJobPerRun'
    BY <1>1, <1>7, <1>8, <1>9, <1>10, <1>12
    DEF TaskStep, LoadJob, StartJobRefused, RqSuccess, RqFailure, jobVars
  <1>13. ASSUME NEW p \in Procs, ProcessStep(p) PROVE OneActiveJobPerRun'
    BY <1>1, <1>13
    DEF ProcessStep, LoadRun, RefuseWithoutMl, BeginRun, PipelineFails, Forecast, Persist,
        PersistFails, jobVars
  <1>14. ASSUME NEW c \in Clients, RequestBegins(c) PROVE OneActiveJobPerRun'
    BY <1>1, <1>14
    DEF RequestBegins, EnqueueLoad, CancelRunLoad, ProcessBegin, GetJobLoad, jobVars
  <1>15. QED
    BY <1>1, <1>11, <1>12, <1>13, <1>14
    DEF Next, CreateRun, RequestAborted, Dequeue, WorkerFault, WorkerDisconnected, WorkerLost,
        WorkerCrash, RqCleanup, RqExpire, vars, jobVars

\* No interleaving of requests, stale status writes and redeliveries gives a
\* run two jobs in flight.
THEOREM OneActiveJob == Spec => []OneActiveJobPerRun
  <1>1. Init => TypeInv /\ OneActiveJobPerRun
    BY InitType, OneActiveInit
  <1>2. TypeInv /\ OneActiveJobPerRun /\ [Next]_vars => (TypeInv /\ OneActiveJobPerRun)'
    BY NextType, OneActiveNext
  <1>3. QED
    BY <1>1, <1>2, PTL DEF Spec

-----------------------------------------------------------------------------
(* Deliveries and attempts                                                 *)

\* RQ and the workers agree on who has a job, and a job about to be dispatched
\* is known to nobody else.
DeliveryInv ==
    /\ OneWorkerPerJob
    /\ \A w \in Workers : pc[w] # "idle" => rq[req[w].job] \in {"started", "canceled"}
    /\ \A c \in Clients : pc[c] = "dispatch" => rq[req[c].job] = "absent"
    /\ \A c, d \in Clients :
        pc[c] = "dispatch" /\ pc[d] = "dispatch" /\ req[c].job = req[d].job => c = d

\* The row's attempts and RQ's retries share one budget; a delivery not yet
\* counted in the row has one attempt of it set aside.
BudgetInv ==
    /\ \A j \in Jobs : jobStatus[j] = "none" => attempts[j] = 0
    /\ \A c \in Clients : pc[c] = "dispatch" => attempts[req[c].job] = 0
    /\ \A j \in Jobs : attempts[j] + retriesLeft[j] <= RetryBudget + 1
    /\ \A j \in Jobs : rq[j] = "queued" => attempts[j] + retriesLeft[j] <= RetryBudget
    /\ \A w \in Workers : pc[w] \in {"load_job", "start_job"} =>
        attempts[req[w].job] + retriesLeft[req[w].job] <= RetryBudget
    /\ \A w \in Workers : pc[w] = "start_job" => req[w].attempts = attempts[req[w].job]

DInv == TypeInv /\ DeliveryInv /\ BudgetInv

\* No handler comes to hold a job, or to a step that counts a delivery.
QuietHandlers ==
    \A p \in Procs :
        \/ pc'[p] = pc[p] /\ req'[p] = req[p]
        \/ /\ pc'[p] \notin {"dispatch", "load_job", "start_job"}
           /\ \/ p \in Clients
              \/ pc'[p] = "idle"
              \/ pc[p] # "idle" /\ req'[p].job = req[p].job

LEMMA QuietGoto ==
    ASSUME TypeInv, NEW p \in Procs, NEW label, NEW s, Goto(p, label, s),
           label \notin {"dispatch", "load_job", "start_job"},
           p \in Clients \/ label = "idle" \/ (pc[p] # "idle" /\ s.job = req[p].job)
    PROVE  QuietHandlers
  BY DEF Goto, QuietHandlers, TypeInv, TypeOK, HandlersOK

LEMMA QuietDone ==
    ASSUME TypeInv, NEW p \in Procs, Done(p) PROVE QuietHandlers
  BY QuietGoto DEF Done

LEMMA QuietLeaves ==
    ASSUME TypeInv, NEW w \in Workers, NEW label \in {"return", "raise"}, Leaves(w, label),
           pc[w] # "idle"
    PROVE  QuietHandlers
  <1> DEFINE s == JobSession("task", req[w].job, None, "none", 0)
  <1>1. s.job = req[w].job
    BY JobSessionFields
  <1>2. Goto(w, label, s)
    BY DEF Leaves
  <1> HIDE DEF s
  <1>3. QED
    BY <1>1, <1>2, QuietGoto DEF Procs

LEMMA QuietResume ==
    ASSUME TypeInv, NEW c \in Clients, NEW s, Resume(c, s) PROVE QuietHandlers
  BY QuietGoto, QuietDone DEF Resume, Procs

LEMMA QuietReturns ==
    ASSUME TypeInv, NEW p \in Procs, NEW label \in {"finish_job", "fail_job", "fail_job_expired"},
           pc[p] # "idle", Returns(p, label)
    PROVE  QuietHandlers
  <1>1. req[p] \in Sessions
    BY DEF TypeInv, TypeOK, HandlersOK
  <1>2. SawRun(req[p], "none").job = req[p].job
    BY <1>1, SawRunFields
  <1>3. QED
    BY <1>2, QuietGoto, QuietDone DEF Returns

\* The job a handler holds is a job.
LEMMA HeldJob ==
    ASSUME TypeInv
    PROVE  /\ \A w \in Workers : pc[w] # "idle" => req[w].job \in Jobs
           /\ \A c \in Clients : pc[c] = "dispatch" =>
                  req[c].job \in Jobs /\ jobStatus[req[c].job] # "none"
           /\ \A j \in Jobs : /\ attempts[j] \in Nat /\ retriesLeft[j] \in Nat
                              /\ jobStatus[j] = "none" => rq[j] = "absent"
           /\ Clients \cap Workers = {} /\ Clients \subseteq Procs /\ Workers \subseteq Procs
  BY ParametersAssumption, HelperTypes
  DEF TypeInv, TypeOK, RowsOK, QueueOK, HandlersOK, SessionFits, RowPrecedesDelivery, OwnRow,
      JobRequestLabels, Procs

\* A step that leaves queue and counters alone keeps the invariants.
LEMMA QuietStep ==
    ASSUME DInv, TypeInv', QuietHandlers, UNCHANGED <<attempts, rqVars>>, RowsStay
    PROVE  DeliveryInv' /\ BudgetInv'
  <1> USE HeldJob DEF rqVars
  <1>1. \A w \in Workers : pc'[w] # "idle" => pc[w] # "idle" /\ req'[w].job = req[w].job
    BY DEF QuietHandlers, DInv
  <1>2. \A p \in Procs : pc'[p] \in {"dispatch", "load_job", "start_job"} =>
            pc[p] = pc'[p] /\ req'[p] = req[p]
    BY DEF QuietHandlers
  <1>3. DeliveryInv'
    BY <1>1, <1>2 DEF DInv, DeliveryInv, OneWorkerPerJob
  <1>4. BudgetInv'
    BY <1>1, <1>2 DEF DInv, BudgetInv, RowsStay
  <1>5. QED
    BY <1>3, <1>4

\* RQ's retry takes a delivery's attempt out of the retries left.
LEMMA RetryBudgetKept ==
    ASSUME DInv, TypeInv', NEW j \in Jobs, RqRetry(j), UNCHANGED jobVars, QuietHandlers,
           \A w \in Workers : pc'[w] # "idle" => req'[w].job # j,
           rq[j] # "absent"
    PROVE  DeliveryInv' /\ BudgetInv'
  <1> USE HeldJob DEF jobVars
  <1>1. \A w \in Workers : pc'[w] # "idle" => pc[w] # "idle" /\ req'[w].job = req[w].job
    BY DEF QuietHandlers, DInv
  <1>2. \A p \in Procs : pc'[p] \in {"dispatch", "load_job", "start_job"} =>
            pc[p] = pc'[p] /\ req'[p] = req[p]
    BY DEF QuietHandlers
  <1>3. /\ \A k \in Jobs \ {j} : rq'[k] = rq[k] /\ retriesLeft'[k] = retriesLeft[k]
        /\ retriesLeft'[j] <= retriesLeft[j]
        /\ rq'[j] = "queued" => retriesLeft'[j] = retriesLeft[j] - 1
    BY DEF RqRetry, DInv, TypeInv, TypeOK, QueueOK
  <1>4. DeliveryInv'
    BY <1>1, <1>2, <1>3 DEF DInv, DeliveryInv, OneWorkerPerJob
  <1>5. \A k \in Jobs : /\ retriesLeft'[k] \in Nat /\ retriesLeft[k] \in Nat
                        /\ attempts[k] \in Nat /\ attempts'[k] = attempts[k]
                        /\ RetryBudget \in Nat
    BY ParametersAssumption DEF DInv, TypeInv, TypeOK, QueueOK, RetryBudget
  <1>6. \A k \in Jobs : /\ attempts'[k] + retriesLeft'[k] <= RetryBudget + 1
                        /\ rq'[k] = "queued" => attempts'[k] + retriesLeft'[k] <= RetryBudget
    BY <1>3, <1>5 DEF DInv, BudgetInv
  <1>7. \A w \in Workers : pc'[w] \in {"load_job", "start_job"} =>
            attempts'[req'[w].job] + retriesLeft'[req'[w].job] <= RetryBudget
    BY <1>1, <1>2, <1>3, <1>5 DEF DInv, BudgetInv
  <1>8. BudgetInv'
    BY <1>1, <1>2, <1>5, <1>6, <1>7 DEF DInv, BudgetInv, RetryBudget
  <1>9. QED
    BY <1>4, <1>8

\* The run is loaded and moved from step to step with its session's job kept.
LEMMA QuietProcess ==
    ASSUME TypeInv, NEW p \in Procs, ProcessStep(p) PROVE QuietHandlers
  <1>0. req[p] \in Sessions
    BY DEF TypeInv, TypeOK, HandlersOK
  <1>1. \A seen : SawRun(req[p], seen).job = req[p].job
    BY <1>0, SawRunFields
  <1>2. CASE LoadRun(p)
    BY <1>1, <1>2, QuietGoto, QuietReturns DEF LoadRun
  <1>3. CASE RefuseWithoutMl(p)
    BY <1>3, QuietReturns DEF RefuseWithoutMl
  <1>4. CASE BeginRun(p)
    BY <1>1, <1>4, QuietGoto DEF BeginRun
  <1>5. CASE PipelineFails(p)
    BY <1>5, QuietReturns DEF PipelineFails
  <1>6. CASE Forecast(p)
    BY <1>6, QuietGoto DEF Forecast
  <1>7. CASE Persist(p)
    <2>1. \A q \in Procs \ {p} :
              /\ req'[q] = req[q]
              /\ \/ pc'[q] = pc[q]
                 \/ pc[q] = "persist" /\ pc'[q] = "persist_conflict"
      BY <1>7 DEF Persist, TypeInv, TypeOK, HandlersOK
    <2>2. /\ pc'[p] = IF p \in Clients THEN "idle" ELSE "finish_job"
          /\ p \notin Clients => req'[p].job = req[p].job
          /\ pc[p] = "persist"
      BY <1>1, <1>7 DEF Persist, TypeInv, TypeOK, HandlersOK
    <2>3. QED
      BY <2>1, <2>2 DEF QuietHandlers
  <1>8. CASE PersistFails(p)
    BY <1>8, QuietReturns DEF PersistFails
  <1>9. QED
    BY <1>2, <1>3, <1>4, <1>5, <1>6, <1>7, <1>8 DEF ProcessStep

\* Steps of a request that stay away from RQ.
LEMMA QuietRequest ==
    ASSUME TypeInv, NEW c \in Clients,
           \/ RequestBegins(c) \/ CancelRunWrite(c) \/ ReconcileRead(c) \/ ReconcileWrite(c)
           \/ CancelRq(c) \/ CancelLoadRun(c) \/ CancelWrite(c) \/ RetryLoadRun(c)
           \/ CheckActiveJob(c) \/ InsertRefused(c) \/ MarkEnqueueFailed(c)
           \/ RequestAborted(c)
    PROVE  QuietHandlers
  <1>1. c \in Procs
    BY DEF Procs
  <1>2. CASE RequestBegins(c)
    BY <1>1, <1>2, QuietGoto, QuietResume
    DEF RequestBegins, EnqueueLoad, CancelRunLoad, ProcessBegin, GetJobLoad
  <1>3. CASE ReconcileRead(c) \/ ReconcileWrite(c)
    BY <1>1, <1>3, QuietGoto, QuietDone, QuietResume DEF ReconcileRead, ReconcileWrite
  <1>4. CASE CancelRunWrite(c) \/ CancelWrite(c) \/ InsertRefused(c) \/ MarkEnqueueFailed(c)
             \/ RequestAborted(c)
    BY <1>1, <1>4, QuietDone
    DEF CancelRunWrite, CancelWrite, InsertRefused, MarkEnqueueFailed, RequestAborted
  <1>5. CASE CancelRq(c) \/ CancelLoadRun(c) \/ RetryLoadRun(c) \/ CheckActiveJob(c)
    BY <1>1, <1>5, QuietGoto, QuietDone DEF CancelRq, CancelLoadRun, RetryLoadRun, CheckActiveJob
  <1>6. QED
    BY <1>2, <1>3, <1>4, <1>5

LEMMA DeliveryRequest ==
    ASSUME DInv, TypeInv', RowsStay, NEW c \in Clients, RequestStep(c)
    PROVE  DeliveryInv' /\ BudgetInv'
  <1> USE HeldJob DEF DInv
  <1>1. CASE \/ CancelRunWrite(c) \/ ReconcileRead(c) \/ ReconcileWrite(c)
             \/ CancelLoadRun(c) \/ CancelWrite(c) \/ RetryLoadRun(c)
             \/ CheckActiveJob(c) \/ InsertRefused(c) \/ MarkEnqueueFailed(c)
    <2>1. UNCHANGED <<attempts, rqVars>>
      BY <1>1 DEF CancelRunWrite, ReconcileRead, ReconcileWrite, CancelLoadRun, CancelWrite,
                  RetryLoadRun, CheckActiveJob, InsertRefused, MarkEnqueueFailed, jobVars
    <2>2. QED
      BY <1>1, <2>1, QuietRequest, QuietStep
  <1>2. CASE CancelRq(c)
    <2>1. /\ \A p \in Procs : pc'[p] \in {"dispatch", "load_job", "start_job"} =>
                 pc[p] = pc'[p] /\ req'[p] = req[p]
          /\ \A w \in Workers : pc'[w] = pc[w] /\ req'[w] = req[w]
      BY <1>2 DEF CancelRq, Goto, Done, TypeInv, TypeOK, HandlersOK
    <2>2. \A j \in Jobs : rq'[j] = rq[j] \/ (rq[j] # "absent" /\ rq'[j] = "canceled")
      BY <1>2 DEF CancelRq, TypeInv, TypeOK, QueueOK
    <2>3. UNCHANGED <<jobVars, retriesLeft>>
      BY <1>2 DEF CancelRq
    <2>4. DeliveryInv'
      BY <2>1, <2>2 DEF DeliveryInv, OneWorkerPerJob
    <2>5. BudgetInv'
      BY <2>1, <2>2, <2>3 DEF BudgetInv, jobVars, RetryBudget
    <2>6. QED
      BY <2>4, <2>5
  <1>3. CASE \E j \in Jobs : InsertJob(c, j)
    <2>1. PICK j \in Jobs : InsertJob(c, j)
      BY <1>3
    <2>2. /\ \A p \in Procs \ {c} : pc'[p] = pc[p] /\ req'[p] = req[p]
          /\ pc'[c] = "dispatch" /\ req'[c].job = j
      BY <2>1, JobSessionFields DEF InsertJob, Goto, TypeInv, TypeOK, HandlersOK
    <2>3. jobStatus[j] = "none" /\ rq[j] = "absent" /\ attempts[j] = 0
      BY <2>1 DEF InsertJob, BudgetInv
    <2>4. UNCHANGED <<attempts, rq, retriesLeft>>
      BY <2>1 DEF InsertJob, rqVars
    <2>5. DeliveryInv'
      BY <2>2, <2>3, <2>4 DEF DeliveryInv, OneWorkerPerJob
    <2>6. BudgetInv'
      BY <2>2, <2>3, <2>4 DEF BudgetInv, RowsStay, RetryBudget
    <2>7. QED
      BY <2>5, <2>6
  <1>4. CASE Dispatch(c) \/ DispatchFails(c)
    <2>1. /\ \A p \in Procs \ {c} : pc'[p] = pc[p] /\ req'[p] = req[p]
          /\ pc[c] = "dispatch" /\ pc'[c] # "dispatch"
      BY <1>4 DEF Dispatch, DispatchFails, Goto, Done, TypeInv, TypeOK, HandlersOK
    <2>2. \/ UNCHANGED rqVars
          \/ /\ \A k \in Jobs \ {req[c].job} : rq'[k] = rq[k] /\ retriesLeft'[k] = retriesLeft[k]
             /\ rq'[req[c].job] = "queued" /\ retriesLeft'[req[c].job] = RetryBudget
      BY <1>4, <2>1 DEF Dispatch, DispatchFails, EnqueueInRq, TypeInv, TypeOK, QueueOK
    <2>3. UNCHANGED <<jobStatus, attempts>>
      BY <1>4 DEF Dispatch, DispatchFails, jobVars
    <2>4. rq[req[c].job] = "absent" /\ attempts[req[c].job] = 0
      BY <2>1 DEF DeliveryInv, BudgetInv
    <2>5. DeliveryInv'
      BY <2>1, <2>2, <2>4 DEF DeliveryInv, OneWorkerPerJob, rqVars
    <2>6. BudgetInv'
      BY <2>1, <2>2, <2>3, <2>4, ParametersAssumption DEF BudgetInv, DeliveryInv, rqVars, RetryBudget
    <2>7. QED
      BY <2>5, <2>6
  <1>5. QED
    BY <1>1, <1>2, <1>3, <1>4 DEF RequestStep

LEMMA DeliveryTask ==
    ASSUME DInv, TypeInv', RowsStay, NEW w \in Workers,
           TaskStep(w) \/ WorkerFault(w) \/ \E j \in Jobs : Dequeue(w, j)
    PROVE  DeliveryInv' /\ BudgetInv'
  <1> USE HeldJob DEF DInv
  <1>0. w \in Procs
    OBVIOUS
  <1>1. CASE StartJobRefused(w) \/ FinishJob(w) \/ FailJob(w) \/ JobError(w)
             \/ WorkerLost(w)
    <2>1. QuietHandlers
      BY <1>1, QuietLeaves DEF StartJobRefused, FinishJob, FailJob, JobError, WorkerLost
    <2>2. UNCHANGED <<attempts, rqVars>>
      BY <1>1 DEF StartJobRefused, FinishJob, FailJob, JobError, WorkerLost, jobVars
    <2>3. QED
      BY <2>1, <2>2, QuietStep
  <1>2. CASE WorkerDisconnected(w) \/ WorkerCrash(w)
    <2>1. QuietHandlers
      BY <1>2, <1>0, QuietGoto, QuietDone DEF WorkerDisconnected, WorkerCrash
    <2>2. UNCHANGED <<attempts, rqVars>>
      BY <1>2 DEF WorkerDisconnected, WorkerCrash, jobVars
    <2>3. QED
      BY <2>1, <2>2, QuietStep
  <1>3. CASE LoadJob(w)
    <2>1. CASE Leaves(w, "return")
      <3>1. UNCHANGED <<attempts, rqVars>>
        BY <1>3 DEF LoadJob, jobVars
      <3>2. QED
        BY <1>3, <2>1, <3>1, QuietLeaves, QuietStep DEF LoadJob
    <2>2. CASE Goto(w, "start_job", SawJob(req[w], jobStatus[req[w].job], attempts[req[w].job]))
      <3>1. req[w] \in Sessions
        BY DEF TypeInv, TypeOK, HandlersOK
      <3>2. /\ \A p \in Procs \ {w} : pc'[p] = pc[p] /\ req'[p] = req[p]
            /\ pc[w] = "load_job" /\ pc'[w] = "start_job"
            /\ req'[w].job = req[w].job /\ req'[w].attempts = attempts[req[w].job]
        BY <1>3, <2>2, <3>1, SawJobFields DEF LoadJob, Goto, TypeInv, TypeOK, HandlersOK
      <3>3. UNCHANGED <<jobStatus, attempts, rq, retriesLeft>>
        BY <1>3 DEF LoadJob, jobVars, rqVars
      <3>4. DeliveryInv'
        BY <3>2, <3>3 DEF DeliveryInv, OneWorkerPerJob
      <3>5. BudgetInv'
        BY <3>2, <3>3 DEF BudgetInv, RetryBudget
      <3>6. QED
        BY <3>4, <3>5
    <2>3. QED
      BY <1>3, <2>1, <2>2 DEF LoadJob
  <1>4. CASE StartJob(w)
    <2> DEFINE j == req[w].job
    <2>1. req[w] \in Sessions
      BY DEF TypeInv, TypeOK, HandlersOK
    <2>2. /\ \A p \in Procs \ {w} : pc'[p] = pc[p] /\ req'[p] = req[p]
          /\ pc[w] = "start_job" /\ pc'[w] = "load_run" /\ req'[w].job = j
      BY <1>4, <2>1, SawJobFields DEF StartJob, Goto, TypeInv, TypeOK, HandlersOK
    <2>3. j \in Jobs /\ req[w].attempts = attempts[j] /\ rq[j] \in {"started", "canceled"}
          /\ attempts[j] + retriesLeft[j] <= RetryBudget
      BY <2>2 DEF BudgetInv, DeliveryInv
    <2>4. /\ \A k \in Jobs \ {j} : attempts'[k] = attempts[k]
          /\ attempts'[j] = attempts[j] + 1
      BY <1>4, <2>3 DEF StartJob, TypeInv, TypeOK, RowsOK
    <2>5. UNCHANGED <<rq, retriesLeft>>
      BY <1>4 DEF StartJob, rqVars
    <2>6. \A v \in Workers \ {w} : pc[v] # "idle" => req[v].job # j
      BY <2>2 DEF DeliveryInv, OneWorkerPerJob
    <2>7. \A c \in Clients : pc[c] = "dispatch" => req[c].job # j
      BY <2>3 DEF DeliveryInv
    <2> HIDE DEF j
    <2>8. DeliveryInv'
      BY <2>2, <2>3, <2>5 DEF DeliveryInv, OneWorkerPerJob, j
    <2>9. \A k \in Jobs : jobStatus'[k] = "none" => k # j
      BY <2>3 DEF TypeInv, RowPrecedesDelivery, RowsStay
    <2>10. BudgetInv'
      <3>1. \A c \in Clients : pc'[c] = "dispatch" => attempts'[req'[c].job] = 0
        BY <2>2, <2>4, <2>7 DEF BudgetInv
      <3>2. \A k \in Jobs : /\ attempts'[k] + retriesLeft'[k] <= RetryBudget + 1
                            /\ rq'[k] = "queued" => attempts'[k] + retriesLeft'[k] <= RetryBudget
        BY <2>3, <2>4, <2>5, ParametersAssumption DEF BudgetInv, RetryBudget
      <3>3. \A v \in Workers : pc'[v] \in {"load_job", "start_job"} =>
                /\ attempts'[req'[v].job] + retriesLeft'[req'[v].job] <= RetryBudget
                /\ pc'[v] = "start_job" => req'[v].attempts = attempts'[req'[v].job]
        BY <2>2, <2>4, <2>5, <2>6 DEF BudgetInv
      <3>4. \A k \in Jobs : jobStatus'[k] = "none" => attempts'[k] = 0
        BY <2>4, <2>9 DEF BudgetInv, RowsStay
      <3>5. QED
        BY <3>1, <3>2, <3>3, <3>4 DEF BudgetInv, RetryBudget
    <2>11. QED
      BY <2>8, <2>10
  <1>5. CASE RqSuccess(w)
    <2>1. /\ \A p \in Procs \ {w} : pc'[p] = pc[p] /\ req'[p] = req[p]
          /\ pc[w] # "idle" /\ pc'[w] = "idle"
      BY <1>5 DEF RqSuccess, Done, Goto, TypeInv, TypeOK, HandlersOK
    <2>2. /\ \A k \in Jobs \ {req[w].job} : rq'[k] = rq[k]
          /\ rq'[req[w].job] = "finished"
          /\ UNCHANGED <<jobStatus, attempts, retriesLeft>>
      BY <1>5, <2>1 DEF RqSuccess, jobVars, TypeInv, TypeOK, QueueOK
    <2>3. DeliveryInv'
      BY <2>1, <2>2 DEF DeliveryInv, OneWorkerPerJob
    <2>4. BudgetInv'
      BY <2>1, <2>2 DEF BudgetInv, RetryBudget
    <2>5. QED
      BY <2>3, <2>4
  <1>6. CASE RqFailure(w)
    <2>1. /\ QuietHandlers /\ pc[w] # "idle" /\ pc'[w] = "idle"
          /\ \A v \in Workers \ {w} : pc'[v] = pc[v] /\ req'[v] = req[v]
      BY <1>6, QuietDone DEF RqFailure, Done, Goto, TypeInv, TypeOK, HandlersOK
    <2>2. \A v \in Workers : pc'[v] # "idle" => req'[v].job # req[w].job
      BY <2>1 DEF DeliveryInv, OneWorkerPerJob
    <2>3. req[w].job \in Jobs /\ rq[req[w].job] # "absent"
      BY <2>1 DEF DeliveryInv
    <2>4. RqRetry(req[w].job) /\ UNCHANGED jobVars
      BY <1>6 DEF RqFailure
    <2>5. QED
      BY <2>1, <2>2, <2>3, <2>4, RetryBudgetKept
  <1>7. CASE \E j \in Jobs : Dequeue(w, j)
    <2>1. PICK j \in Jobs : Dequeue(w, j)
      BY <1>7
    <2>2. /\ \A p \in Procs \ {w} : pc'[p] = pc[p] /\ req'[p] = req[p]
          /\ pc'[w] = "load_job" /\ req'[w].job = j
      BY <2>1, JobSessionFields DEF Dequeue, Goto, TypeInv, TypeOK, HandlersOK
    <2>3. /\ \A k \in Jobs \ {j} : rq'[k] = rq[k]
          /\ rq[j] = "queued" /\ rq'[j] = "started"
          /\ UNCHANGED <<jobStatus, attempts, retriesLeft>>
      BY <2>1 DEF Dequeue, jobVars, TypeInv, TypeOK, QueueOK
    <2>4. DeliveryInv'
      BY <2>2, <2>3 DEF DeliveryInv, OneWorkerPerJob
    <2>5. BudgetInv'
      BY <2>2, <2>3 DEF BudgetInv, RetryBudget
    <2>6. QED
      BY <2>4, <2>5
  <1>8. QED
    BY <1>1, <1>2, <1>3, <1>4, <1>5, <1>6, <1>7 DEF TaskStep, WorkerFault

\* Rows are only inserted and updated.
LEMMA RowsStayNext == TypeInv /\ [Next]_vars => RowsStay
  <1> SUFFICES ASSUME TypeInv, [Next]_vars PROVE RowsStay
    OBVIOUS
  <1>0. RowsOK /\ \A tries : ErrorStatus(tries) \in JobStatuses
    BY HelperTypes DEF TypeInv, TypeOK
  <1>1. ASSUME UNCHANGED <<jobStatus, jobRun>> PROVE RowsStay
    BY <1>1 DEF RowsStay
  <1>2. ASSUME NEW j, NEW seen, NEW new \in JobStatuses, WriteJob(j, seen, new), UNCHANGED jobRun
        PROVE  RowsStay
    BY <1>0, <1>2 DEF WriteJob, RowsStay, RowsOK, JobStatuses
  <1>3. ASSUME NEW c \in Clients, RequestStep(c) PROVE RowsStay
    <2>1. CASE ReconcileWrite(c)
      <3>1. req[c].rqSeen \in JobStatuses
        BY <2>1 DEF ReconcileWrite, TypeInv, TypeOK, HandlersOK, SessionFits, Procs
      <3>2. QED
        BY <1>1, <1>2, <2>1, <3>1 DEF ReconcileWrite
    <2>2. CASE CancelWrite(c) \/ MarkEnqueueFailed(c)
      BY <1>2, <2>2 DEF CancelWrite, MarkEnqueueFailed, JobStatuses
    <2>3. CASE \E j \in Jobs : InsertJob(c, j)
      BY <1>0, <2>3 DEF InsertJob, RowsStay, RowsOK
    <2>4. QED
      BY <1>1, <1>3, <2>1, <2>2, <2>3
      DEF RequestStep, CancelRunWrite, ReconcileRead, CancelRq, CancelLoadRun, RetryLoadRun,
          CheckActiveJob, InsertRefused, Dispatch, DispatchFails, jobVars
  <1>4. ASSUME NEW p \in Procs, ProcessStep(p) PROVE RowsStay
    BY <1>1, <1>4
    DEF ProcessStep, LoadRun, RefuseWithoutMl, BeginRun, PipelineFails, Forecast, Persist,
        PersistFails, jobVars
  <1>5. ASSUME NEW w \in Workers, TaskStep(w) PROVE RowsStay
    <2>1. CASE StartJob(w) \/ FinishJob(w) \/ FailJob(w)
      BY <1>2, <2>1 DEF StartJob, FinishJob, FailJob, JobStatuses
    <2>2. CASE JobError(w)
      BY <1>0, <1>1, <1>2, <2>2 DEF JobError
    <2>3. QED
      BY <1>1, <1>5, <2>1, <2>2
      DEF TaskStep, LoadJob, StartJobRefused, RqSuccess, RqFailure, jobVars
  <1>6. QED
    BY <1>1, <1>3, <1>4, <1>5
    DEF Next, CreateRun, RequestBegins, EnqueueLoad, CancelRunLoad, ProcessBegin, GetJobLoad,
        RequestAborted, Dequeue, WorkerFault, WorkerDisconnected, WorkerLost, WorkerCrash,
        RqCleanup, RqExpire, vars, jobVars

LEMMA DeliveryInit == Init => DeliveryInv /\ BudgetInv
  <1> SUFFICES ASSUME Init PROVE DeliveryInv /\ BudgetInv
    OBVIOUS
  <1>1. \A p \in Procs : pc[p] = "idle"
    BY DEF Init
  <1>2. \A j \in Jobs : attempts[j] = 0 /\ retriesLeft[j] = 0 /\ rq[j] = "absent"
    BY DEF Init
  <1>3. RetryBudget \in Nat
    BY HelperTypes
  <1>4. QED
    BY <1>1, <1>2, <1>3 DEF DeliveryInv, OneWorkerPerJob, BudgetInv, Procs

LEMMA DeliveryNext == DInv /\ [Next]_vars => DInv'
  <1> SUFFICES ASSUME DInv, [Next]_vars PROVE DeliveryInv' /\ BudgetInv'
    BY NextType DEF DInv
  <1>1. TypeInv /\ TypeInv' /\ RowsStay
    BY NextType, RowsStayNext DEF DInv
  <1>2. ASSUME UNCHANGED <<jobVars, rqVars, pc, req>> PROVE DeliveryInv' /\ BudgetInv'
    BY <1>1, <1>2, QuietStep DEF QuietHandlers, jobVars
  <1>3. ASSUME NEW c \in Clients, RequestBegins(c) \/ RequestAborted(c)
        PROVE  DeliveryInv' /\ BudgetInv'
    <2>1. UNCHANGED <<jobVars, rqVars>>
      BY <1>3
      DEF RequestBegins, EnqueueLoad, CancelRunLoad, ProcessBegin, GetJobLoad, RequestAborted
    <2>2. QED
      BY <1>1, <1>3, <2>1, QuietRequest, QuietStep DEF jobVars
  <1>4. ASSUME NEW p \in Procs, ProcessStep(p) PROVE DeliveryInv' /\ BudgetInv'
    <2>1. UNCHANGED <<jobVars, rqVars>>
      BY <1>4
      DEF ProcessStep, LoadRun, RefuseWithoutMl, BeginRun, PipelineFails, Forecast, Persist,
          PersistFails
    <2>2. QED
      BY <1>1, <1>4, <2>1, QuietProcess, QuietStep DEF jobVars
  <1>5. ASSUME NEW j \in Jobs, RqCleanup(j) PROVE DeliveryInv' /\ BudgetInv'
    <2>1. QuietHandlers /\ UNCHANGED jobVars /\ RqRetry(j) /\ rq[j] # "absent"
      BY <1>5 DEF RqCleanup, QuietHandlers
    <2>2. \A w \in Workers : pc'[w] # "idle" => req'[w].job # j
      BY <1>5 DEF RqCleanup, HeldBy
    <2>3. QED
      BY <1>1, <2>1, <2>2, RetryBudgetKept
  <1>6. ASSUME NEW j \in Jobs, RqExpire(j) PROVE DeliveryInv' /\ BudgetInv'
    <2>1. /\ \A k \in Jobs \ {j} : rq'[k] = rq[k]
          /\ rq[j] \in {"finished", "failed"} /\ rq'[j] = "absent"
          /\ UNCHANGED <<jobStatus, attempts, retriesLeft, pc, req>>
      BY <1>1, <1>6 DEF RqExpire, jobVars, TypeInv, TypeOK, QueueOK
    <2>2. DeliveryInv'
      BY <1>1, <2>1, HeldJob DEF DInv, DeliveryInv, OneWorkerPerJob
    <2>3. BudgetInv'
      BY <1>1, <2>1, HeldJob DEF DInv, BudgetInv, RetryBudget
    <2>4. QED
      BY <2>2, <2>3
  <1>7. QED
    BY <1>1, <1>2, <1>3, <1>4, <1>5, <1>6, DeliveryRequest, DeliveryTask
    DEF Next, CreateRun, vars, runVars

\* RQ gives a job to one worker at a time.
THEOREM OneWorker == Spec => []OneWorkerPerJob
  <1>1. Init => DInv
    BY InitType, DeliveryInit DEF DInv
  <1>2. DInv => OneWorkerPerJob
    BY DEF DInv, DeliveryInv
  <1>3. QED
    BY <1>1, <1>2, DeliveryNext, PTL DEF Spec

\* The attempts of a job stay within max_retries.
THEOREM AttemptsBounded == Spec => []AttemptsWithinBudget
  <1>1. Init => DInv
    BY InitType, DeliveryInit DEF DInv
  <1>2. DInv => AttemptsWithinBudget
    BY HelperTypes, HeldJob DEF DInv, BudgetInv, AttemptsWithinBudget
  <1>3. QED
    BY <1>1, <1>2, DeliveryNext, PTL DEF Spec
-----------------------------------------------------------------------------
(* Redeliveries                                                            *)

AwaitsDispatch(j) == \E c \in Clients : pc[c] = "dispatch" /\ req[c].job = j

\* The API hands a job to RQ for the first time, with all its retries.
FirstDelivery(j) ==
    /\ AwaitsDispatch(j) /\ ~AwaitsDispatch(j)'
    /\ rq[j] = "absent" /\ rq'[j] = "queued"
    /\ retriesLeft'[j] = RetryBudget

\* A step puts a job in the queue for the first time or at the cost of a retry,
\* nothing gives retries back, a worker gets what was queued, and only the
\* insertion of its row makes a job wait for its dispatch.
DeliveryAccounted(j) ==
    /\ rq'[j] = "queued" =>
           rq[j] = "queued" \/ FirstDelivery(j) \/ retriesLeft'[j] = retriesLeft[j] - 1
    /\ retriesLeft'[j] > retriesLeft[j] => FirstDelivery(j)
    /\ rq'[j] = "started" => rq[j] \in {"queued", "started"}
    /\ AwaitsDispatch(j)' =>
           AwaitsDispatch(j) \/ (jobStatus[j] = "none" /\ jobStatus'[j] # "none")
    /\ jobStatus[j] # "none" => jobStatus'[j] # "none"

\* A job is dispatched once in its life and every later delivery uses up one of
\* its retries, through crashes, cancellations, clean-ups and expiry in RQ: so
\* RQ delivers it at most RetryBudget + 1 times, also when the deliveries die
\* before they are counted in the row's attempts.
RedeliveriesUseUpRetries == [][\A j \in Jobs : DeliveryAccounted(j)]_vars

\* No client comes to a dispatch.
NoNewDispatch ==
    \A c \in Clients : pc'[c] = "dispatch" => pc[c] = "dispatch" /\ req'[c].job = req[c].job

LEMMA AccountedWithoutDispatch ==
    ASSUME DInv, RowsStay, NoNewDispatch, NEW j \in Jobs,
           \/ rq'[j] = rq[j] /\ retriesLeft'[j] = retriesLeft[j]
           \/ /\ retriesLeft'[j] = retriesLeft[j]
              /\ rq'[j] \notin {"queued", "started"} \/ (rq[j] = "queued" /\ rq'[j] = "started")
           \/ /\ retriesLeft'[j] = retriesLeft[j] - 1
              /\ rq'[j] # "started"
    PROVE  DeliveryAccounted(j)
  <1>1. AwaitsDispatch(j)' => AwaitsDispatch(j)
    BY DEF AwaitsDispatch, NoNewDispatch
  <1>2. jobStatus[j] # "none" => jobStatus'[j] # "none"
    BY DEF RowsStay
  <1>3. retriesLeft[j] \in Nat
    BY HeldJob DEF DInv
  <1>4. ~(retriesLeft'[j] > retriesLeft[j])
    BY <1>3
  <1>5. QED
    BY <1>1, <1>2, <1>4 DEF DeliveryAccounted

LEMMA AccountedRetry ==
    ASSUME DInv, RowsStay, NoNewDispatch, NEW k \in Jobs, RqRetry(k)
    PROVE  \A j \in Jobs : DeliveryAccounted(j)
  <1>1. \A j \in Jobs \ {k} : rq'[j] = rq[j] /\ retriesLeft'[j] = retriesLeft[j]
    BY DEF RqRetry, DInv, TypeInv, TypeOK, QueueOK
  <1>2. \/ retriesLeft'[k] = retriesLeft[k] /\ rq'[k] = "failed"
        \/ retriesLeft'[k] = retriesLeft[k] - 1 /\ rq'[k] # "started"
    BY DEF RqRetry, DInv, TypeInv, TypeOK, QueueOK
  <1>3. QED
    BY <1>1, <1>2, AccountedWithoutDispatch

LEMMA AccountedDispatch ==
    ASSUME DInv, RowsStay, NEW c \in Clients, Dispatch(c) \/ DispatchFails(c)
    PROVE  \A j \in Jobs : DeliveryAccounted(j)
  <1>0. PICK k \in Jobs : pc[c] = "dispatch" /\ k = req[c].job
    BY HeldJob DEF Dispatch, DispatchFails, DInv
  <1>1. /\ \A d \in Clients \ {c} : pc'[d] = pc[d] /\ req'[d] = req[d]
        /\ pc'[c] # "dispatch"
    BY <1>0, HeldJob DEF Dispatch, DispatchFails, Goto, Done, DInv, TypeInv, TypeOK, HandlersOK, Procs
  <1>2. \/ UNCHANGED rqVars
        \/ /\ \A j \in Jobs \ {k} : rq'[j] = rq[j] /\ retriesLeft'[j] = retriesLeft[j]
           /\ rq'[k] = "queued" /\ retriesLeft'[k] = RetryBudget
    BY <1>0, <1>1 DEF Dispatch, DispatchFails, EnqueueInRq, DInv, TypeInv, TypeOK, QueueOK
  <1>3. NoNewDispatch
    BY <1>1 DEF NoNewDispatch
  <1>4. AwaitsDispatch(k) /\ ~AwaitsDispatch(k)' /\ rq[k] = "absent"
    BY <1>0, <1>1 DEF AwaitsDispatch, DInv, DeliveryInv
  <1>5. CASE UNCHANGED rqVars
    BY <1>3, <1>5, AccountedWithoutDispatch DEF rqVars
  <1>6. CASE /\ \A j \in Jobs \ {k} : rq'[j] = rq[j] /\ retriesLeft'[j] = retriesLeft[j]
             /\ rq'[k] = "queued" /\ retriesLeft'[k] = RetryBudget
    <2>1. FirstDelivery(k)
      BY <1>4, <1>6 DEF FirstDelivery
    <2>2. DeliveryAccounted(k)
      BY <1>1, <1>4, <1>6, <2>1 DEF DeliveryAccounted, RowsStay
    <2>3. QED
      BY <1>3, <1>6, <2>2, AccountedWithoutDispatch
  <1>7. QED
    BY <1>2, <1>5, <1>6

LEMMA DeliveriesNext == DInv /\ [Next]_vars => \A j \in Jobs : DeliveryAccounted(j)
  <1> SUFFICES ASSUME DInv, [Next]_vars PROVE \A j \in Jobs : DeliveryAccounted(j)
    OBVIOUS
  <1> USE DEF DInv
  <1>0. TypeInv /\ RowsStay /\ Clients \subseteq Procs /\ Workers \subseteq Procs
            /\ Clients \cap Workers = {}
    BY RowsStayNext, HeldJob
  <1>1. ASSUME UNCHANGED rqVars, NoNewDispatch PROVE \A j \in Jobs : DeliveryAccounted(j)
    BY <1>0, <1>1, AccountedWithoutDispatch DEF rqVars
  <1>2. ASSUME QuietHandlers PROVE NoNewDispatch
    BY <1>0, <1>2 DEF QuietHandlers, NoNewDispatch
  <1>3. ASSUME NEW w \in Workers, NEW label, NEW s, Goto(w, label, s) PROVE NoNewDispatch
    BY <1>0, <1>3 DEF Goto, NoNewDispatch, TypeInv, TypeOK, HandlersOK
  <1>4. ASSUME NEW c \in Clients, RequestStep(c) PROVE \A j \in Jobs : DeliveryAccounted(j)
    <2>1. CASE \/ CancelRunWrite(c) \/ ReconcileRead(c) \/ ReconcileWrite(c)
               \/ CancelLoadRun(c) \/ CancelWrite(c) \/ RetryLoadRun(c)
               \/ CheckActiveJob(c) \/ InsertRefused(c) \/ MarkEnqueueFailed(c)
      <3>1. UNCHANGED rqVars
        BY <2>1 DEF CancelRunWrite, ReconcileRead, ReconcileWrite, CancelLoadRun, CancelWrite,
                    RetryLoadRun, CheckActiveJob, InsertRefused, MarkEnqueueFailed
      <3>2. QED
        BY <1>0, <1>1, <1>2, <2>1, <3>1, QuietRequest
    <2>2. CASE CancelRq(c)
      <3>1. NoNewDispatch
        BY <1>0, <2>2 DEF CancelRq, Goto, Done, NoNewDispatch, TypeInv, TypeOK, HandlersOK
      <3>2. \A j \in Jobs : rq'[j] = rq[j] \/ rq'[j] = "canceled"
        BY <1>0, <2>2 DEF CancelRq, TypeInv, TypeOK, QueueOK
      <3>3. UNCHANGED retriesLeft
        BY <2>2 DEF CancelRq
      <3>4. QED
        BY <1>0, <3>1, <3>2, <3>3, AccountedWithoutDispatch
    <2>3. CASE \E k \in Jobs : InsertJob(c, k)
      <3>1. PICK k \in Jobs : InsertJob(c, k)
        BY <2>3
      <3>2. /\ \A d \in Clients \ {c} : pc'[d] = pc[d] /\ req'[d] = req[d]
            /\ req'[c].job = k /\ jobStatus[k] = "none" /\ jobStatus'[k] # "none"
            /\ UNCHANGED <<rq, retriesLeft>>
        BY <1>0, <3>1, JobSessionFields
        DEF InsertJob, Goto, TypeInv, TypeOK, HandlersOK, RowsOK, rqVars
      <3>3. \A j \in Jobs : AwaitsDispatch(j)' =>
                AwaitsDispatch(j) \/ (jobStatus[j] = "none" /\ jobStatus'[j] # "none")
        BY <3>2 DEF AwaitsDispatch
      <3>4. \A j \in Jobs : ~(retriesLeft'[j] > retriesLeft[j])
        BY <1>0, <3>2, HeldJob
      <3>5. QED
        BY <1>0, <3>2, <3>3, <3>4 DEF DeliveryAccounted, RowsStay
    <2>4. QED
      BY <1>0, <1>4, <2>1, <2>2, <2>3, AccountedDispatch DEF RequestStep
  <1>5. ASSUME NEW c \in Clients, RequestBegins(c) \/ RequestAborted(c)
        PROVE  \A j \in Jobs : DeliveryAccounted(j)
    <2>1. UNCHANGED rqVars
      BY <1>5
      DEF RequestBegins, EnqueueLoad, CancelRunLoad, ProcessBegin, GetJobLoad, RequestAborted
    <2>2. QED
      BY <1>0, <1>1, <1>2, <1>5, <2>1, QuietRequest
  <1>6. ASSUME NEW p \in Procs, ProcessStep(p) PROVE \A j \in Jobs : DeliveryAccounted(j)
    <2>1. UNCHANGED rqVars
      BY <1>6
      DEF ProcessStep, LoadRun, RefuseWithoutMl, BeginRun, PipelineFails, Forecast, Persist,
          PersistFails
    <2>2. QED
      BY <1>0, <1>1, <1>2, <1>6, <2>1, QuietProcess
  <1>7. ASSUME NEW w \in Workers, TaskStep(w) \/ WorkerFault(w) \/ \E k \in Jobs : Dequeue(w, k)
        PROVE  \A j \in Jobs : DeliveryAccounted(j)
    <2>1. NoNewDispatch
      BY <1>3, <1>7
      DEF TaskStep, WorkerFault, LoadJob, StartJob, StartJobRefused, FinishJob, FailJob, JobError,
          RqSuccess, RqFailure, WorkerDisconnected, WorkerLost, WorkerCrash, Dequeue, Leaves, Done
    <2>2. CASE \E k \in Jobs : Dequeue(w, k)
      <3>1. PICK k \in Jobs : Dequeue(w, k)
        BY <2>2
      <3>2. /\ \A j \in Jobs \ {k} : rq'[j] = rq[j]
            /\ rq[k] = "queued" /\ rq'[k] = "started" /\ UNCHANGED retriesLeft
        BY <1>0, <3>1 DEF Dequeue, TypeInv, TypeOK, QueueOK
      <3>3. QED
        BY <1>0, <2>1, <3>2, AccountedWithoutDispatch
    <2>3. CASE RqSuccess(w)
      <3>1. /\ \A j \in Jobs : rq'[j] = rq[j] \/ rq'[j] = "finished"
            /\ UNCHANGED retriesLeft
        BY <1>0, <2>3 DEF RqSuccess, TypeInv, TypeOK, QueueOK
      <3>2. QED
        BY <1>0, <2>1, <3>1, AccountedWithoutDispatch
    <2>4. CASE RqFailure(w)
      <3>1. RqRetry(req[w].job) /\ req[w].job \in Jobs
        BY <1>0, <2>4, HeldJob DEF RqFailure
      <3>2. QED
        BY <1>0, <2>1, <3>1, AccountedRetry
    <2>5. CASE UNCHANGED rqVars
      BY <1>1, <2>1, <2>5
    <2>6. QED
      BY <1>7, <2>2, <2>3, <2>4, <2>5
      DEF TaskStep, WorkerFault, LoadJob, StartJob, StartJobRefused, FinishJob, FailJob, JobError,
          WorkerDisconnected, WorkerLost, WorkerCrash
  <1>8. ASSUME NEW k \in Jobs, RqCleanup(k) \/ RqExpire(k)
        PROVE  \A j \in Jobs : DeliveryAccounted(j)
    <2>1. NoNewDispatch
      BY <1>8 DEF RqCleanup, RqExpire, NoNewDispatch
    <2>2. CASE RqCleanup(k)
      BY <1>0, <2>1, <2>2, AccountedRetry DEF RqCleanup
    <2>3. CASE RqExpire(k)
      <3>1. /\ \A j \in Jobs : rq'[j] = rq[j] \/ rq'[j] = "absent"
            /\ UNCHANGED retriesLeft
        BY <1>0, <2>3 DEF RqExpire, TypeInv, TypeOK, QueueOK
      <3>2. QED
        BY <1>0, <2>1, <3>1, AccountedWithoutDispatch
    <2>4. QED
      BY <1>8, <2>2, <2>3
  <1>9. CASE UNCHANGED vars \/ \E r \in Runs : CreateRun(r)
    <2>1. UNCHANGED <<rqVars, pc, req>>
      BY <1>9 DEF vars, CreateRun
    <2>2. QED
      BY <1>1, <2>1 DEF NoNewDispatch
  <1>10. QED
    BY <1>4, <1>5, <1>6, <1>7, <1>8, <1>9 DEF Next

\* The retries RQ is given bound its deliveries, whatever happens to the workers.
THEOREM RedeliveriesRunOut == Spec => RedeliveriesUseUpRetries
  <1>1. Init => DInv
    BY InitType, DeliveryInit DEF DInv
  <1>2. DInv /\ [Next]_vars => [\A j \in Jobs : DeliveryAccounted(j)]_vars
    BY DeliveriesNext
  <1>3. QED
    BY <1>1, <1>2, DeliveryNext, PTL DEF Spec, RedeliveriesUseUpRetries
=============================================================================
