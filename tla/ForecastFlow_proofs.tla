------------------------ MODULE ForecastFlow_proofs ------------------------
(***************************************************************************)
(* Theorems about ForecastJobs that hold for some of its endpoints and     *)
(* failures only: what a cancelled run is promised when nobody retries a   *)
(* job, and that the documented flow (create a run, enqueue it, poll its   *)
(* job) computes a run once at a time and refines RunLifecycle.            *)
(***************************************************************************)
EXTENDS ForecastJobs_proofs

-----------------------------------------------------------------------------
(* Requests are of the endpoints in Ops *)

\* What the label of a request says of the endpoint it belongs to
OpFits(label, s) ==
    /\ s.op \in Ops \cup {"none"}
    /\ label = "cancel_run_write" => s.op = "cancel_run"
    /\ label \in {"cancel_rq", "cancel_load", "cancel_write"} => s.op = "cancel"
    /\ label = "retry_load" => s.op = "retry"
    /\ label \in ProcessLabels => s.op = "process"
    /\ label = "enqueue_failed" => "redis" \in Faults

OpsInv == \A c \in Clients : OpFits(pc[c], req[c])

LEMMA OpsGoto ==
    ASSUME TypeInv, OpsInv, NEW p \in Procs, NEW label, NEW s, Goto(p, label, s),
           p \in Clients => OpFits(label, s)
    PROVE  OpsInv'
  <1>1. ASSUME NEW c \in Clients PROVE OpFits(pc[c], req[c])'
    <2>1. /\ pc'[c] = IF c = p THEN label ELSE pc[c]
          /\ req'[c] = IF c = p THEN s ELSE req[c]
      BY DEF Goto, TypeInv, TypeOK, HandlersOK, Procs
    <2>2. OpFits(pc[c], req[c])
      BY DEF OpsInv
    <2>3. CASE c = p
      BY <2>1, <2>3 DEF OpFits
    <2>4. CASE c # p
      BY <2>1, <2>2, <2>4 DEF OpFits
    <2>5. QED
      BY <2>3, <2>4
  <1>2. QED
    BY <1>1 DEF OpsInv

LEMMA OpsDone ==
    ASSUME TypeInv, OpsInv, NEW p \in Procs, Done(p)
    PROVE  OpsInv'
  <1>1. OpFits("idle", NoRequest)
    BY NoRequestFields DEF OpFits, ProcessLabels
  <1>2. QED
    BY <1>1, OpsGoto DEF Done

LEMMA OpsResume ==
    ASSUME TypeInv, OpsInv, NEW c \in Clients, NEW s \in Sessions, s.op \in Ops \cup {"none"}, Resume(c, s)
    PROVE  OpsInv'
  <1>1. SawJob(s, s.jobSeen, 0).op = s.op
    BY SawJobFields
  <1>2. CASE CancelGoesOn(s) /\ Goto(c, "cancel_rq", SawJob(s, s.jobSeen, 0))
    BY <1>1, <1>2, OpsGoto DEF Procs, CancelGoesOn, OpFits, ProcessLabels
  <1>3. CASE RetryGoesOn(s) /\ Goto(c, "retry_load", SawJob(s, s.jobSeen, 0))
    BY <1>1, <1>3, OpsGoto DEF Procs, RetryGoesOn, OpFits, ProcessLabels
  <1>4. QED
    BY <1>2, <1>3, OpsDone DEF Resume, Procs

LEMMA OpsBegins ==
    ASSUME TypeInv, OpsInv, NEW c \in Clients, RequestBegins(c)
    PROVE  OpsInv'
  <1>0. c \in Procs
    BY DEF Procs
  <1>1. ASSUME NEW r \in Runs, EnqueueLoad(c, r) PROVE OpsInv'
    BY <1>0, <1>1, OpsGoto, RunSessionFields DEF EnqueueLoad, OpFits, ProcessLabels
  <1>2. ASSUME NEW r \in Runs, CancelRunLoad(c, r) PROVE OpsInv'
    BY <1>0, <1>2, OpsGoto, RunSessionFields DEF CancelRunLoad, OpFits, ProcessLabels
  <1>3. ASSUME NEW r \in Runs, ProcessBegin(c, r) PROVE OpsInv'
    BY <1>0, <1>3, OpsGoto, RunSessionFields DEF ProcessBegin, OpFits, ProcessLabels
  <1>4. ASSUME NEW j \in Jobs, NEW op \in {"get", "cancel", "retry"}, GetJobLoad(c, j, op)
        PROVE  OpsInv'
    <2> DEFINE s == JobSession(op, j, jobRun[j], jobStatus[j], attempts[j])
    <2>1. s \in Sessions /\ s.op = op
      <3>1. /\ jobRun[j] \in Runs \cup {None} /\ attempts[j] \in Nat
            /\ jobStatus[j] \in JobStatuses \cup {"none"}
        BY DEF TypeInv, TypeOK, RowsOK
      <3>2. s \in Sessions
        BY <3>1, JobSessionType
      <3>3. QED
        BY <3>2, JobSessionFields
    <2>2. /\ op \in Ops
          /\ Resume(c, s) \/ Goto(c, "reconcile", s)
      BY <1>4 DEF GetJobLoad
    <2> HIDE DEF s
    <2>3. OpFits("reconcile", s)
      BY <2>1, <2>2 DEF OpFits, ProcessLabels
    <2>4. QED
      BY <1>0, <2>1, <2>2, <2>3, OpsGoto, OpsResume
  <1>5. QED
    BY <1>1, <1>2, <1>3, <1>4 DEF RequestBegins

LEMMA OpsRequest ==
    ASSUME TypeInv, OpsInv, NEW c \in Clients, RequestStep(c)
    PROVE  OpsInv'
  <1>0. c \in Procs /\ req[c] \in Sessions /\ OpFits(pc[c], req[c])
    BY DEF Procs, OpsInv, TypeInv, TypeOK, HandlersOK
  <1>1. req[c].op \in Ops \cup {"none"}
    BY <1>0 DEF OpFits
  <1>2. CASE ReconcileRead(c)
    <2>1. \A seen : /\ SawRq(req[c], seen).op = req[c].op
                    /\ OpFits("reconcile_write", SawRq(req[c], seen))
      BY <1>0, <1>1, SawRqFields DEF OpFits, ProcessLabels
    <2>2. QED
      BY <1>0, <1>1, <1>2, <2>1, OpsGoto, OpsResume DEF ReconcileRead
  <1>3. CASE ReconcileWrite(c)
    <2> DEFINE s == SawJob(req[c], req[c].rqSeen, req[c].attempts)
    <2>1. req[c].rqSeen \in JobStatuses \cup {"none"} /\ req[c].attempts \in Nat
      BY <1>0 DEF Sessions
    <2>2. s \in Sessions /\ s.op = req[c].op
      BY <1>0, <2>1, SawJobType, SawJobFields
    <2>3. Resume(c, SawRq(s, "none")) \/ Done(c)
      BY <1>3 DEF ReconcileWrite
    <2> HIDE DEF s
    <2>4. SawRq(s, "none") \in Sessions /\ SawRq(s, "none").op = req[c].op
      BY <2>2, SawRqType, SawRqFields
    <2>5. QED
      BY <1>0, <1>1, <2>3, <2>4, OpsDone, OpsResume
  <1>4. CASE CancelRq(c)
    BY <1>0, <1>4, OpsGoto, OpsDone DEF CancelRq, OpFits, ProcessLabels
  <1>5. CASE CancelLoadRun(c) \/ RetryLoadRun(c)
    BY <1>0, <1>5, OpsGoto, SawRunFields, RunSessionFields
    DEF CancelLoadRun, RetryLoadRun, OpFits, ProcessLabels
  <1>6. CASE CheckActiveJob(c)
    BY <1>0, <1>1, <1>6, OpsGoto, OpsDone DEF CheckActiveJob, OpFits, ProcessLabels
  <1>7. CASE \E j \in Jobs : InsertJob(c, j)
    BY <1>0, <1>1, <1>7, OpsGoto, JobSessionFields DEF InsertJob, OpFits, ProcessLabels
  <1>8. CASE DispatchFails(c)
    BY <1>0, <1>1, <1>8, OpsGoto DEF DispatchFails, OpFits, ProcessLabels
  <1>9. CASE CancelRunWrite(c) \/ CancelWrite(c) \/ InsertRefused(c) \/ Dispatch(c)
             \/ MarkEnqueueFailed(c)
    BY <1>0, <1>9, OpsDone DEF CancelRunWrite, CancelWrite, InsertRefused, Dispatch, MarkEnqueueFailed
  <1>10. QED
    BY <1>2, <1>3, <1>4, <1>5, <1>6, <1>7, <1>8, <1>9 DEF RequestStep

LEMMA OpsProcess ==
    ASSUME TypeInv, OpsInv, NEW p \in Procs, ProcessStep(p)
    PROVE  OpsInv'
  <1>0. req[p] \in Sessions /\ (p \in Clients => OpFits(pc[p], req[p]))
    BY DEF OpsInv, TypeInv, TypeOK, HandlersOK
  <1>1. ASSUME NEW label, Returns(p, label) PROVE OpsInv'
    BY <1>1, OpsGoto, OpsDone DEF Returns
  <1>2. ASSUME NEW label \in ProcessLabels, NEW seen, pc[p] \in ProcessLabels
        PROVE  p \in Clients => OpFits(label, SawRun(req[p], seen)) /\ OpFits(label, req[p])
    BY <1>0, <1>2, SawRunFields DEF OpFits, ProcessLabels
  <1>3. CASE Persist(p)
    <2>1. ASSUME NEW c \in Clients PROVE OpFits(pc[c], req[c])'
      <3>1. OpFits(pc[c], req[c])
        BY DEF OpsInv
      <3>2. CASE c = p
        <4>1. pc'[c] = "idle" /\ req'[c] = NoRequest
          BY <1>3, <3>2 DEF Persist, TypeInv, TypeOK, HandlersOK
        <4>2. QED
          BY <4>1, NoRequestFields DEF OpFits, ProcessLabels
      <3>3. CASE c # p
        <4>1. /\ req'[c] = req[c]
              /\ pc'[c] = pc[c] \/ (pc[c] = "persist" /\ pc'[c] = "persist_conflict")
          BY <1>3, <3>3 DEF Persist, TypeInv, TypeOK, HandlersOK, Procs
        <4>2. QED
          BY <3>1, <4>1 DEF OpFits, ProcessLabels
      <3>4. QED
        BY <3>2, <3>3
    <2>2. QED
      BY <2>1 DEF OpsInv
  <1>4. CASE LoadRun(p) \/ BeginRun(p) \/ Forecast(p)
    BY <1>1, <1>2, <1>4, OpsGoto DEF LoadRun, BeginRun, Forecast, ProcessLabels
  <1>5. CASE RefuseWithoutMl(p) \/ PipelineFails(p) \/ PersistFails(p)
    BY <1>1, <1>5 DEF RefuseWithoutMl, PipelineFails, PersistFails
  <1>6. QED
    BY <1>3, <1>4, <1>5 DEF ProcessStep

\* A worker's own steps are none of a request's.
LEMMA OpsTask ==
    ASSUME TypeInv, OpsInv, NEW w \in Workers,
           TaskStep(w) \/ WorkerFault(w) \/ \E j \in Jobs : Dequeue(w, j)
    PROVE  OpsInv'
  <1>1. w \in Procs /\ w \notin Clients
    BY ParametersAssumption DEF Procs
  <1>2. ASSUME NEW label, NEW s, Goto(w, label, s) PROVE OpsInv'
    BY <1>1, <1>2, OpsGoto
  <1>3. CASE LoadJob(w) \/ StartJob(w) \/ StartJobRefused(w) \/ FinishJob(w) \/ FailJob(w)
             \/ JobError(w)
    BY <1>2, <1>3 DEF LoadJob, StartJob, StartJobRefused, FinishJob, FailJob, JobError, Leaves
  <1>4. CASE RqSuccess(w) \/ RqFailure(w) \/ WorkerFault(w)
    BY <1>2, <1>4
    DEF RqSuccess, RqFailure, Done, WorkerFault, WorkerDisconnected, WorkerLost, WorkerCrash, Leaves
  <1>5. CASE \E j \in Jobs : Dequeue(w, j)
    BY <1>2, <1>5 DEF Dequeue
  <1>6. QED
    BY <1>3, <1>4, <1>5 DEF TaskStep

LEMMA OpsNext == TypeInv /\ OpsInv /\ [Next]_vars => OpsInv'
  <1> SUFFICES ASSUME TypeInv, OpsInv, [Next]_vars PROVE OpsInv'
    OBVIOUS
  <1>1. ASSUME UNCHANGED <<pc, req>> PROVE OpsInv'
    BY <1>1 DEF OpsInv, OpFits
  <1>2. ASSUME NEW c \in Clients, RequestAborted(c) PROVE OpsInv'
    BY <1>2, OpsDone DEF RequestAborted, Procs
  <1>3. QED
    BY <1>1, <1>2, OpsBegins, OpsRequest, OpsProcess, OpsTask
    DEF Next, CreateRun, RqCleanup, RqExpire, vars

LEMMA OpsInit == Init => OpsInv
  BY NoRequestFields DEF Init, OpsInv, OpFits, ProcessLabels, Procs

-----------------------------------------------------------------------------
(* A withdrawn run is never computed                                       *)

WorkingLabels == {"begin", "forecast", "persist", "persist_conflict"}

\* A withdrawn run stays cancelled, and nobody works on it.
WithdrawnInv ==
    /\ \A r \in withdrawn : runStatus[r] = "cancelled"
    /\ CancelledRunNeverComputes

WInv == TypeInv /\ OpsInv /\ WithdrawnInv

\* Nobody works on a run that is idle.
LEMMA NobodyWorks ==
    ASSUME TypeInv, OpsInv, NEW r, Idle(r), NEW p \in Procs, Working(p)
    PROVE  req[p].run # r
  <1>1. pc[p] \in ProcessLabels /\ pc[p] # "idle"
    BY DEF Working, ProcessLabels
  <1>2. SessionFits(p, pc[p], req[p]) /\ OwnRow(req[p])
    BY DEF TypeInv, TypeOK, HandlersOK, RowPrecedesDelivery
  <1>3. CASE p \in Workers
    <2>1. req[p].job \in Jobs /\ p \in HeldBy(req[p].job)
      BY <1>1, <1>2, <1>3 DEF SessionFits, HeldBy
    <2>2. req[p].run = jobRun[req[p].job]
      BY <1>1, <1>2, <2>1, ParametersAssumption DEF SessionFits, OwnRow, ProcessLabels
    <2>3. QED
      BY <2>1, <2>2 DEF Idle
  <1>4. CASE p \in Clients
    BY <1>1, <1>4 DEF OpsInv, OpFits, Idle
  <1>5. QED
    BY <1>3, <1>4 DEF Procs

\* A step that leaves withdrawn runs alone and takes up none of them.
LEMMA WithdrawnGoto ==
    ASSUME WInv, NEW p \in Procs, NEW label, NEW s, Goto(p, label, s),
           label \in WorkingLabels => s.run \notin withdrawn,
           \A r \in withdrawn : runStatus'[r] = runStatus[r], UNCHANGED withdrawn
    PROVE  WithdrawnInv'
  <1>1. ASSUME NEW q \in Procs, Working(q)' PROVE req'[q].run \notin withdrawn
    <2>1. /\ pc'[q] = IF q = p THEN label ELSE pc[q]
          /\ req'[q] = IF q = p THEN s ELSE req[q]
      BY DEF Goto, WInv, TypeInv, TypeOK, HandlersOK
    <2>2. QED
      BY <1>1, <2>1 DEF Working, WorkingLabels, WInv, WithdrawnInv, CancelledRunNeverComputes
  <1>2. QED
    BY <1>1 DEF WInv, WithdrawnInv, CancelledRunNeverComputes

LEMMA WithdrawnDone ==
    ASSUME WInv, NEW p \in Procs, Done(p),
           \A r \in withdrawn : runStatus'[r] = runStatus[r], UNCHANGED withdrawn
    PROVE  WithdrawnInv'
  BY WithdrawnGoto DEF Done, WorkingLabels

\* A cancellation is recorded only while nobody is at work on the run.
LEMMA WithdrawnCancel ==
    ASSUME WInv, NEW c \in Clients, CancelRunWrite(c) \/ CancelWrite(c)
    PROVE  WithdrawnInv'
  <1> DEFINE r == req[c].run
  <1>1. c \in Procs /\ r \in Runs
    BY DEF CancelRunWrite, CancelWrite, Procs, WInv, TypeInv, TypeOK, HandlersOK, SessionFits
  <1>2. /\ withdrawn' \subseteq withdrawn \cup {r}
        /\ r \notin withdrawn /\ r \in withdrawn' => Idle(r) /\ runStatus'[r] = "cancelled"
        /\ withdrawn \subseteq Runs
        /\ \A t \in Runs : runStatus'[t] \in {runStatus[t], "cancelled"}
    BY DEF CancelRunWrite, CancelWrite, Withdraw, WriteRun, WInv, TypeInv, TypeOK, RowsOK
  <1>3. \A q \in Procs : Working(q)' => Working(q) /\ req'[q] = req[q]
    BY <1>1 DEF CancelRunWrite, CancelWrite, Done, Goto, Working, WInv, TypeInv, TypeOK, HandlersOK
  <1> HIDE DEF r
  <1>4. \A t \in withdrawn' : runStatus'[t] = "cancelled"
    BY <1>1, <1>2 DEF WInv, WithdrawnInv
  <1>5. ASSUME NEW q \in Procs, Working(q)' PROVE req'[q].run \notin withdrawn'
    <2>1. req[q].run \notin withdrawn
      BY <1>3, <1>5 DEF WInv, WithdrawnInv, CancelledRunNeverComputes
    <2>2. r \notin withdrawn /\ r \in withdrawn' => req[q].run # r
      BY <1>2, <1>3, <1>5, NobodyWorks DEF WInv
    <2>3. QED
      BY <1>2, <1>3, <1>5, <2>1, <2>2
  <1>6. QED
    BY <1>4, <1>5 DEF WithdrawnInv, CancelledRunNeverComputes

LEMMA WithdrawnRequest ==
    ASSUME WInv, "retry" \notin Ops, NEW c \in Clients, RequestStep(c)
    PROVE  WithdrawnInv'
  <1>0. c \in Procs
    BY DEF Procs
  <1>1. CASE ReconcileRead(c) \/ ReconcileWrite(c)
    <2>1. UNCHANGED <<runStatus, withdrawn>>
      BY <1>1 DEF ReconcileRead, ReconcileWrite, runVars
    <2>2. QED
      BY <1>0, <1>1, <2>1, WithdrawnGoto, WithdrawnDone
      DEF ReconcileRead, ReconcileWrite, Resume, WorkingLabels
  <1>2. CASE CancelRq(c) \/ CancelLoadRun(c) \/ RetryLoadRun(c) \/ CheckActiveJob(c)
             \/ InsertRefused(c) \/ Dispatch(c) \/ DispatchFails(c) \/ MarkEnqueueFailed(c)
    <2>1. UNCHANGED <<runStatus, withdrawn>>
      BY <1>2 DEF CancelRq, CancelLoadRun, RetryLoadRun, CheckActiveJob, InsertRefused, Dispatch,
                  DispatchFails, MarkEnqueueFailed, runVars
    <2>2. QED
      BY <1>0, <1>2, <2>1, WithdrawnGoto, WithdrawnDone
      DEF CancelRq, CancelLoadRun, RetryLoadRun, CheckActiveJob, InsertRefused, Dispatch,
          DispatchFails, MarkEnqueueFailed, WorkingLabels
  <1>3. CASE \E j \in Jobs : InsertJob(c, j)
    <2>1. req[c].op # "retry"
      BY DEF WInv, OpsInv, OpFits
    <2>2. UNCHANGED <<runStatus, withdrawn>>
      BY <1>3, <2>1 DEF InsertJob
    <2>3. QED
      BY <1>0, <1>3, <2>2, WithdrawnGoto DEF InsertJob, WorkingLabels
  <1>4. QED
    BY <1>1, <1>2, <1>3, WithdrawnCancel DEF RequestStep

LEMMA WithdrawnProcess ==
    ASSUME WInv, NEW p \in Procs, ProcessStep(p)
    PROVE  WithdrawnInv'
  <1> DEFINE r == req[p].run
  <1>0. req[p] \in Sessions /\ UNCHANGED withdrawn
    BY DEF WInv, TypeInv, TypeOK, HandlersOK, ProcessStep, LoadRun, RefuseWithoutMl, BeginRun,
           PipelineFails, Forecast, Persist, PersistFails
  <1>1. \A seen : SawRun(req[p], seen).run = r
    BY <1>0, SawRunFields
  <1>2. CASE LoadRun(p)
    <2>1. UNCHANGED runStatus /\ (RunProcessable(runStatus[r]) => r \notin withdrawn)
      BY <1>2 DEF LoadRun, runVars, WInv, WithdrawnInv, RunProcessable
    <2>2. QED
      BY <1>0, <1>1, <1>2, <2>1, WithdrawnGoto, WithdrawnDone
      DEF LoadRun, Returns, WorkingLabels
  <1>3. CASE ~LoadRun(p)
    <2>1. Working(p) /\ r \notin withdrawn
      BY <1>3
      DEF ProcessStep, RefuseWithoutMl, BeginRun, PipelineFails, Forecast, Persist, PersistFails,
          Working, WInv, WithdrawnInv, CancelledRunNeverComputes
    <2>2. \A t \in withdrawn : runStatus'[t] = runStatus[t]
      BY <1>3, <2>1
      DEF ProcessStep, RefuseWithoutMl, BeginRun, PipelineFails, Forecast, Persist, PersistFails,
          WriteRun, runVars, WInv, TypeInv, TypeOK, RowsOK
    <2>3. CASE Persist(p)
      <3>1. ASSUME NEW q \in Procs, Working(q)' PROVE Working(q) /\ req'[q] = req[q]
        BY <1>0, <2>3, <3>1 DEF Persist, Working, WInv, TypeInv, TypeOK, HandlersOK
      <3>2. QED
        BY <1>0, <2>2, <3>1 DEF WInv, WithdrawnInv, CancelledRunNeverComputes
    <2>4. CASE BeginRun(p) \/ Forecast(p)
      BY <1>0, <1>1, <2>1, <2>2, <2>4, WithdrawnGoto DEF BeginRun, Forecast
    <2>5. CASE RefuseWithoutMl(p) \/ PipelineFails(p) \/ PersistFails(p)
      BY <1>0, <2>2, <2>5, WithdrawnGoto, WithdrawnDone
      DEF RefuseWithoutMl, PipelineFails, PersistFails, Returns, WorkingLabels
    <2>6. QED
      BY <1>3, <2>3, <2>4, <2>5 DEF ProcessStep
  <1>4. QED
    BY <1>2, <1>3

LEMMA WithdrawnTask ==
    ASSUME WInv, NEW w \in Workers,
           TaskStep(w) \/ WorkerFault(w) \/ \E j \in Jobs : Dequeue(w, j)
    PROVE  WithdrawnInv'
  <1>1. w \in Procs
    BY DEF Procs
  <1>2. UNCHANGED <<runStatus, withdrawn>>
    BY DEF TaskStep, LoadJob, StartJob, StartJobRefused, FinishJob, FailJob, JobError, RqSuccess,
           RqFailure, WorkerFault, WorkerDisconnected, WorkerLost, WorkerCrash, Dequeue, runVars
  <1>3. ASSUME NEW label, NEW s, label \notin WorkingLabels, Goto(w, label, s) PROVE WithdrawnInv'
    BY <1>1, <1>2, <1>3, WithdrawnGoto
  <1>4. CASE \/ LoadJob(w) \/ StartJob(w) \/ StartJobRefused(w) \/ FinishJob(w) \/ FailJob(w)
             \/ JobError(w)
    BY <1>3, <1>4
    DEF LoadJob, StartJob, StartJobRefused, FinishJob, FailJob, JobError, Leaves, WorkingLabels
  <1>5. CASE RqSuccess(w) \/ RqFailure(w) \/ WorkerFault(w)
    BY <1>3, <1>5
    DEF RqSuccess, RqFailure, WorkerFault, WorkerDisconnected, WorkerLost, WorkerCrash, Leaves,
        Done, WorkingLabels
  <1>6. CASE \E j \in Jobs : Dequeue(w, j)
    BY <1>3, <1>6 DEF Dequeue, WorkingLabels
  <1>7. QED
    BY <1>4, <1>5, <1>6 DEF TaskStep

LEMMA WithdrawnNext == "retry" \notin Ops /\ WInv /\ [Next]_vars => WInv'
  <1> SUFFICES ASSUME "retry" \notin Ops, WInv, [Next]_vars PROVE WithdrawnInv'
    BY NextType, OpsNext DEF WInv
  <1>1. CASE UNCHANGED <<runStatus, pc, req, withdrawn>>
    BY <1>1 DEF WInv, WithdrawnInv, CancelledRunNeverComputes, Working
  <1>2. ASSUME NEW r \in Runs, CreateRun(r) PROVE WithdrawnInv'
    BY <1>2 DEF CreateRun, WInv, WithdrawnInv, CancelledRunNeverComputes, Working, TypeInv, TypeOK,
                RowsOK
  <1>3. ASSUME NEW c \in Clients, RequestBegins(c) \/ RequestAborted(c) PROVE WithdrawnInv'
    <2>1. c \in Procs /\ UNCHANGED <<runStatus, withdrawn>>
      BY <1>3 DEF Procs, RequestBegins, EnqueueLoad, CancelRunLoad, ProcessBegin, GetJobLoad,
                  RequestAborted, runVars
    <2>2. QED
      BY <1>3, <2>1, WithdrawnGoto, WithdrawnDone
      DEF RequestBegins, EnqueueLoad, CancelRunLoad, ProcessBegin, GetJobLoad, Resume,
          RequestAborted, WorkingLabels
  <1>4. QED
    BY <1>1, <1>2, <1>3, WithdrawnRequest, WithdrawnProcess, WithdrawnTask
    DEF Next, RqCleanup, RqExpire, vars, runVars

\* Where jobs cannot be retried by hand, a run cancelled before anybody worked
\* on it is never computed, whatever is delivered, lost or reconciled.
THEOREM CancelledStaysCancelled ==
    "retry" \notin Ops => (Spec => []CancelledRunNeverComputes)
  <1> SUFFICES ASSUME "retry" \notin Ops PROVE Spec => []CancelledRunNeverComputes
    OBVIOUS
  <1>1. Init => WInv
    <2>1. Init => WithdrawnInv
      BY DEF Init, WithdrawnInv, CancelledRunNeverComputes
    <2>2. QED
      BY <2>1, InitType, OpsInit DEF WInv
  <1>2. WInv /\ [Next]_vars => WInv'
    BY WithdrawnNext
  <1>3. WInv => CancelledRunNeverComputes
    BY DEF WInv, WithdrawnInv
  <1>4. QED
    BY <1>1, <1>2, <1>3, PTL DEF Spec

-----------------------------------------------------------------------------
(* The documented flow: one processor per run                              *)

\* docs/swagger.md: create a run, enqueue it, poll its job; and Redis never
\* reports a failure for a job that it accepted.
DocumentedFlow == Ops \subseteq {"create", "enqueue", "get"} /\ "redis" \notin Faults

\* Where a task is once its job is marked started and not settled again
StartedLabels == ProcessLabels \cup {"finish_job", "fail_job", "fail_job_expired", "job_error"}

\* RQ is done with a job: nobody holds it or will be handed it.
Settled(j) ==
    /\ rq[j] \in {"finished", "failed", "absent"}
    /\ \A c \in Clients : pc[c] = "dispatch" => req[c].job # j

\* The row of a job says "started" while a worker computes it, and what a
\* reconciliation is about to write over it is no less.
FlowInv ==
    /\ \A j \in Jobs : rq[j] # "canceled"
    /\ \A c \in Clients : pc[c] = "reconcile_write" =>
          req[c].rqSeen = "started" \/ Settled(req[c].job)
    /\ \A w \in Workers : pc[w] = "start_job" =>
          jobStatus[req[w].job] \in {req[w].jobSeen, "started"}
    /\ \A w \in Workers : pc[w] \in StartedLabels => jobStatus[req[w].job] = "started"

FInv == DInv /\ OpsInv /\ OneActiveJobPerRun /\ FlowInv

\* Requests of the documented flow know few steps.
LEMMA FlowLabels ==
    ASSUME DocumentedFlow, FInv
    PROVE  /\ \A c \in Clients :
                  pc[c] \in {"idle", "check", "create", "dispatch", "reconcile", "reconcile_write"}
           /\ \A c \in Clients, s \in Sessions :
                  s.op = req[c].op => ~CancelGoesOn(s) /\ ~RetryGoesOn(s)
           /\ \A c \in Clients : req[c].op # "retry"
  <1>1. ASSUME NEW c \in Clients
        PROVE  /\ req[c].op \in {"create", "enqueue", "get", "none"}
               /\ pc[c] \in {"idle", "check", "create", "dispatch", "reconcile", "reconcile_write"}
    <2>1. OpFits(pc[c], req[c]) /\ pc[c] \in Labels /\ SessionFits(c, pc[c], req[c]) /\ c \notin Workers
      BY ParametersAssumption DEF FInv, DInv, OpsInv, TypeInv, TypeOK, HandlersOK, Procs
    <2>2. req[c].op \in {"create", "enqueue", "get", "none"}
      BY <2>1 DEF OpFits, DocumentedFlow
    <2>3. pc[c] \notin TaskLabels
      BY <2>1 DEF SessionFits
    <2>4. QED
      BY <2>1, <2>2, <2>3 DEF OpFits, DocumentedFlow, Labels, RequestLabels
  <1>2. QED
    BY <1>1 DEF CancelGoesOn, RetryGoesOn

\* What a request of the flow may do to jobs and queue, and where it goes.
LEMMA FlowRequest ==
    ASSUME DocumentedFlow, FInv, NEW c \in Clients, RequestStep(c)
    PROVE  \/ ReconcileRead(c) \/ ReconcileWrite(c) \/ CheckActiveJob(c)
           \/ (\E j \in Jobs : InsertJob(c, j)) \/ InsertRefused(c) \/ Dispatch(c)
  <1>1. pc[c] \in {"idle", "check", "create", "dispatch", "reconcile", "reconcile_write"}
    BY FlowLabels
  <1>2. QED
    BY <1>1
    DEF RequestStep, CancelRunWrite, CancelRq, CancelLoadRun, CancelWrite, RetryLoadRun,
        DispatchFails, MarkEnqueueFailed, DocumentedFlow

\* Only workers process runs.
LEMMA FlowProcess ==
    ASSUME DocumentedFlow, FInv, NEW p \in Procs, ProcessStep(p)
    PROVE  p \in Workers
  <1>1. pc[p] \in ProcessLabels
    BY DEF ProcessStep, LoadRun, RefuseWithoutMl, BeginRun, PipelineFails, Forecast, Persist,
           PersistFails, ProcessLabels
  <1>2. QED
    BY <1>1, FlowLabels DEF Procs, ProcessLabels

\* The jobs of handlers
LEMMA FlowJobs ==
    ASSUME FInv
    PROVE  /\ \A w \in Workers : pc[w] # "idle" =>
                  req[w].job \in Jobs /\ jobStatus[req[w].job] # "none" /\ rq[req[w].job] = "started"
           /\ \A c \in Clients : pc[c] \in {"dispatch", "reconcile", "reconcile_write"} =>
                  req[c].job \in Jobs /\ jobStatus[req[c].job] # "none"
           /\ \A c \in Clients : pc[c] = "dispatch" => rq[req[c].job] = "absent"
  <1>1. ASSUME NEW w \in Workers, pc[w] # "idle"
        PROVE  req[w].job \in Jobs /\ jobStatus[req[w].job] # "none" /\ rq[req[w].job] = "started"
    BY <1>1, ParametersAssumption
    DEF FInv, DInv, DeliveryInv, FlowInv, TypeInv, TypeOK, HandlersOK, SessionFits,
        RowPrecedesDelivery, OwnRow, Procs
  <1>2. ASSUME NEW c \in Clients, pc[c] \in {"dispatch", "reconcile", "reconcile_write"}
        PROVE  req[c].job \in Jobs /\ jobStatus[req[c].job] # "none"
    BY <1>2, ParametersAssumption
    DEF FInv, DInv, TypeInv, TypeOK, HandlersOK, SessionFits, RowPrecedesDelivery, OwnRow, Procs,
        JobRequestLabels
  <1>3. QED
    BY <1>1, <1>2 DEF FInv, DInv, DeliveryInv

\* Where a step takes the one handler that takes it; Persist is the exception.
LEMMA OthersStay ==
    ASSUME FInv, NEW p \in Procs, NEW label, NEW s, Goto(p, label, s)
    PROVE  /\ pc'[p] = label /\ req'[p] = s
           /\ \A q \in Procs \ {p} : pc'[q] = pc[q] /\ req'[q] = req[q]
  BY DEF Goto, FInv, DInv, TypeInv, TypeOK, HandlersOK

\* What RQ is done with stays so.
LEMMA SettledStays ==
    ASSUME DocumentedFlow, FInv, [Next]_vars, NEW j \in Jobs, Settled(j), jobStatus[j] # "none"
    PROVE  Settled(j)'
  <1>0. /\ Clients \subseteq Procs /\ Workers \subseteq Procs
        /\ \A w \in Workers : pc[w] # "idle" => req[w].job # j
        /\ rq \in [Jobs -> RqStatuses]
    BY FlowJobs DEF Procs, Settled, FInv, DInv, TypeInv, TypeOK, QueueOK
  <1>1. ASSUME rq'[j] = rq[j],
               \A c \in Clients : pc'[c] = "dispatch" =>
                   (pc[c] = "dispatch" /\ req'[c].job = req[c].job) \/ req'[c].job # j
        PROVE  Settled(j)'
    BY <1>1 DEF Settled
  <1>2. ASSUME NEW p \in Procs, NEW label, NEW s, Goto(p, label, s), rq'[j] = rq[j],
               label = "dispatch" => s.job # j
        PROVE  Settled(j)'
    <2>1. /\ pc'[p] = label /\ req'[p] = s
          /\ \A c \in Clients : c = p \/ (pc'[c] = pc[c] /\ req'[c] = req[c])
      BY <1>0, <1>2, OthersStay
    <2>2. QED
      BY <1>1, <1>2, <2>1
  <1>3. ASSUME NEW p \in Procs, Done(p), rq'[j] = rq[j] PROVE Settled(j)'
    BY <1>2, <1>3 DEF Done
  <1>4. ASSUME NEW c \in Clients, RequestBegins(c) \/ RequestAborted(c) PROVE Settled(j)'
    <2>1. rq' = rq
      BY <1>4 DEF RequestBegins, EnqueueLoad, CancelRunLoad, ProcessBegin, GetJobLoad,
                  RequestAborted, rqVars
    <2>2. QED
      BY <1>0, <1>2, <1>3, <1>4, <2>1
      DEF RequestBegins, EnqueueLoad, CancelRunLoad, ProcessBegin, GetJobLoad, Resume, RequestAborted
  <1>5. ASSUME NEW c \in Clients, RequestStep(c) PROVE Settled(j)'
    <2>1. CASE ReconcileRead(c) \/ ReconcileWrite(c) \/ CheckActiveJob(c) \/ InsertRefused(c)
      <3>1. rq' = rq
        BY <2>1 DEF ReconcileRead, ReconcileWrite, CheckActiveJob, InsertRefused, rqVars
      <3>2. QED
        BY <1>0, <1>2, <1>3, <2>1, <3>1
        DEF ReconcileRead, ReconcileWrite, CheckActiveJob, InsertRefused, Resume
    <2>2. ASSUME NEW k \in Jobs, InsertJob(c, k) PROVE Settled(j)'
      BY <1>0, <1>2, <2>2, JobSessionFields DEF InsertJob, rqVars
    <2>3. CASE Dispatch(c)
      <3>1. req[c].job # j
        BY <2>3 DEF Dispatch, Settled
      <3>2. rq'[j] = rq[j]
        BY <1>0, <2>3, <3>1 DEF Dispatch, EnqueueInRq
      <3>3. QED
        BY <1>0, <1>3, <2>3, <3>2 DEF Dispatch
    <2>4. QED
      BY <1>5, <2>1, <2>2, <2>3, FlowRequest
  <1>6. ASSUME NEW p \in Procs, ProcessStep(p) PROVE Settled(j)'
    <2>1. rq' = rq
      BY <1>6 DEF ProcessStep, LoadRun, RefuseWithoutMl, BeginRun, PipelineFails, Forecast, Persist,
                  PersistFails, rqVars
    <2>2. CASE Persist(p)
      BY <1>0, <1>1, <2>1, <2>2 DEF Persist, FInv, DInv, TypeInv, TypeOK, HandlersOK
    <2>3. CASE ~Persist(p)
      <3>1. p \in Workers
        BY <1>6, FlowProcess
      <3>2. \E label, s : Goto(p, label, s) /\ label # "dispatch"
        BY <1>6, <2>3, <3>1, ParametersAssumption
        DEF ProcessStep, LoadRun, RefuseWithoutMl, BeginRun, PipelineFails, Forecast, PersistFails,
            Returns
      <3>3. QED
        BY <1>2, <2>1, <3>2
    <2>4. QED
      BY <2>2, <2>3
  <1>7. ASSUME NEW w \in Workers, TaskStep(w) \/ WorkerFault(w) \/ \E k \in Jobs : Dequeue(w, k)
        PROVE  Settled(j)'
    <2>1. \E label, s : Goto(w, label, s) /\ label # "dispatch"
      BY <1>7
      DEF TaskStep, LoadJob, StartJob, StartJobRefused, FinishJob, FailJob, JobError, RqSuccess,
          RqFailure, WorkerFault, WorkerDisconnected, WorkerLost, WorkerCrash, Leaves, Done, Dequeue
    <2>2. pc[w] # "idle" => req[w].job # j
      BY <1>0
    <2>3. rq'[j] = rq[j]
      BY <1>0, <1>7, <2>2
      DEF TaskStep, LoadJob, StartJob, StartJobRefused, FinishJob, FailJob, JobError, RqSuccess,
          RqFailure, RqRetry, WorkerFault, WorkerDisconnected, WorkerLost, WorkerCrash, Dequeue,
          Settled, rqVars
    <2>4. QED
      BY <1>0, <1>2, <2>1, <2>3
  <1>8. ASSUME NEW k \in Jobs, RqCleanup(k) \/ RqExpire(k) PROVE Settled(j)'
    BY <1>0, <1>8 DEF RqCleanup, RqExpire, RqRetry, Settled
  <1>9. CASE UNCHANGED <<rq, pc, req>>
    BY <1>1, <1>9
  <1>10. QED
    BY <1>4, <1>5, <1>6, <1>7, <1>8, <1>9 DEF Next, CreateRun, vars, rqVars

\* Nobody but its worker writes anything but "started" over the row of a job
\* that is held.
LEMMA HeldRow ==
    ASSUME DocumentedFlow, FInv, [Next]_vars, NEW w \in Workers, pc[w] # "idle",
           ~FinishJob(w), ~FailJob(w), ~JobError(w)
    PROVE  jobStatus'[req[w].job] \in {jobStatus[req[w].job], "started"}
  <1> DEFINE j == req[w].job
  <1>0. /\ j \in Jobs /\ jobStatus[j] # "none" /\ rq[j] = "started"
        /\ jobStatus \in [Jobs -> JobStatuses \cup {"none"}]
    BY FlowJobs DEF FInv, DInv, TypeInv, TypeOK, RowsOK
  <1>1. ASSUME NEW v \in Workers \ {w}, pc[v] # "idle" PROVE req[v].job # j
    BY <1>1 DEF FInv, DInv, DeliveryInv, OneWorkerPerJob
  <1> HIDE DEF j
  <1>2. ASSUME NEW c \in Clients, RequestStep(c) PROVE jobStatus'[j] \in {jobStatus[j], "started"}
    <2>1. CASE ReconcileWrite(c)
      <3>1. req[c].job = j => req[c].rqSeen = "started"
        BY <1>0, <2>1 DEF ReconcileWrite, FInv, FlowInv, Settled
      <3>2. QED
        BY <1>0, <2>1, <3>1 DEF ReconcileWrite, WriteJob
    <2>2. ASSUME NEW k \in Jobs, InsertJob(c, k) PROVE jobStatus'[j] = jobStatus[j]
      BY <1>0, <2>2 DEF InsertJob
    <2>3. QED
      BY <1>2, <2>1, <2>2, FlowRequest
      DEF ReconcileRead, CheckActiveJob, InsertRefused, Dispatch, jobVars
  <1>3. ASSUME NEW v \in Workers, TaskStep(v) PROVE jobStatus'[j] \in {jobStatus[j], "started"}
    <2>1. CASE StartJob(v)
      BY <1>0, <2>1 DEF StartJob, WriteJob
    <2>2. CASE FinishJob(v) \/ FailJob(v) \/ JobError(v)
      <3>1. v # w /\ req[v].job # j
        BY <1>1, <2>2 DEF FinishJob, FailJob, JobError
      <3>2. QED
        BY <1>0, <2>2, <3>1 DEF FinishJob, FailJob, JobError, WriteJob
    <2>3. QED
      BY <1>3, <2>1, <2>2 DEF TaskStep, LoadJob, StartJobRefused, RqSuccess, RqFailure, jobVars
  <1>4. QED
    BY <1>2, <1>3
    DEF j, Next, CreateRun, RequestBegins, EnqueueLoad, CancelRunLoad, ProcessBegin, GetJobLoad,
        RequestAborted, ProcessStep, LoadRun, RefuseWithoutMl, BeginRun, PipelineFails, Forecast,
        Persist, PersistFails, Dequeue, WorkerFault, WorkerDisconnected, WorkerLost, WorkerCrash,
        RqCleanup, RqExpire, vars, jobVars

\* A worker comes to a step of the computation only through LoadJob and StartJob.
LEMMA WorkerMoves ==
    ASSUME DocumentedFlow, FInv, [Next]_vars, NEW w \in Workers
    PROVE  /\ pc'[w] = "start_job" =>
                 \/ pc[w] = "start_job" /\ req'[w] = req[w]
                 \/ /\ LoadJob(w)
                    /\ req'[w].job = req[w].job /\ req'[w].jobSeen = jobStatus[req[w].job]
           /\ pc'[w] \in StartedLabels =>
                 /\ pc[w] \in StartedLabels \/ StartJob(w)
                 /\ req'[w].job = req[w].job
           /\ pc'[w] \in StartedLabels \cup {"start_job"} =>
                 ~FinishJob(w) /\ ~FailJob(w) /\ ~JobError(w)
  <1> DEFINE Kept == pc'[w] = pc[w] /\ req'[w] = req[w]
             Moves ==
               /\ pc'[w] = "start_job" =>
                     \/ pc[w] = "start_job" /\ req'[w] = req[w]
                     \/ /\ LoadJob(w)
                        /\ req'[w].job = req[w].job /\ req'[w].jobSeen = jobStatus[req[w].job]
               /\ pc'[w] \in StartedLabels =>
                     /\ pc[w] \in StartedLabels \/ StartJob(w)
                     /\ req'[w].job = req[w].job
  <1>0. w \in Procs /\ w \notin Clients /\ req[w] \in Sessions /\ Clients \subseteq Procs
    BY ParametersAssumption DEF Procs, FInv, DInv, TypeInv, TypeOK, HandlersOK
  <1>1. ASSUME FinishJob(w) \/ FailJob(w) \/ JobError(w)
        PROVE  pc'[w] \notin StartedLabels \cup {"start_job"}
    BY <1>0, <1>1, OthersStay
    DEF FinishJob, FailJob, JobError, Leaves, StartedLabels, ProcessLabels
  <1>2. ASSUME Kept PROVE Moves
    BY <1>2
  <1>3. ASSUME NEW c \in Clients, RequestBegins(c) \/ RequestAborted(c) PROVE Kept
    <2>1. \E label, s : Goto(c, label, s)
      BY <1>3
      DEF RequestBegins, EnqueueLoad, CancelRunLoad, ProcessBegin, GetJobLoad, Resume,
          RequestAborted, Done
    <2>2. QED
      BY <1>0, <2>1, OthersStay
  <1>4. ASSUME NEW c \in Clients, RequestStep(c) PROVE Kept
    <2>1. \E label, s : Goto(c, label, s)
      BY <1>4, FlowRequest
      DEF ReconcileRead, ReconcileWrite, CheckActiveJob, InsertJob, InsertRefused, Dispatch, Resume,
          Done
    <2>2. QED
      BY <1>0, <2>1, OthersStay
  <1>5. ASSUME NEW p \in Procs, ProcessStep(p) PROVE Moves
    <2>0. p \in Workers /\ p \notin Clients /\ req[p] \in Sessions
      BY <1>5, FlowProcess, ParametersAssumption DEF FInv, DInv, TypeInv, TypeOK, HandlersOK
    <2>1. CASE Persist(p)
      <3>1. CASE w = p
        <4>1. pc'[w] = "finish_job" /\ req'[w] = SawRun(req[w], "none") /\ pc[w] = "persist"
          BY <2>0, <2>1, <3>1 DEF Persist, FInv, DInv, TypeInv, TypeOK, HandlersOK
        <4>2. QED
          BY <1>0, <4>1, SawRunFields DEF StartedLabels, ProcessLabels
      <3>2. CASE w # p
        <4>1. /\ req'[w] = req[w]
              /\ pc'[w] = pc[w] \/ (pc[w] = "persist" /\ pc'[w] = "persist_conflict")
          BY <1>0, <2>1, <3>2 DEF Persist, FInv, DInv, TypeInv, TypeOK, HandlersOK
        <4>2. QED
          BY <4>1 DEF StartedLabels, ProcessLabels
      <3>3. QED
        BY <3>1, <3>2
    <2>2. CASE ~Persist(p)
      <3>1. /\ pc[p] \in ProcessLabels
            /\ \E label, s : Goto(p, label, s) /\ label # "start_job" /\ s.job = req[p].job
        BY <1>5, <2>0, <2>2, SawRunFields
        DEF ProcessStep, LoadRun, RefuseWithoutMl, BeginRun, PipelineFails, Forecast, PersistFails,
            Returns, ProcessLabels
      <3>2. QED
        BY <1>0, <1>2, <3>1, OthersStay DEF StartedLabels
    <2>3. QED
      BY <2>1, <2>2
  <1>6. ASSUME NEW v \in Workers, TaskStep(v) \/ WorkerFault(v) \/ \E j \in Jobs : Dequeue(v, j)
        PROVE  Moves
    <2>1. CASE v # w
      <3>1. \E label, s : Goto(v, label, s)
        BY <1>6
        DEF TaskStep, LoadJob, StartJob, StartJobRefused, FinishJob, FailJob, JobError, RqSuccess,
            RqFailure, WorkerFault, WorkerDisconnected, WorkerLost, WorkerCrash, Leaves, Done, Dequeue
      <3>2. QED
        BY <1>0, <1>2, <2>1, <3>1, OthersStay DEF Procs
    <2>2. CASE LoadJob(w)
      BY <1>0, <2>2, OthersStay, SawJobFields DEF LoadJob, Leaves, StartedLabels, ProcessLabels
    <2>3. CASE StartJob(w)
      BY <1>0, <2>3, OthersStay, SawJobFields DEF StartJob
    <2>4. CASE WorkerDisconnected(w)
      BY <1>0, <2>4, OthersStay DEF WorkerDisconnected, StartedLabels, ProcessLabels
    <2>5. CASE \/ StartJobRefused(w) \/ FinishJob(w) \/ FailJob(w) \/ JobError(w) \/ RqSuccess(w)
               \/ RqFailure(w) \/ WorkerLost(w) \/ WorkerCrash(w) \/ \E j \in Jobs : Dequeue(w, j)
      <3>1. \E label, s : Goto(w, label, s) /\ label \in {"return", "raise", "idle", "load_job"}
        BY <2>5
        DEF StartJobRefused, FinishJob, FailJob, JobError, RqSuccess, RqFailure, WorkerLost,
            WorkerCrash, Leaves, Done, Dequeue
      <3>2. QED
        BY <1>0, <3>1, OthersStay DEF StartedLabels, ProcessLabels
    <2>6. QED
      BY <1>6, <2>1, <2>2, <2>3, <2>4, <2>5 DEF TaskStep, WorkerFault
  <1>7. ASSUME UNCHANGED <<pc, req>> PROVE Moves
    BY <1>2, <1>7
  <1>8. Moves
    BY <1>2, <1>3, <1>4, <1>5, <1>6, <1>7 DEF Next, CreateRun, RqCleanup, RqExpire, vars
  <1>9. QED
    BY <1>1, <1>8

\* A request comes to write a reconciliation only through ReconcileRead.
LEMMA ReconcileMoves ==
    ASSUME DocumentedFlow, FInv, [Next]_vars, NEW c \in Clients, pc'[c] = "reconcile_write"
    PROVE  (pc[c] = "reconcile_write" /\ req'[c] = req[c]) \/ ReconcileRead(c)
  <1> DEFINE Kept == pc'[c] = pc[c] /\ req'[c] = req[c]
  <1>0. c \in Procs /\ c \notin Workers /\ Workers \subseteq Procs /\ Clients \subseteq Procs
    BY ParametersAssumption DEF Procs
  <1>1. ASSUME NEW p \in Procs, NEW label, NEW s, Goto(p, label, s), label # "reconcile_write"
        PROVE  Kept
    BY <1>0, <1>1, OthersStay
  <1>2. ASSUME NEW p \in Procs, Done(p) PROVE Kept
    BY <1>1, <1>2 DEF Done
  <1>3. ASSUME NEW p \in Procs, NEW s, Resume(p, s) PROVE Kept
    BY <1>1, <1>2, <1>3 DEF Resume
  <1>4. ASSUME NEW d \in Clients, RequestBegins(d) \/ RequestAborted(d) PROVE Kept
    BY <1>0, <1>1, <1>2, <1>3, <1>4
    DEF RequestBegins, EnqueueLoad, CancelRunLoad, ProcessBegin, GetJobLoad, RequestAborted
  <1>5. ASSUME NEW d \in Clients, RequestStep(d) PROVE Kept \/ ReconcileRead(c)
    <2>1. CASE d = c
      BY <1>0, <1>1, <1>2, <1>3, <1>5, <2>1, FlowRequest
      DEF ReconcileWrite, CheckActiveJob, InsertJob, InsertRefused, Dispatch
    <2>2. CASE d # c
      <3>1. \E label, s : Goto(d, label, s)
        BY <1>5, FlowRequest
        DEF ReconcileRead, ReconcileWrite, CheckActiveJob, InsertJob, InsertRefused, Dispatch, Resume,
            Done
      <3>2. QED
        BY <1>0, <2>2, <3>1, OthersStay
    <2>3. QED
      BY <2>1, <2>2
  <1>6. ASSUME NEW p \in Procs, ProcessStep(p) PROVE Kept
    <2>1. p \in Workers /\ p \notin Clients
      BY <1>6, FlowProcess, ParametersAssumption
    <2>2. CASE Persist(p)
      BY <1>0, <2>1, <2>2 DEF Persist, FInv, DInv, TypeInv, TypeOK, HandlersOK
    <2>3. CASE ~Persist(p)
      BY <1>1, <1>6, <2>1, <2>3
      DEF ProcessStep, LoadRun, RefuseWithoutMl, BeginRun, PipelineFails, Forecast, PersistFails,
          Returns
    <2>4. QED
      BY <2>2, <2>3
  <1>7. ASSUME NEW w \in Workers, TaskStep(w) \/ WorkerFault(w) \/ \E j \in Jobs : Dequeue(w, j)
        PROVE  Kept
    <2>1. \E label, s : Goto(w, label, s) /\ label # "reconcile_write"
      BY <1>7
      DEF TaskStep, LoadJob, StartJob, StartJobRefused, FinishJob, FailJob, JobError, RqSuccess,
          RqFailure, WorkerFault, WorkerDisconnected, WorkerLost, WorkerCrash, Leaves, Done, Dequeue
    <2>2. QED
      BY <1>0, <1>1, <2>1
  <1>8. ASSUME UNCHANGED <<pc, req>> PROVE Kept
    BY <1>8
  <1>9. Kept \/ ReconcileRead(c)
    BY <1>4, <1>5, <1>6, <1>7, <1>8 DEF Next, CreateRun, RqCleanup, RqExpire, vars
  <1>10. QED
    BY <1>9

LEMMA FlowNext == DocumentedFlow /\ FInv /\ [Next]_vars => FInv'
  <1> SUFFICES ASSUME DocumentedFlow, FInv, [Next]_vars PROVE FlowInv'
    BY DeliveryNext, OpsNext, OneActiveNext DEF FInv, DInv
  <1>1. ASSUME NEW j \in Jobs PROVE rq'[j] # "canceled"
    <2>1. rq[j] # "canceled" /\ rq \in [Jobs -> RqStatuses]
      BY DEF FInv, FlowInv, DInv, TypeInv, TypeOK, QueueOK
    <2>2. ASSUME NEW c \in Clients, RequestStep(c) PROVE rq'[j] # "canceled"
      BY <2>1, <2>2, FlowRequest
      DEF ReconcileRead, ReconcileWrite, CheckActiveJob, InsertJob, InsertRefused, Dispatch,
          EnqueueInRq, rqVars
    <2>3. ASSUME NEW w \in Workers, TaskStep(w) PROVE rq'[j] # "canceled"
      BY <2>1, <2>3
      DEF TaskStep, LoadJob, StartJob, StartJobRefused, FinishJob, FailJob, JobError, RqSuccess,
          RqFailure, RqRetry, rqVars
    <2>4. ASSUME NEW w \in Workers, NEW k \in Jobs, Dequeue(w, k) \/ RqCleanup(k) \/ RqExpire(k)
          PROVE  rq'[j] # "canceled"
      BY <2>1, <2>4 DEF Dequeue, RqCleanup, RqExpire, RqRetry
    <2>5. ASSUME NEW k \in Jobs, RqCleanup(k) \/ RqExpire(k) PROVE rq'[j] # "canceled"
      BY <2>1, <2>5 DEF RqCleanup, RqExpire, RqRetry
    <2>6. QED
      BY <2>1, <2>2, <2>3, <2>4, <2>5
      DEF Next, CreateRun, RequestBegins, EnqueueLoad, CancelRunLoad, ProcessBegin, GetJobLoad,
          RequestAborted, ProcessStep, LoadRun, RefuseWithoutMl, BeginRun, PipelineFails, Forecast,
          Persist, PersistFails, WorkerFault, WorkerDisconnected, WorkerLost, WorkerCrash, vars,
          rqVars
  <1>2. ASSUME NEW c \in Clients, pc'[c] = "reconcile_write"
        PROVE  (req[c].rqSeen = "started" \/ Settled(req[c].job))'
    <2>1. CASE pc[c] = "reconcile_write" /\ req'[c] = req[c]
      <3>1. PICK j \in Jobs : j = req[c].job /\ jobStatus[j] # "none"
        BY <2>1, FlowJobs
      <3>2. req[c].rqSeen = "started" \/ Settled(j)
        BY <2>1, <3>1 DEF FInv, FlowInv
      <3>3. req[c].rqSeen = "started" \/ Settled(j)'
        BY <3>1, <3>2, SettledStays
      <3>4. QED
        BY <2>1, <3>1, <3>3 DEF Settled
    <2>2. CASE ReconcileRead(c)
      <3>0. req[c] \in Sessions /\ c \in Procs
        BY DEF FInv, DInv, TypeInv, TypeOK, HandlersOK, Procs
      <3>1. PICK j \in Jobs : j = req[c].job /\ jobStatus[j] # "none" /\ rq[j] # "canceled"
        BY <2>2, FlowJobs DEF ReconcileRead, FInv, FlowInv
      <3>2. PICK mapped : /\ mapped = MapRqStatus(rq[j]) /\ mapped \notin {"none", "queued"}
                          /\ req'[c] = SawRq(req[c], mapped)
        <4>1. \A s : Resume(c, s) => pc'[c] # "reconcile_write"
          BY <3>0, OthersStay DEF Resume, Done
        <4>2. QED
          BY <1>2, <2>2, <3>0, <3>1, <4>1, OthersStay DEF ReconcileRead
      <3>3. req'[c].rqSeen = mapped /\ req'[c].job = j
        BY <3>0, <3>1, <3>2, SawRqFields
      <3>4. mapped = "started" \/ rq[j] \in {"finished", "failed"}
        BY <3>1, <3>2 DEF MapRqStatus
      <3>5. mapped = "started" \/ Settled(j)
        BY <3>1, <3>4, FlowJobs DEF Settled
      <3>6. mapped = "started" \/ Settled(j)'
        BY <3>1, <3>5, SettledStays
      <3>7. QED
        BY <3>3, <3>6 DEF Settled
    <2>3. QED
      BY <1>2, <2>1, <2>2, ReconcileMoves
  <1>3. ASSUME NEW w \in Workers, pc'[w] = "start_job"
        PROVE  (jobStatus[req[w].job] \in {req[w].jobSeen, "started"})'
    <2>1. ~FinishJob(w) /\ ~FailJob(w) /\ ~JobError(w)
      BY <1>3, WorkerMoves
    <2>2. CASE pc[w] = "start_job" /\ req'[w] = req[w]
      <3>1. jobStatus[req[w].job] \in {req[w].jobSeen, "started"}
        BY <2>2 DEF FInv, FlowInv
      <3>2. jobStatus'[req[w].job] \in {jobStatus[req[w].job], "started"}
        BY <2>1, <2>2, HeldRow
      <3>3. QED
        BY <2>2, <3>1, <3>2
    <2>3. CASE /\ LoadJob(w)
               /\ req'[w].job = req[w].job /\ req'[w].jobSeen = jobStatus[req[w].job]
      BY <2>3 DEF LoadJob, jobVars
    <2>4. QED
      BY <1>3, <2>2, <2>3, WorkerMoves
  <1>4. ASSUME NEW w \in Workers, pc'[w] \in StartedLabels
        PROVE  (jobStatus[req[w].job] = "started")'
    <2>1. /\ req'[w].job = req[w].job
          /\ pc[w] \in StartedLabels \/ StartJob(w)
          /\ ~FinishJob(w) /\ ~FailJob(w) /\ ~JobError(w)
      BY <1>4, WorkerMoves
    <2>2. CASE pc[w] \in StartedLabels
      <3>1. pc[w] # "idle" /\ jobStatus[req[w].job] = "started"
        BY <2>2 DEF FInv, FlowInv, StartedLabels, ProcessLabels
      <3>2. QED
        BY <2>1, <3>1, HeldRow
    <2>3. CASE StartJob(w)
      <3>1. /\ pc[w] = "start_job" /\ jobStatus[req[w].job] \in {req[w].jobSeen, "started"}
            /\ req[w].job \in Jobs /\ jobStatus \in [Jobs -> JobStatuses \cup {"none"}]
        BY <2>3, FlowJobs DEF StartJob, FInv, FlowInv, DInv, TypeInv, TypeOK, RowsOK
      <3>2. QED
        BY <2>1, <2>3, <3>1 DEF StartJob, WriteJob
    <2>4. QED
      BY <2>1, <2>2, <2>3
  <1>5. QED
    BY <1>1, <1>2, <1>3, <1>4 DEF FlowInv

LEMMA FlowInit == Init => FInv
  <1>1. Init => DInv
    BY InitType, DeliveryInit DEF DInv
  <1>2. Init => FlowInv
    BY DEF Init, FlowInv, StartedLabels, ProcessLabels, Procs
  <1>3. QED
    BY <1>1, <1>2, OpsInit, OneActiveInit DEF FInv

\* Two computations of one run would be of two jobs that are both started.
LEMMA FlowComputesOnce ==
    ASSUME DocumentedFlow, FInv
    PROVE  /\ OneProcessorPerRun
           /\ \A p \in Procs : Working(p) => p \in Workers /\ req[p].run \in Runs
  <1>1. ASSUME NEW p \in Procs, Working(p)
        PROVE  /\ p \in Workers /\ pc[p] # "idle" /\ req[p].run \in Runs
               /\ req[p].job \in Jobs /\ jobRun[req[p].job] = req[p].run
               /\ jobStatus[req[p].job] = "started"
    <2>1. pc[p] \in StartedLabels /\ pc[p] \in ProcessLabels
      BY <1>1 DEF Working, StartedLabels, ProcessLabels
    <2>2. p \in Workers
      BY <2>1, FlowLabels DEF Procs, ProcessLabels
    <2>3. req[p].run \in Runs /\ OwnRow(req[p])
      BY <2>1 DEF ProcessLabels, FInv, DInv, TypeInv, TypeOK, HandlersOK, SessionFits,
                  RowPrecedesDelivery
    <2>4. pc[p] # "idle" /\ req[p].job \in Jobs
      BY <2>1, <2>2, FlowJobs DEF ProcessLabels
    <2>5. jobRun[req[p].job] = req[p].run
      BY <2>3, <2>4, ParametersAssumption DEF OwnRow
    <2>6. QED
      BY <2>1, <2>2, <2>3, <2>4, <2>5 DEF FInv, FlowInv
  <1>2. ASSUME NEW p \in Procs, NEW q \in Procs, Working(p), Working(q), req[p].run = req[q].run
        PROVE  p = q
    <2>1. jobRun[req[p].job] # None
      BY <1>1, <1>2, ParametersAssumption
    <2>2. req[p].job = req[q].job
      BY <1>1, <1>2, <2>1 DEF FInv, OneActiveJobPerRun, ActiveJobStatuses
    <2>3. QED
      BY <1>1, <1>2, <2>2 DEF FInv, DInv, DeliveryInv, OneWorkerPerJob
  <1>3. QED
    BY <1>1, <1>2 DEF OneProcessorPerRun

\* In the documented flow no run is computed twice at once, through retries,
\* crashes, lost connections and stale reconciliations.
THEOREM ComputedOnce == DocumentedFlow => (Spec => []OneProcessorPerRun)
  <1> SUFFICES ASSUME DocumentedFlow PROVE Spec => []OneProcessorPerRun
    OBVIOUS
  <1>1. Init => FInv
    BY FlowInit
  <1>2. FInv /\ [Next]_vars => FInv'
    BY FlowNext
  <1>3. FInv => OneProcessorPerRun
    BY FlowComputesOnce
  <1>4. QED
    BY <1>1, <1>2, <1>3, PTL DEF Spec

-----------------------------------------------------------------------------
(* The documented flow implements the lifecycle of a run                   *)

\* What a worker read of its run is what the run still is.
SeenInv ==
    \A w \in Workers :
        /\ pc[w] = "begin" =>
              RunProcessable(req[w].runSeen) /\ runStatus[req[w].run] = req[w].runSeen
        /\ pc[w] \in {"forecast", "persist"} =>
              req[w].runSeen = "running" /\ runStatus[req[w].run] = "running"
        /\ pc[w] # "persist_conflict"

\* Others neither move a worker nor write the run it computes.
LEMMA SeenStays ==
    ASSUME DocumentedFlow, FInv, SeenInv, NEW w \in Workers, pc'[w] = pc[w], req'[w] = req[w],
           Working(w) => runStatus'[req[w].run] = runStatus[req[w].run]
    PROVE  /\ pc'[w] = "begin" =>
                 RunProcessable(req'[w].runSeen) /\ runStatus'[req'[w].run] = req'[w].runSeen
           /\ pc'[w] \in {"forecast", "persist"} =>
                 req'[w].runSeen = "running" /\ runStatus'[req'[w].run] = "running"
           /\ pc'[w] # "persist_conflict"
  BY DEF SeenInv, Working

\* A step of the computation is a step of the lifecycle.
LEMMA LifecycleProcess ==
    ASSUME DocumentedFlow, FInv, SeenInv, NEW p \in Procs, ProcessStep(p)
    PROVE  SeenInv' /\ [Lifecycle!Next]_<<runStatus, results>>
  <1> DEFINE r == req[p].run
             Step == \/ UNCHANGED <<runStatus, results>>
                     \/ r \in Runs /\ Lifecycle!Begin(r)
                     \/ r \in Runs /\ Lifecycle!Complete(r)
                     \/ r \in Runs /\ Lifecycle!Fail(r)
             Seen(label, s) ==
               /\ label = "begin" => RunProcessable(s.runSeen) /\ runStatus'[s.run] = s.runSeen
               /\ label \in {"forecast", "persist"} =>
                     s.runSeen = "running" /\ runStatus'[s.run] = "running"
               /\ label # "persist_conflict"
  <1>0. /\ p \in Workers /\ p \notin Clients /\ req[p] \in Sessions
        /\ Workers \subseteq Procs
        /\ runStatus \in [Runs -> RunStatuses \cup {"none"}]
    BY FlowProcess, ParametersAssumption
    DEF Procs, FInv, DInv, TypeInv, TypeOK, RowsOK, HandlersOK
  <1>1. \A seen : /\ SawRun(req[p], seen).run = r
                  /\ SawRun(req[p], seen).runSeen = seen
    BY <1>0, SawRunFields
  <1>2. ASSUME NEW w \in Workers \ {p}, Working(w), Working(p) PROVE req[w].run # r
    BY <1>0, <1>2, FlowComputesOnce DEF OneProcessorPerRun
  <1>3. pc[p] # "persist_conflict" /\ (Working(p) => r \in Runs)
    BY <1>0, FlowComputesOnce DEF SeenInv
  <1>4. ASSUME NEW label, NEW s, Goto(p, label, s), Seen(label, s),
               \A t \in Runs : t # r \/ ~Working(p) => runStatus'[t] = runStatus[t]
        PROVE  SeenInv'
    <2>1. ASSUME NEW w \in Workers
          PROVE  /\ pc'[w] = "begin" =>
                       RunProcessable(req'[w].runSeen) /\ runStatus'[req'[w].run] = req'[w].runSeen
                 /\ pc'[w] \in {"forecast", "persist"} =>
                       req'[w].runSeen = "running" /\ runStatus'[req'[w].run] = "running"
                 /\ pc'[w] # "persist_conflict"
      <3>1. CASE w = p
        BY <1>0, <1>4, <3>1, OthersStay
      <3>2. CASE w # p
        <4>1. pc'[w] = pc[w] /\ req'[w] = req[w]
          BY <1>0, <1>4, <3>2, OthersStay
        <4>2. Working(w) => runStatus'[req[w].run] = runStatus[req[w].run]
          BY <1>0, <1>2, <1>4, <3>2, FlowComputesOnce
        <4>3. QED
          BY <4>1, <4>2, SeenStays
      <3>3. QED
        BY <3>1, <3>2
    <2>2. QED
      BY <2>1 DEF SeenInv
  <1>5. ASSUME Step PROVE [Lifecycle!Next]_<<runStatus, results>>
    BY <1>5 DEF Lifecycle!Next
  <1> HIDE DEF Step, Seen
  <1>6. CASE LoadRun(p)
    <2>1. UNCHANGED <<runStatus, results>> /\ ~Working(p)
      BY <1>6 DEF LoadRun, runVars, Working
    <2>2. CASE RunProcessable(runStatus[r]) /\ Goto(p, "begin", SawRun(req[p], runStatus[r]))
      <3>1. Seen("begin", SawRun(req[p], runStatus[r]))
        BY <1>1, <2>1, <2>2 DEF Seen
      <3>2. QED
        BY <1>4, <1>5, <2>1, <2>2, <3>1 DEF Step
    <2>3. CASE Goto(p, "fail_job", SawRun(req[p], "none"))
      <3>1. Seen("fail_job", SawRun(req[p], "none"))
        BY DEF Seen
      <3>2. QED
        BY <1>4, <1>5, <2>1, <2>3, <3>1 DEF Step
    <2>4. QED
      BY <1>0, <1>6, <2>2, <2>3 DEF LoadRun, Returns
  <1>7. CASE RefuseWithoutMl(p) \/ PipelineFails(p) \/ PersistFails(p)
    <2>1. /\ pc[p] \in {"begin", "forecast", "persist"} /\ Working(p)
          /\ r \in Runs
          /\ RunProcessable(runStatus[r]) \/ runStatus[r] = "running"
          /\ runStatus' = [runStatus EXCEPT ![r] = "failed"] /\ results' = results
      BY <1>0, <1>3, <1>7
      DEF RefuseWithoutMl, PipelineFails, PersistFails, WriteRun, SeenInv, Working, RunProcessable
    <2>2. Step
      BY <2>1 DEF Step, Lifecycle!Fail, Lifecycle!RunProcessable, RunProcessable
    <2>3. \A t \in Runs : t # r => runStatus'[t] = runStatus[t]
      BY <1>0, <2>1
    <2>4. \E label, s : Goto(p, label, s) /\ label \in {"fail_job", "fail_job_expired"}
      BY <1>0, <1>7 DEF RefuseWithoutMl, PipelineFails, PersistFails, Returns
    <2>5. QED
      BY <1>4, <1>5, <2>1, <2>2, <2>3, <2>4 DEF Seen
  <1>8. CASE BeginRun(p)
    <2>1. /\ Working(p) /\ r \in Runs
          /\ RunProcessable(runStatus[r])
          /\ runStatus' = [runStatus EXCEPT ![r] = "running"] /\ results' = results
      BY <1>0, <1>3, <1>8 DEF BeginRun, WriteRun, SeenInv, Working, RunProcessable
    <2>2. Step
      BY <2>1 DEF Step, Lifecycle!Begin, Lifecycle!RunProcessable, RunProcessable
    <2>3. Seen("forecast", SawRun(req[p], "running"))
      BY <1>0, <1>1, <2>1 DEF Seen
    <2>4. QED
      BY <1>0, <1>4, <1>5, <1>8, <2>1, <2>2, <2>3 DEF BeginRun
  <1>9. CASE Forecast(p)
    <2>1. UNCHANGED <<runStatus, results>> /\ Goto(p, "persist", req[p])
      BY <1>9 DEF Forecast, runVars
    <2>2. Seen("persist", req[p])
      BY <1>0, <1>9, <2>1 DEF Seen, Forecast, SeenInv
    <2>3. QED
      BY <1>4, <1>5, <2>1, <2>2 DEF Step
  <1>10. CASE Persist(p)
    <2>1. /\ Working(p) /\ r \in Runs /\ runStatus[r] = "running"
          /\ runStatus' = [runStatus EXCEPT ![r] = "completed"] /\ results' = results \cup {r}
      BY <1>0, <1>3, <1>10 DEF Persist, WriteRun, SeenInv, Working
    <2>2. Step
      BY <2>1 DEF Step, Lifecycle!Complete
    <2>3. ASSUME NEW w \in Workers
          PROVE  /\ pc'[w] = "begin" =>
                       RunProcessable(req'[w].runSeen) /\ runStatus'[req'[w].run] = req'[w].runSeen
                 /\ pc'[w] \in {"forecast", "persist"} =>
                       req'[w].runSeen = "running" /\ runStatus'[req'[w].run] = "running"
                 /\ pc'[w] # "persist_conflict"
      <3>1. CASE w = p
        <4>1. pc'[w] = "finish_job"
          BY <1>0, <1>10, <3>1 DEF Persist, FInv, DInv, TypeInv, TypeOK, HandlersOK
        <4>2. QED
          BY <4>1
      <3>2. CASE w # p
        <4>1. Working(w) => req[w].run # r /\ req[w].run \in Runs
          BY <1>0, <1>2, <2>1, <3>2, FlowComputesOnce
        <4>2. pc'[w] = pc[w] /\ req'[w] = req[w]
          BY <1>0, <1>10, <3>2, <4>1
          DEF Persist, Working, FInv, DInv, TypeInv, TypeOK, HandlersOK
        <4>3. Working(w) => runStatus'[req[w].run] = runStatus[req[w].run]
          BY <1>0, <2>1, <4>1
        <4>4. QED
          BY <4>2, <4>3, SeenStays
      <3>3. QED
        BY <3>1, <3>2
    <2>4. QED
      BY <1>5, <2>2, <2>3 DEF SeenInv
  <1>11. QED
    BY <1>6, <1>7, <1>8, <1>9, <1>10 DEF ProcessStep

LEMMA LifecycleNext ==
    DocumentedFlow /\ FInv /\ SeenInv /\ [Next]_vars
        => SeenInv' /\ [Lifecycle!Next]_<<runStatus, results>>
  <1> SUFFICES ASSUME DocumentedFlow, FInv, SeenInv, [Next]_vars
               PROVE  SeenInv' /\ [Lifecycle!Next]_<<runStatus, results>>
    OBVIOUS
  <1>1. CASE \E r \in Runs : CreateRun(r)
    <2>1. PICK r \in Runs : CreateRun(r)
      BY <1>1
    <2>2. Lifecycle!Create(r)
      BY <2>1 DEF CreateRun, Lifecycle!Create
    <2>3. \A w \in Workers : /\ pc'[w] = pc[w] /\ req'[w] = req[w]
                             /\ pc[w] \in {"begin", "forecast", "persist"} =>
                                   runStatus'[req[w].run] = runStatus[req[w].run]
      <3>1. ASSUME NEW w \in Workers, pc[w] \in {"begin", "forecast", "persist"}
            PROVE  req[w].run # r /\ req[w].run \in Runs
        BY <2>1, <3>1, FlowComputesOnce
        DEF CreateRun, SeenInv, Working, RunProcessable, Procs
      <3>2. QED
        BY <2>1, <3>1 DEF CreateRun, FInv, DInv, TypeInv, TypeOK, RowsOK
    <2>4. SeenInv'
      BY <2>3 DEF SeenInv
    <2>5. QED
      BY <2>2, <2>4 DEF Lifecycle!Next
  <1>2. CASE \E p \in Procs : ProcessStep(p)
    BY <1>2, LifecycleProcess
  <1>3. CASE /\ ~\E r \in Runs : CreateRun(r)
             /\ ~\E p \in Procs : ProcessStep(p)
    <2>1. UNCHANGED <<runStatus, results>>
      <3>1. ASSUME NEW c \in Clients, RequestStep(c) PROVE UNCHANGED <<runStatus, results>>
        BY <3>1, FlowRequest, FlowLabels
        DEF ReconcileRead, ReconcileWrite, CheckActiveJob, InsertJob, InsertRefused, Dispatch, runVars
      <3>2. QED
        BY <1>3, <3>1
        DEF Next, RequestBegins, EnqueueLoad, CancelRunLoad, ProcessBegin, GetJobLoad,
            RequestAborted, Dequeue, TaskStep, LoadJob, StartJob, StartJobRefused, FinishJob, FailJob,
            JobError, RqSuccess, RqFailure, WorkerFault, WorkerDisconnected, WorkerLost, WorkerCrash,
            RqCleanup, RqExpire, vars, runVars
    <2>2. ASSUME NEW w \in Workers, pc'[w] \in WorkingLabels
          PROVE  pc'[w] = pc[w] /\ req'[w] = req[w]
      <3>0. w \in Procs /\ w \notin Clients /\ Clients \subseteq Procs /\ Workers \subseteq Procs
        BY ParametersAssumption DEF Procs
      <3>1. ASSUME NEW c \in Clients, NEW label, NEW s, Goto(c, label, s)
            PROVE  pc'[w] = pc[w] /\ req'[w] = req[w]
        BY <3>0, <3>1, OthersStay
      <3>2. ASSUME NEW v \in Workers, NEW label, NEW s, Goto(v, label, s), label \notin WorkingLabels
            PROVE  pc'[w] = pc[w] /\ req'[w] = req[w]
        BY <2>2, <3>0, <3>2, OthersStay
      <3>3. ASSUME NEW c \in Clients, RequestBegins(c) \/ RequestAborted(c)
            PROVE  pc'[w] = pc[w] /\ req'[w] = req[w]
        BY <3>1, <3>3
        DEF RequestBegins, EnqueueLoad, CancelRunLoad, ProcessBegin, GetJobLoad, Resume, Done,
            RequestAborted
      <3>4. ASSUME NEW c \in Clients, RequestStep(c) PROVE pc'[w] = pc[w] /\ req'[w] = req[w]
        BY <3>1, <3>4, FlowRequest
        DEF ReconcileRead, ReconcileWrite, CheckActiveJob, InsertJob, InsertRefused, Dispatch,
            Resume, Done
      <3>5. ASSUME NEW v \in Workers,
                   TaskStep(v) \/ WorkerFault(v) \/ \E j \in Jobs : Dequeue(v, j)
            PROVE  pc'[w] = pc[w] /\ req'[w] = req[w]
        <4>1. \E label, s : Goto(v, label, s) /\ label \notin WorkingLabels
          BY <3>5
          DEF TaskStep, LoadJob, StartJob, StartJobRefused, FinishJob, FailJob, JobError, RqSuccess,
              RqFailure, WorkerFault, WorkerDisconnected, WorkerLost, WorkerCrash, Leaves, Done,
              Dequeue, WorkingLabels
        <4>2. QED
          BY <3>2, <4>1
      <3>6. QED
        BY <1>3, <3>3, <3>4, <3>5 DEF Next, RqCleanup, RqExpire, vars
    <2>3. SeenInv'
      BY <2>1, <2>2 DEF SeenInv, WorkingLabels
    <2>4. QED
      BY <2>1, <2>3
  <1>4. QED
    BY <1>1, <1>2, <1>3

\* What the documented flow does to a run, through queue, redeliveries, crashes
\* and clean-up, is what RunLifecycle promises of it.
THEOREM FlowImplementsLifecycle == DocumentedFlow => (Spec => ImplementsLifecycle)
  <1> SUFFICES ASSUME DocumentedFlow PROVE Spec => ImplementsLifecycle
    OBVIOUS
  <1>1. Init => FInv /\ SeenInv /\ Lifecycle!Init
    <2>1. Init => SeenInv
      BY DEF Init, SeenInv, Procs
    <2>2. Init => Lifecycle!Init
      BY DEF Init, Lifecycle!Init
    <2>3. QED
      BY <2>1, <2>2, FlowInit
  <1>2. FInv /\ SeenInv /\ [Next]_vars => (FInv /\ SeenInv)'
    BY FlowNext, LifecycleNext
  <1>3. FInv /\ SeenInv /\ [Next]_vars => [Lifecycle!Next]_<<runStatus, results>>
    BY LifecycleNext
  <1>4. QED
    BY <1>1, <1>2, <1>3, PTL DEF Spec, ImplementsLifecycle, Lifecycle!Spec

\* ... so that a forecast is stored exactly for the runs that are completed.
THEOREM ResultsIffCompleted == DocumentedFlow => (Spec => []Lifecycle!StoredIffCompleted)
  <1> SUFFICES ASSUME DocumentedFlow PROVE Spec => []Lifecycle!StoredIffCompleted
    OBVIOUS
  <1> DEFINE I == FInv /\ SeenInv /\ Lifecycle!StoredIffCompleted
  <1>1. Init => I
    <2>1. Init => SeenInv /\ Lifecycle!StoredIffCompleted
      BY DEF Init, SeenInv, Procs, Lifecycle!StoredIffCompleted
    <2>2. QED
      BY <2>1, FlowInit
  <1>2. I /\ [Next]_vars => I'
    <2> SUFFICES ASSUME I, [Next]_vars PROVE Lifecycle!StoredIffCompleted'
      BY FlowNext, LifecycleNext
    <2>1. [Lifecycle!Next]_<<runStatus, results>>
      BY LifecycleNext
    <2>2. runStatus \in [Runs -> RunStatuses \cup {"none"}]
      BY DEF FInv, DInv, TypeInv, TypeOK, RowsOK
    <2>3. QED
      BY <2>1, <2>2
      DEF Lifecycle!StoredIffCompleted, Lifecycle!Next, Lifecycle!Create, Lifecycle!Begin,
          Lifecycle!Complete, Lifecycle!Fail, Lifecycle!RunProcessable
  <1>3. I => Lifecycle!StoredIffCompleted
    OBVIOUS
  <1> HIDE DEF I
  <1>4. QED
    BY <1>1, <1>2, <1>3, PTL DEF Spec
=============================================================================
