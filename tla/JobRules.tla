------------------------------ MODULE JobRules ------------------------------
(***************************************************************************)
(* The status vocabulary of background jobs and forecast runs, and the     *)
(* guards the services apply to it (jobs/domain/rules.py,                  *)
(* forecasting/domain/runs.py).  Pure definitions; no state.               *)
(***************************************************************************)

EXTENDS Naturals

\* The vocabulary of background_jobs.status.
JobStatuses ==
    {"queued", "started", "finished", "failed", "cancelled", "retrying"}

ActiveJobStatuses == {"queued", "started", "retrying"}

TerminalJobStatuses == {"finished", "failed", "cancelled"}

\* The table behind ensure_valid_status_transition.
AllowedStatusTransitions ==
    [ queued    |-> {"started", "failed", "cancelled"},
      started   |-> {"finished", "failed", "retrying"},
      retrying  |-> {"started", "failed", "cancelled"},
      finished  |-> {},
      failed    |-> {},
      cancelled |-> {} ]

\* ensure_valid_status_transition: an unchanged status always passes.
ValidStatusTransition(current, next) ==
    current = next \/ next \in AllowedStatusTransitions[current]

\* jobs/domain/rules.py ensure_cancellable_status
JobCancellable(status) == status = "queued"

\* ensure_retryable_status
JobRetryable(status, attempts, maxRetries) ==
    status = "failed" /\ attempts < maxRetries

\* ensure_forecast_run_processable, and the same test in process_forecast_run
RunProcessable(status) == status \in {"pending", "failed"}

RunStatuses == {"pending", "running", "completed", "failed", "cancelled"}

\* forecasting/domain/runs.py ensure_cancellable_status
RunCancellable(status) == status \in {"pending", "running"}

\* The statuses RQ reports; "absent" when it has no such job.
RqStatuses ==
    {"absent", "queued", "scheduled", "started", "finished", "failed", "canceled"}

\* The failures RQ reports are not taken over.
MapRqStatusWithoutFailure(status) ==
    IF status \in {"queued", "scheduled"} THEN "queued"
    ELSE IF status = "canceled" THEN "cancelled"
    ELSE IF status \in {"started", "finished"} THEN status
    ELSE "none"

\* map_rq_status_to_job_status; no job in RQ maps to no status.
MapRqStatus(status) ==
    IF status \in {"queued", "scheduled"} THEN "queued"
    ELSE IF status = "canceled" THEN "cancelled"
    ELSE IF status \in {"started", "finished", "failed"} THEN status
    ELSE "none"
=============================================================================
