---------------------------- MODULE RunLifecycle ----------------------------
(***************************************************************************)
(* What a forecast run promises its owner: it is computed one attempt at a *)
(* time, its forecast appears at once and together with the status         *)
(* "completed", and a completed run is never touched again.  How often it  *)
(* is queued, delivered, crashed and retried in between is not visible.    *)
(***************************************************************************)
EXTENDS JobRules

CONSTANT Runs

VARIABLES
    status,  \* the status clients see
    stored   \* the runs with a forecast to show

Create(r) ==
    /\ status[r] = "none"
    /\ status' = [status EXCEPT ![r] = "pending"]
    /\ UNCHANGED stored

Begin(r) ==
    /\ RunProcessable(status[r])
    /\ status' = [status EXCEPT ![r] = "running"]
    /\ UNCHANGED stored

Complete(r) ==
    /\ status[r] = "running"
    /\ status' = [status EXCEPT ![r] = "completed"]
    /\ stored' = stored \cup {r}

\* Before it begins (no ML libraries) or while it runs
Fail(r) ==
    /\ RunProcessable(status[r]) \/ status[r] = "running"
    /\ status' = [status EXCEPT ![r] = "failed"]
    /\ UNCHANGED stored

Init ==
    /\ status = [r \in Runs |-> "none"]
    /\ stored = {}

Next == \E r \in Runs : Create(r) \/ Begin(r) \/ Complete(r) \/ Fail(r)

Spec == Init /\ [][Next]_<<status, stored>>

\* The forecast is there exactly when the run says so.
StoredIffCompleted == \A r \in Runs : r \in stored <=> status[r] = "completed"
=============================================================================
