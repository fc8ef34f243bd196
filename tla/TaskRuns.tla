------------------------------ MODULE TaskRuns ------------------------------
(***************************************************************************)
(* The life of one row of task_runs as pure transitions: what a tick, a    *)
(* pause, a resume, a cancel, a failure, the resolution of the approval    *)
(* the run waits for and the result of a tool execution make of the row    *)
(* they READ.  GovernedExecution says when a row is read and when the      *)
(* result is written over it.                                              *)
(***************************************************************************)
EXTENDS Naturals

CONSTANTS
    Tasks,          \* rows of tasks; a task has at most one approval
    None,           \* no task, no run, no process, nothing to write
    TargetSteps,    \* checkpoint.target_steps
    MaxTicks,       \* task_runs.max_ticks
    RetryCap        \* task_runs.retry_cap

ASSUME TaskRunAssumption ==
    /\ TargetSteps \in Nat \ {0}
    /\ MaxTicks \in Nat \ {0}
    /\ RetryCap \in Nat \ {0}
    /\ None \notin Tasks

Runnable   == {"queued", "running"}
Pauseable  == {"queued", "running", "waiting_approval", "waiting_user"}
Resumable  == {"paused", "waiting_approval", "waiting_user", "failed"}
Cancellable == {"queued", "running", "waiting_approval", "waiting_user", "paused"}
Finished   == {"done", "cancelled"}

FailureClasses == {"transient", "budget", "policy", "approval"}

\* waits: checkpoint.wait_for_signal; asked: checkpoint.waiting_approval_id is set.
RunRow ==
    [status : {"absent", "failed"} \cup Pauseable \cup Cancellable \cup Finished,
     task : Tasks \cup {None}, cursor : 0..TargetSteps, ticks : Nat,
     waits : BOOLEAN, asked : BOOLEAN, retries : 0..RetryCap,
     failure : FailureClasses \cup {"none"}]

NoRun == [status |-> "absent", task |-> None, cursor |-> 0, ticks |-> 0,
          waits |-> FALSE, asked |-> FALSE, retries |-> 0, failure |-> "none"]

Created(t, checkpoint) ==
    [NoRun EXCEPT !.status = "queued", !.task = t,
                  !.cursor = checkpoint.cursor, !.waits = checkpoint.waits]

-----------------------------------------------------------------------------
\* The four exits of a tick after the approval branch, in the order of the code.
Advanced(row) ==
    LET next == row.cursor + 1 IN
    [row EXCEPT !.status = IF next >= TargetSteps THEN "done" ELSE "running",
                !.cursor = next, !.ticks = @ + 1, !.failure = "none"]

Ticked(row, approvalPending) ==
    CASE approvalPending ->
            [row EXCEPT !.status = "waiting_approval", !.waits = TRUE, !.asked = TRUE,
                        !.ticks = @ + 1, !.failure = "none"]
      [] ~approvalPending /\ row.cursor >= TargetSteps ->
            [row EXCEPT !.status = "done", !.failure = "none"]
      [] ~approvalPending /\ row.cursor < TargetSteps /\ row.ticks >= MaxTicks ->
            [row EXCEPT !.status = "failed", !.failure = "budget"]
      [] ~approvalPending /\ row.cursor < TargetSteps /\ row.ticks < MaxTicks /\ row.waits ->
            [row EXCEPT !.status = "waiting_user", !.ticks = @ + 1, !.failure = "none"]
      [] OTHER -> Advanced(row)

Paused(row) == [row EXCEPT !.status = "paused", !.failure = "none"]

Cancelled(row) == [row EXCEPT !.status = "cancelled", !.failure = "none"]

\* A failed run is resumed only as a retry, and only of a transient failure.
MayResume(row, approvalPending) ==
    /\ row.status \in Resumable
    /\ ~(row.status = "waiting_approval" /\ row.asked /\ approvalPending)
    /\ row.status = "failed" => row.failure = "transient" /\ row.retries < RetryCap

Resumed(row) ==
    [row EXCEPT
        !.status = IF @ \in {"failed", "waiting_approval"} THEN "queued" ELSE "running",
        !.retries = IF row.status = "failed" THEN @ + 1 ELSE @,
        !.waits = FALSE, !.asked = FALSE, !.failure = "none"]

Failed(row, class) == [row EXCEPT !.status = "failed", !.failure = class]

\* ACQUIRE_NEXT_TASK_RUN_SQL: the worker marks what it picked.
Acquired(row) == [row EXCEPT !.status = "running", !.failure = "none"]

\* Only a run that waits for its approval follows the resolution.
AfterResolution(row, decision) ==
    [row EXCEPT !.status = IF decision = "approved" THEN "queued" ELSE "failed",
                !.failure = IF decision = "approved" THEN "none" ELSE "approval",
                !.waits = FALSE, !.asked = FALSE]

\* A blocked execution fails the run for good.
AfterExecution(row, outcome) ==
    [row EXCEPT
        !.status = IF outcome = "completed" THEN "done" ELSE "failed",
        !.failure = CASE outcome = "completed" -> "none"
                      [] outcome = "over_budget" -> "budget"
                      [] OTHER -> "policy",
        !.ticks = IF @ = 0 THEN 1 ELSE @,
        !.waits = FALSE, !.asked = FALSE]
=============================================================================
