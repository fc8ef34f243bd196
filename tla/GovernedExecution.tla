------------------------- MODULE GovernedExecution -------------------------
(***************************************************************************)
(* Governed tool calls: a request is routed to a task with an approval,    *)
(* task runs of that task are ticked by workers and by callers, somebody   *)
(* decides the approval, and the approved request is executed.  Every      *)
(* operation is one READ COMMITTED transaction that first reads rows and   *)
(* later writes whole rows over them.  Approval and execution take the     *)
(* advisory lock of the task; ticks, pauses, resumes and cancels do not.   *)
(* Row locks are those PostgreSQL takes for the statements, and it aborts  *)
(* one transaction of a cycle of waits.                                    *)
(***************************************************************************)
EXTENDS TaskRuns, Sequences, FiniteSets

CONSTANTS
    Runs,           \* rows of task_runs
    Callers,        \* API request handlers
    Workers,        \* processes of alicebot_worker
    Tools,          \* kinds of tool: "plain", "effect" or "unknown"
    Routings,       \* what the policy may decide of a request
    Checkpoints,    \* the checkpoints a run is created with
    BudgetLimit,    \* max_completed_executions of the budget of each tool
    MaxCalls        \* bound: how many API requests read an existing row

TaskStatuses == {"pending_approval", "approved", "denied", "executed", "blocked"}
ApprovalRow == [status : {"absent", "pending", "approved", "rejected"}, run : Runs \cup {None}]
Execution == [task : Tasks, run : Runs \cup {None},
              outcome : {"completed", "no_handler", "over_budget"}]

\* A process is a request handler or a worker; None is no row of any table.
ASSUME GovernedAssumption ==
    /\ Routings \subseteq {"approval_required", "ready", "denied"}
    /\ Checkpoints \subseteq [cursor : 0..TargetSteps, waits : BOOLEAN]
    /\ BudgetLimit \in Nat /\ MaxCalls \in Nat
    /\ Callers \cap Workers = {}
    /\ None \notin Runs \cup RunRow \cup ApprovalRow \cup Execution \cup TaskStatuses

VARIABLES
    task,           \* tasks: status and the tool of the request
    approval,       \* approvals by task: status and task_run_id
    run,            \* task_runs
    executions,     \* tool_executions in the order of their commits
    tx,             \* the open transaction of each process
    calls

vars == <<task, approval, run, executions, tx, calls>>

Processes == Callers \cup Workers

NoTask == [status |-> "absent", tool |-> None]
NoApproval == [status |-> "absent", run |-> None]

\* sees: the approval row read before the lock.  The new* fields are what the
\* transaction has written or will write; nobody else sees them before Write.
NoTx == [at |-> "idle", op |-> "none", task |-> None, run |-> None,
         verdict |-> "none", sees |-> NoApproval,
         newRun |-> None, newApproval |-> None, newTask |-> None, newExecution |-> None]

Init ==
    /\ task = [t \in Tasks |-> NoTask]
    /\ approval = [t \in Tasks |-> NoApproval]
    /\ run = [r \in Runs |-> NoRun]
    /\ executions = <<>>
    /\ tx = [p \in Processes |-> NoTx]
    /\ calls = 0

Exists(row) == row.status # "absent"

PendingApproval(t) == task[t].status = "pending_approval" /\ approval[t].status = "pending"

-----------------------------------------------------------------------------
\* Locks.  A worker holds the row of its run from the moment it picked it, and
\* in the one mode (FOR UPDATE) that also stops foreign keys from pointing at it.
\* A bug: nobody takes the advisory lock of the task.
NobodyHoldsTurn(p, t) == FALSE

HoldsTurn(p, t) ==
    tx[p].op \in {"resolve", "execute"} /\ tx[p].at \in {"decide", "write"} /\ tx[p].task = t

HoldsApproval(p, t) == tx[p].newApproval # None /\ tx[p].task = t

HoldsRun(p, r) == p \in Workers /\ tx[p].at # "idle" /\ tx[p].run = r

\* An uncommitted foreign key to the run: a new execution or a new link.
PointsAt(p, r) ==
    /\ tx[p].op # "resolve"
    /\ \/ tx[p].newExecution # None /\ tx[p].newExecution.run = r
       \/ tx[p].newApproval # None /\ tx[p].newApproval.run = r

\* What execute_approved_proxy_request makes of the run it was given and the
\* approval it read.
RunOf(x) == IF x.run # None THEN x.run ELSE x.sees.run
\* A bug: the task of the run is not compared.
MisplacedByLinkOnly(x) == RunOf(x) # None /\ x.sees.run \notin {None, RunOf(x)}

Misplaced(x) ==
    RunOf(x) # None /\ (run[RunOf(x)].task # x.task \/ x.sees.run \notin {None, RunOf(x)})
Links(x) == RunOf(x) # None /\ ~Misplaced(x) /\ x.sees.run = None
Unkeyed(x) == task[x.task].tool = "effect" /\ RunOf(x) = None
\* A bug: an approval that nobody gave is taken for one.
RefusedWhateverDecided(x) == Misplaced(x) \/ Unkeyed(x)

Refused(x) == Misplaced(x) \/ Unkeyed(x) \/ x.sees.status # "approved"

\* The processes that hold what the next statement of p needs.
Blockers(p) ==
    LET x == tx[p]
        others == Processes \ {p}
        turn == {q \in others : HoldsTurn(q, x.task)}
        decision == {q \in others : HoldsApproval(q, x.task)}
        row(r) == {q \in others : HoldsRun(q, r)}
    IN  CASE x.at = "lock" -> turn
          [] x.at = "link" -> decision \cup row(x.run)
          [] x.at = "decide" /\ x.op = "resolve" ->
                IF x.sees.status = "pending" THEN decision ELSE {}
          [] x.at = "decide" /\ x.op = "execute" ->
                (IF Links(x) THEN decision ELSE {})
                \cup (IF Links(x) \/ ~Refused(x) THEN row(RunOf(x)) ELSE {})
          [] x.at = "write" /\ x.newRun # None -> row(x.run)
          [] OTHER -> {}

Reaches(p) ==
    LET within[n \in 0..Cardinality(Processes)] ==
            IF n = 0 THEN Blockers(p)
            ELSE within[n - 1] \cup UNION {Blockers(q) : q \in within[n - 1]}
    IN  within[Cardinality(Processes)]

-----------------------------------------------------------------------------
\* POST /v0/approvals/requests: task, first step and approval in one transaction
\* that no other waits for; the request may name a run of another task.
SubmitRequest(c, t, tool, routing, r) ==
    /\ tx[c].at = "idle" /\ ~Exists(task[t])
    /\ r # None => Exists(run[r])
    /\ task' = [task EXCEPT ![t] =
            [status |-> CASE routing = "approval_required" -> "pending_approval"
                          [] routing = "ready" -> "approved"
                          [] routing = "denied" -> "denied",
             tool |-> tool]]
    /\ approval' = IF routing = "approval_required"
                   THEN [approval EXCEPT ![t] = [status |-> "pending", run |-> r]]
                   ELSE approval
    /\ UNCHANGED <<run, executions, tx, calls>>

CreateRun(c, t, r, checkpoint) ==
    /\ tx[c].at = "idle" /\ Exists(task[t]) /\ ~Exists(run[r])
    /\ run' = [run EXCEPT ![r] = Created(t, checkpoint)]
    /\ UNCHANGED <<task, approval, executions, tx, calls>>

Open(c, x) ==
    /\ tx[c].at = "idle" /\ calls < MaxCalls
    /\ calls' = calls + 1
    /\ tx' = [tx EXCEPT ![c] = x]
    /\ UNCHANGED <<task, approval, run, executions>>

\* Where a tick goes after its reads: a pending approval is linked to the run first.
TickOf(t, r, row) ==
    [NoTx EXCEPT !.at = IF PendingApproval(t) THEN "link" ELSE "write", !.op = "tick",
                 !.task = t, !.run = r, !.newRun = Ticked(row, PendingApproval(t))]

TickRead(c, r) ==
    /\ run[r].status \in Runnable
    /\ Open(c, TickOf(run[r].task, r, run[r]))

Overwrite(r, row) ==
    [NoTx EXCEPT !.at = "write", !.op = "change", !.task = run[r].task, !.run = r,
                 !.newRun = row]

PauseRead(c, r) == run[r].status \in Pauseable /\ Open(c, Overwrite(r, Paused(run[r])))

CancelRead(c, r) == run[r].status \in Cancellable /\ Open(c, Overwrite(r, Cancelled(run[r])))

ResumeRead(c, r) ==
    /\ Exists(run[r])
    /\ MayResume(run[r], approval[run[r].task].status = "pending")
    /\ Open(c, Overwrite(r, Resumed(run[r])))

ResolveRead(c, t, verdict) ==
    /\ Exists(approval[t])
    /\ Open(c, [NoTx EXCEPT !.at = "lock", !.op = "resolve", !.task = t,
                            !.verdict = verdict, !.sees = approval[t]])

ExecuteOf(t, r, row) ==
    [NoTx EXCEPT !.at = "lock", !.op = "execute", !.task = t, !.run = r,
                 !.sees = approval[t], !.newRun = row]

ExecuteRead(c, t, r) ==
    /\ Exists(approval[t])
    /\ r # None => Exists(run[r])
    /\ Open(c, ExecuteOf(t, r, None))

\* One invocation of the worker picks a runnable run nobody else has locked, then
\* executes the approved request of its task or ticks the run, and exits.  Somebody
\* may launch it again at any time; nothing in the repository does.
AcquireRun(w, r) ==
    LET t == run[r].task
        row == Acquired(run[r])
    IN  /\ tx[w].at = "idle" /\ run[r].status \in Runnable
        /\ \A p \in Processes : ~HoldsRun(p, r) /\ ~PointsAt(p, r)
        /\ tx' = [tx EXCEPT ![w] =
                IF task[t].status = "approved" /\ approval[t].status = "approved"
                THEN ExecuteOf(t, r, row) ELSE TickOf(t, r, row)]
        /\ UNCHANGED <<task, approval, run, executions, calls>>

-----------------------------------------------------------------------------
Proceed(p, x) ==
    /\ Blockers(p) = {}
    /\ tx' = [tx EXCEPT ![p] = x]
    /\ UNCHANGED <<task, approval, run, executions, calls>>

TakeTurn(p) == tx[p].at = "lock" /\ Proceed(p, [tx[p] EXCEPT !.at = "decide"])

LinkTick(p) ==
    /\ tx[p].at = "link"
    /\ Proceed(p, [tx[p] EXCEPT !.at = "write",
                   !.newApproval = [approval[tx[p].task] EXCEPT !.run = tx[p].run]])

\* A decided transaction has no further use for what it read.
Decided(x) == [x EXCEPT !.at = "write", !.verdict = "none", !.sees = NoApproval]

\* A bug: the status is compared with what was read before the lock.
ResolvesAsRead(x) == x.sees.status = "pending"

\* The conditional UPDATE meets a row that is still pending.
Resolves(x) == x.sees.status = "pending" /\ approval[x.task].status = "pending"

\* The approval after it: the row with the verdict, the row somebody else
\* resolved meanwhile, or the resolved row that was read.
AfterUpdate(x) ==
    CASE Resolves(x) -> [approval[x.task] EXCEPT !.status = x.verdict]
      [] ~Resolves(x) /\ x.sees.status = "pending" -> approval[x.task]
      [] OTHER -> x.sees

Mirrored(decision) ==
    CASE decision = "pending" -> "pending_approval"
      [] decision = "approved" -> "approved"
      [] decision = "rejected" -> "denied"

\* A bug: an executed task is set back to its decision.
TaskAsDecided(t, decision) == Mirrored(decision)

TaskAfterDecision(t, decision) ==
    IF task[t].status \in {"executed", "blocked"} THEN task[t].status ELSE Mirrored(decision)

ResolveDecide(p) ==
    LET x == tx[p]
        now == AfterUpdate(x)
        wakes == now.run # None /\ run[now.run].status = "waiting_approval"
    IN  /\ x.at = "decide" /\ x.op = "resolve"
        /\ Proceed(p, [Decided(x) EXCEPT
                !.run = now.run,
                !.newApproval = IF Resolves(x) THEN now ELSE None,
                !.newTask = TaskAfterDecision(x.task, now.status),
                !.newRun = IF wakes THEN AfterResolution(run[now.run], now.status)
                           ELSE None])

Completed(tool) ==
    {i \in DOMAIN executions :
        executions[i].outcome = "completed" /\ task[executions[i].task].tool = tool}

\* evaluate_execution_budget
WithinBudget(tool) == Cardinality(Completed(tool)) + 1 <= BudgetLimit

\* The budget is checked first, then the handler is looked up.
OutcomeOf(tool) ==
    CASE ~WithinBudget(tool) -> "over_budget"
      [] WithinBudget(tool) /\ tool = "unknown" -> "no_handler"
      [] OTHER -> "completed"

TaskAfterExecution(outcome) == IF outcome = "completed" THEN "executed" ELSE "blocked"

\* The earlier executions with the idempotency key of run r and the approval of t.
Earlier(t, r) ==
    IF task[t].tool # "effect" THEN {}
    ELSE {i \in DOMAIN executions : executions[i].task = t /\ executions[i].run = r}

\* A transaction reads the run with its own changes; a finished run is left alone.
Mine(p, r) == IF tx[p].newRun # None THEN tx[p].newRun ELSE run[r]
SyncedRun(p, r, outcome) ==
    IF r = None \/ Mine(p, r).status \in Finished THEN tx[p].newRun
    ELSE AfterExecution(Mine(p, r), outcome)

Linked(x) ==
    IF Links(x) THEN [approval[x.task] EXCEPT !.run = RunOf(x)] ELSE x.newApproval

\* An error is caught inside the transaction: the link stays, and a worker
\* marks its run as failed.
ExecuteRefused(p) ==
    LET x == tx[p] IN
    /\ x.at = "decide" /\ x.op = "execute" /\ Refused(x)
    /\ Proceed(p, [Decided(x) EXCEPT
            !.newApproval = Linked(x),
            !.newRun = IF p \in Workers THEN Failed(@, "transient") ELSE None])

ExecuteReplay(p) ==
    LET x == tx[p]
        r == RunOf(x)
    IN  /\ x.at = "decide" /\ x.op = "execute" /\ ~Refused(x)
        /\ \E i \in Earlier(x.task, r) :
              Proceed(p, [Decided(x) EXCEPT
                  !.run = r, !.newApproval = Linked(x),
                  !.newRun = SyncedRun(p, r, executions[i].outcome)])

ExecuteTool(p) ==
    LET x == tx[p]
        r == RunOf(x)
        outcome == OutcomeOf(task[x.task].tool)
    IN  /\ x.at = "decide" /\ x.op = "execute" /\ ~Refused(x)
        /\ Earlier(x.task, r) = {}
        /\ Proceed(p, [Decided(x) EXCEPT
                !.run = r, !.newApproval = Linked(x),
                !.newExecution = [task |-> x.task, run |-> r, outcome |-> outcome],
                !.newTask = TaskAfterExecution(outcome),
                !.newRun = SyncedRun(p, r, outcome)])

\* The last statement and the commit: whole rows replace whatever is there now.
Write(p) ==
    LET x == tx[p] IN
    /\ x.at = "write" /\ Blockers(p) = {}
    /\ run' = IF x.newRun = None THEN run ELSE [run EXCEPT ![x.run] = x.newRun]
    /\ approval' = IF x.newApproval = None THEN approval
                   ELSE [approval EXCEPT ![x.task] = x.newApproval]
    /\ task' = IF x.newTask = None THEN task
               ELSE [task EXCEPT ![x.task].status = x.newTask]
    /\ executions' = IF x.newExecution = None THEN executions
                     ELSE Append(executions, x.newExecution)
    /\ tx' = [tx EXCEPT ![p] = NoTx]
    /\ UNCHANGED calls

\* A bug: the aborted statement is tried again in the transaction that is still open.
RetriedInPlace(p) == p \in Reaches(p) /\ UNCHANGED vars

\* PostgreSQL aborts a transaction of a cycle of waits, and the error ends it.
DeadlockAbort(p) ==
    /\ p \in Reaches(p)
    /\ tx' = [tx EXCEPT ![p] = NoTx]
    /\ UNCHANGED <<task, approval, run, executions, calls>>

-----------------------------------------------------------------------------
Ready(p) ==
    \/ TakeTurn(p) \/ LinkTick(p) \/ ResolveDecide(p)
    \/ ExecuteRefused(p) \/ ExecuteReplay(p) \/ ExecuteTool(p) \/ Write(p)
    \/ DeadlockAbort(p)

Call(c) ==
    \/ \E t \in Tasks, tool \in Tools, r \in Runs \cup {None} :
        \E routing \in Routings :
            SubmitRequest(c, t, tool, routing, r)
    \/ \E t \in Tasks, r \in Runs, checkpoint \in Checkpoints :
            CreateRun(c, t, r, checkpoint)
    \/ \E r \in Runs : TickRead(c, r) \/ PauseRead(c, r) \/ CancelRead(c, r) \/ ResumeRead(c, r)
    \/ \E t \in Tasks :
        \/ \E verdict \in {"approved", "rejected"} : ResolveRead(c, t, verdict)
        \/ \E r \in Runs \cup {None} : ExecuteRead(c, t, r)

Next ==
    \/ \E c \in Callers : Call(c)
    \/ \E w \in Workers, r \in Runs : AcquireRun(w, r)
    \/ \E p \in Processes : Ready(p)

Spec == Init /\ [][Next]_vars

\* Every open transaction goes on: its next statement is executed once nobody
\* holds what it needs, or it is aborted while it is part of a cycle of waits.
\* Nobody has to make a call, and nobody has to launch the worker.
Fairness == \A p \in Processes : WF_vars(Ready(p))

FairSpec == Spec /\ Fairness

-----------------------------------------------------------------------------
Transaction ==
    [at : {"idle", "lock", "link", "decide", "write"},
     op : {"none", "tick", "change", "resolve", "execute"},
     task : Tasks \cup {None}, run : Runs \cup {None},
     verdict : {"none", "approved", "rejected"}, sees : ApprovalRow,
     newRun : RunRow \cup {None}, newApproval : ApprovalRow \cup {None},
     newTask : TaskStatuses \cup {None}, newExecution : Execution \cup {None}]

\* The rows, the open transactions and the log have their types.
TypeOK ==
    /\ task \in [Tasks -> [status : TaskStatuses \cup {"absent"}, tool : Tools \cup {None}]]
    /\ approval \in [Tasks -> ApprovalRow]
    /\ run \in [Runs -> RunRow]
    /\ executions \in Seq(Execution)
    /\ tx \in [Processes -> Transaction]
    /\ calls \in 0..MaxCalls

\* Two people who decide one approval at the same time get one decision: once
\* resolved, its status never changes, whatever a transaction read before
\* (approve_approval_record, reject_approval_record).
DecisionIsFinal ==
    [][\A t \in Tasks : approval[t].status \in {"approved", "rejected"}
            => approval'[t].status = approval[t].status]_vars

\* Only approved requests have been executed, and an executed request stays
\* approved (execute_approved_proxy_request).
ExecutionWasApproved ==
    \A i \in DOMAIN executions : approval[executions[i].task].status = "approved"

\* A tool with an effect outside runs once for a task and a run: neither a
\* retry, nor a second worker, nor a caller that executes at the same time as
\* the worker runs it again (the idempotency lookup after the task's lock).
KeyedOnce ==
    \A i, j \in DOMAIN executions :
        /\ executions[i].task = executions[j].task
        /\ executions[i].run = executions[j].run
        /\ task[executions[i].task].tool = "effect"
        => i = j

Executed(t) == \E i \in DOMAIN executions : executions[i].task = t

IsLast(i) ==
    \A j \in DOMAIN executions : executions[j].task = executions[i].task => j <= i

\* A task mirrors its approval until it is executed and its last execution from
\* then on: no late decision, replay or refusal sets it back
\* (sync_task_with_approval, sync_task_with_execution).
TaskFollowsItsRecords ==
    \A t \in Tasks : Exists(approval[t]) =>
        IF Executed(t)
        THEN \A i \in DOMAIN executions :
                executions[i].task = t /\ IsLast(i) =>
                    task[t].status = TaskAfterExecution(executions[i].outcome)
        ELSE task[t].status = Mirrored(approval[t].status)

\* An approval is only ever linked to a run of its own task once a tick or an
\* execution links it, and a linked approval is executed for that run alone:
\* an execution names the run it was decided for or is refused.
ExecutionBelongsToItsRun ==
    \A i \in DOMAIN executions :
        executions[i].run # None => run[executions[i].run].task = executions[i].task

\* Nobody waits for ever: every transaction that was opened ends, whichever
\* decisions, executions, ticks, pauses and cancels meet on one task.  The worker
\* locks a run and then the approval and the turn of its task, an execution or a
\* decision of the API takes them first and the run last, so cycles of waits do
\* happen and somebody must give way (acquire_next_task_run_optional,
\* execute_approved_proxy_request, sync_task_run_with_tool_execution).
EveryTransactionEnds ==
    \A p \in Processes : tx[p].at # "idle" ~> tx[p].at = "idle"

\* "does not reopen cancelled linked task run": the resolution of an approval
\* never makes a cancelled run runnable again (_resume_task_run_after_resolution).
ResolutionNeverReopensCancelled ==
    [][\A r \in Runs : run[r].status = "cancelled" => run'[r].status # "queued"]_vars

-----------------------------------------------------------------------------
\* What makes the properties inductive.

RowsLinked ==
    /\ \A t \in Tasks : /\ Exists(approval[t]) => Exists(task[t])
                        /\ Executed(t) => task[t].status \in {"executed", "blocked"}
    /\ \A r \in Runs : IF Exists(run[r]) THEN run[r].task \in Tasks ELSE run[r].task = None

OneHolder ==
    \A p, q \in Processes, t \in Tasks :
        \/ HoldsTurn(p, t) /\ HoldsTurn(q, t)
        \/ HoldsApproval(p, t) /\ HoldsApproval(q, t)
        => p = q

\* What a transaction has read and has not locked: a decision it saw stands.
ReadsStand(x) ==
    /\ x.at = "idle" => x = NoTx
    /\ x.at # "idle" => x.task \in Tasks
    /\ x.at = "link" => x.op = "tick" /\ x.run \in Runs /\ Exists(approval[x.task])
    /\ x.at \in {"lock", "decide"} =>
          /\ x.op \in {"resolve", "execute"}
          /\ Exists(x.sees) /\ Exists(approval[x.task])
          /\ x.sees.status \in {"pending", approval[x.task].status}
          /\ x.op = "resolve" => x.verdict \in {"approved", "rejected"}
    /\ x.at # "write" => x.newApproval = None /\ x.newTask = None /\ x.newExecution = None

\* The row it will write over the run and over the approval.
WritesFit(x) ==
    /\ x.newRun # None =>
          /\ x.run \in Runs /\ Exists(run[x.run])
          /\ Exists(x.newRun) /\ x.newRun.task = run[x.run].task
    /\ x.newApproval # None =>
          /\ Exists(approval[x.task])
          /\ \/ x.newApproval.status = approval[x.task].status
             \/ /\ x.op = "resolve" /\ x.newTask # None /\ approval[x.task].status = "pending"
                /\ x.newApproval.status \in {"approved", "rejected"}

\* With its turn it knows the decision and the executions of the task: what it
\* will write over the task and append to the log is still so when it commits.
OutcomeFits(x) ==
    /\ x.newTask # None =>
          /\ x.op \in {"resolve", "execute"} /\ Exists(approval[x.task])
          /\ x.newTask = IF x.newExecution # None THEN TaskAfterExecution(x.newExecution.outcome)
                         ELSE IF Executed(x.task) THEN task[x.task].status
                         ELSE Mirrored(IF x.newApproval # None THEN x.newApproval.status
                                       ELSE approval[x.task].status)
    /\ x.newExecution # None =>
          /\ x.op = "execute" /\ x.newTask # None
          /\ x.newExecution.task = x.task /\ approval[x.task].status = "approved"
          /\ x.newExecution.run # None => run[x.newExecution.run].task = x.task
          /\ task[x.task].tool = "effect" =>
                \A i \in DOMAIN executions :
                    executions[i].task = x.task => executions[i].run # x.newExecution.run

\* A worker always has its run to write back, and it decides nothing.
WorksOn(x) == x.at # "idle" => x.newRun # None /\ x.op \in {"tick", "execute"}

GovernedInvariant ==
    /\ TypeOK
    /\ RowsLinked
    /\ OneHolder
    /\ \A p \in Processes : ReadsStand(tx[p]) /\ WritesFit(tx[p]) /\ OutcomeFits(tx[p])
    /\ \A w \in Workers : WorksOn(tx[w])
    /\ ExecutionWasApproved /\ KeyedOnce /\ TaskFollowsItsRecords /\ ExecutionBelongsToItsRun
=============================================================================
