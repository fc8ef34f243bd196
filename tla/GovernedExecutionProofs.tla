----------------------- MODULE GovernedExecutionProofs -----------------------
(***************************************************************************)
(* Approvals, executions and the tasks that mirror them, for every number  *)
(* of tasks, runs, request handlers and workers, whatever the ticks make   *)
(* of the runs meanwhile.                                                  *)
(***************************************************************************)
EXTENDS GovernedExecution, SequenceTheorems, TLAPS

(* The types, split into facts the steps below cite.                         *)
LEMMA Types ==
    ASSUME GovernedInvariant
    PROVE  /\ task \in [Tasks -> [status : TaskStatuses \cup {"absent"}, tool : Tools \cup {None}]]
           /\ approval \in [Tasks -> ApprovalRow] /\ run \in [Runs -> RunRow]
           /\ executions \in Seq(Execution) /\ tx \in [Processes -> Transaction]
           /\ calls \in 0 .. MaxCalls
           /\ \A r \in Runs : run[r] \in RunRow
           /\ \A t \in Tasks : approval[t] \in ApprovalRow
           /\ \A p \in Processes : tx[p] \in Transaction
BY DEF GovernedInvariant, TypeOK

(* The statuses of a run that is there. *)
Statuses == {"absent", "failed"} \cup Pauseable \cup Cancellable \cup Finished

LEMMA StatusNames ==
    /\ {"queued", "running", "waiting_approval", "waiting_user", "paused", "failed",
         "done", "cancelled"} \subseteq Statuses
    /\ RunRow = [status : Statuses, task : Tasks \cup {None}, cursor : 0 .. TargetSteps,
                 ticks : Nat, waits : BOOLEAN, asked : BOOLEAN, retries : 0 .. RetryCap,
                 failure : FailureClasses \cup {"none"}]
BY DEF Statuses, RunRow, Pauseable, Cancellable, Finished

(* What every transition makes of the row of a run.                          *)
LEMMA RunRows ==
    ASSUME NEW row \in RunRow, Exists(row)
    PROVE  /\ \A b \in BOOLEAN : Ticked(row, b) \in RunRow /\ Exists(Ticked(row, b))
                                 /\ Ticked(row, b).task = row.task
           /\ Paused(row) \in RunRow /\ Exists(Paused(row)) /\ Paused(row).task = row.task
           /\ Cancelled(row) \in RunRow /\ Exists(Cancelled(row))
           /\ Cancelled(row).task = row.task
           /\ Acquired(row) \in RunRow /\ Exists(Acquired(row)) /\ Acquired(row).task = row.task
           /\ \A class \in FailureClasses :
                 /\ Failed(row, class) \in RunRow /\ Exists(Failed(row, class))
                 /\ Failed(row, class).task = row.task
           /\ \A d : /\ AfterResolution(row, d) \in RunRow /\ Exists(AfterResolution(row, d))
                     /\ AfterResolution(row, d).task = row.task
           /\ \A o : /\ AfterExecution(row, o) \in RunRow /\ Exists(AfterExecution(row, o))
                     /\ AfterExecution(row, o).task = row.task
           /\ \A b : MayResume(row, b) => /\ Resumed(row) \in RunRow /\ Exists(Resumed(row))
                                          /\ Resumed(row).task = row.task
<1>. USE TaskRunAssumption, StatusNames
<1>0. /\ row.ticks \in Nat /\ row.ticks + 1 \in Nat /\ row.cursor \in Nat
      /\ row.cursor < TargetSteps => row.cursor + 1 \in 0 .. TargetSteps
      /\ row.retries < RetryCap => row.retries + 1 \in 0 .. RetryCap
      /\ row.retries \in 0 .. RetryCap
  OBVIOUS
<1>1. ASSUME NEW b \in BOOLEAN
      PROVE  Ticked(row, b) \in RunRow /\ Exists(Ticked(row, b)) /\ Ticked(row, b).task = row.task
  <2>1. CASE b
    <3>1. Ticked(row, b) = [row EXCEPT !.status = "waiting_approval", !.waits = TRUE,
                                       !.asked = TRUE, !.ticks = row.ticks + 1,
                                       !.failure = "none"]
      BY <2>1 DEF Ticked
    <3>. QED
      BY <1>0, <3>1 DEF Exists
  <2>2. CASE ~b /\ row.cursor >= TargetSteps
    <3>1. Ticked(row, b) = [row EXCEPT !.status = "done", !.failure = "none"]
      BY <1>0, <2>2 DEF Ticked
    <3>. QED
      BY <1>0, <3>1 DEF Exists
  <2>3. CASE ~b /\ row.cursor < TargetSteps /\ row.ticks >= MaxTicks
    <3>1. Ticked(row, b) = [row EXCEPT !.status = "failed", !.failure = "budget"]
      BY <1>0, <2>3 DEF Ticked
    <3>. QED
      BY <1>0, <3>1 DEF Exists, FailureClasses
  <2>4. CASE ~b /\ row.cursor < TargetSteps /\ row.ticks < MaxTicks /\ row.waits
    <3>1. Ticked(row, b) = [row EXCEPT !.status = "waiting_user", !.ticks = row.ticks + 1,
                                       !.failure = "none"]
      BY <1>0, <2>4 DEF Ticked
    <3>. QED
      BY <1>0, <3>1 DEF Exists
  <2>5. CASE ~b /\ row.cursor < TargetSteps /\ row.ticks < MaxTicks /\ ~row.waits
    <3>1. Ticked(row, b) = Advanced(row)
      BY <1>0, <2>5 DEF Ticked
    <3>. DEFINE s == IF row.cursor + 1 >= TargetSteps THEN "done" ELSE "running"
                c == row.cursor + 1
                n == row.ticks + 1
    <3>2. Advanced(row) = [row EXCEPT !.status = s, !.cursor = c, !.ticks = n,
                                      !.failure = "none"]
      BY DEF Advanced
    <3>3. s \in Statuses /\ s # "absent" /\ c \in 0 .. TargetSteps /\ n \in Nat
      BY <1>0, <2>5
    <3>. HIDE DEF s, c, n
    <3>4. [row EXCEPT !.status = s, !.cursor = c, !.ticks = n, !.failure = "none"] \in RunRow
      BY <3>3
    <3>. QED
      BY <3>1, <3>2, <3>3, <3>4 DEF Exists
  <2>. QED
    BY <1>0, <2>1, <2>2, <2>3, <2>4, <2>5
<1>2. /\ Paused(row) \in RunRow /\ Exists(Paused(row)) /\ Paused(row).task = row.task
      /\ Cancelled(row) \in RunRow /\ Exists(Cancelled(row)) /\ Cancelled(row).task = row.task
      /\ Acquired(row) \in RunRow /\ Exists(Acquired(row)) /\ Acquired(row).task = row.task
  BY DEF Paused, Cancelled, Acquired, Exists
<1>3. ASSUME NEW class \in FailureClasses
      PROVE  /\ Failed(row, class) \in RunRow /\ Exists(Failed(row, class))
             /\ Failed(row, class).task = row.task
  BY DEF Failed, Exists
<1>4. ASSUME NEW d
      PROVE  /\ AfterResolution(row, d) \in RunRow /\ Exists(AfterResolution(row, d))
             /\ AfterResolution(row, d).task = row.task
  BY DEF AfterResolution, Exists, FailureClasses
<1>5. ASSUME NEW o
      PROVE  /\ AfterExecution(row, o) \in RunRow /\ Exists(AfterExecution(row, o))
             /\ AfterExecution(row, o).task = row.task
  BY DEF AfterExecution, Exists, FailureClasses
<1>6. ASSUME NEW b, MayResume(row, b)
      PROVE  Resumed(row) \in RunRow /\ Exists(Resumed(row)) /\ Resumed(row).task = row.task
  <2>1. PICK s \in {"queued", "running"}, n \in 0 .. RetryCap :
           Resumed(row) = [row EXCEPT !.status = s, !.retries = n, !.waits = FALSE,
                                      !.asked = FALSE, !.failure = "none"]
    BY <1>0, <1>6 DEF MayResume, Resumed
  <2>2. s \in Statuses /\ s # "absent"
    OBVIOUS
  <2>. QED
    BY <2>1, <2>2 DEF Exists
<1>. QED
  BY <1>1, <1>2, <1>3, <1>4, <1>5, <1>6

-----------------------------------------------------------------------------
(* Steps that only change a transaction. *)

(* What x may do next of what others have locked.                            *)
Unlocked(p, x) ==
    /\ \A t \in Tasks : x.op \in {"resolve", "execute"} /\ x.at \in {"decide", "write"}
                        /\ x.task = t =>
          HoldsTurn(p, t) \/ \A q \in Processes \ {p} : ~HoldsTurn(q, t)
    /\ x.newApproval # None => \A q \in Processes \ {p} : ~HoldsApproval(q, x.task)

LEMMA TxStep ==
    ASSUME GovernedInvariant, NEW p \in Processes, NEW x \in Transaction,
           tx' = [tx EXCEPT ![p] = x], UNCHANGED <<task, approval, run, executions>>,
           calls' \in 0 .. MaxCalls,
           ReadsStand(x), WritesFit(x), OutcomeFits(x), Unlocked(p, x),
           p \in Workers => WorksOn(x)
    PROVE  GovernedInvariant'
<1>1. tx \in [Processes -> Transaction]
  BY Types
<1>2. tx'[p] = x /\ \A q \in Processes \ {p} : tx'[q] = tx[q]
  BY <1>1
<1>3. TypeOK'
  BY <1>1 DEF GovernedInvariant, TypeOK
<1>4. RowsLinked'
  BY DEF GovernedInvariant, RowsLinked, Executed, Exists
<1>5. OneHolder'
  <2>1. ASSUME NEW q \in Processes, NEW r \in Processes, NEW t \in Tasks,
               HoldsTurn(q, t)', HoldsTurn(r, t)'
        PROVE  q = r
    <3>1. \A s \in Processes \ {p} : HoldsTurn(s, t)' <=> HoldsTurn(s, t)
      BY <1>2 DEF HoldsTurn
    <3>2. HoldsTurn(p, t)' => HoldsTurn(p, t) \/ \A s \in Processes \ {p} : ~HoldsTurn(s, t)
      BY <1>2 DEF HoldsTurn, Unlocked
    <3>. QED
      BY <2>1, <3>1, <3>2 DEF GovernedInvariant, OneHolder
  <2>2. ASSUME NEW q \in Processes, NEW r \in Processes, NEW t \in Tasks,
               HoldsApproval(q, t)', HoldsApproval(r, t)'
        PROVE  q = r
    <3>1. \A s \in Processes \ {p} : HoldsApproval(s, t)' <=> HoldsApproval(s, t)
      BY <1>2 DEF HoldsApproval
    <3>2. HoldsApproval(p, t)' => \A s \in Processes \ {p} : ~HoldsApproval(s, t)
      BY <1>2 DEF HoldsApproval, Unlocked
    <3>. QED
      BY <2>2, <3>1, <3>2 DEF GovernedInvariant, OneHolder
  <2>. QED
    BY <2>1, <2>2 DEF OneHolder
<1>6. ASSUME NEW q \in Processes
      PROVE  ReadsStand(tx[q])' /\ WritesFit(tx[q])' /\ OutcomeFits(tx[q])'
  <2>1. PICK y \in Transaction : /\ y = tx'[q]
                                 /\ ReadsStand(y) /\ WritesFit(y) /\ OutcomeFits(y)
    BY <1>1, <1>2, Types DEF GovernedInvariant
  <2>2. ReadsStand(y)' /\ WritesFit(y)' /\ OutcomeFits(y)'
    BY <2>1 DEF ReadsStand, WritesFit, OutcomeFits, Exists, Executed
  <2>. QED
    BY <2>1, <2>2 DEF ReadsStand, WritesFit, OutcomeFits, Exists, Executed
<1>7. \A w \in Workers : WorksOn(tx[w])'
  BY <1>2 DEF GovernedInvariant, Processes, WorksOn
<1>8. ExecutionWasApproved' /\ KeyedOnce' /\ TaskFollowsItsRecords' /\ ExecutionBelongsToItsRun'
  BY DEF GovernedInvariant, ExecutionWasApproved, KeyedOnce, TaskFollowsItsRecords,
         ExecutionBelongsToItsRun, Executed, IsLast, Exists
<1>. QED
  BY <1>3, <1>4, <1>5, <1>6, <1>7, <1>8 DEF GovernedInvariant

(* No transaction. *)
LEMMA NoTxFits ==
    /\ NoTx \in Transaction /\ NoTx.at = "idle" /\ NoTx.op = "none" /\ NoTx.newRun = None
    /\ NoTx.newApproval = None /\ NoTx.newTask = None /\ NoTx.newExecution = None
    /\ ReadsStand(NoTx) /\ WritesFit(NoTx) /\ OutcomeFits(NoTx)
<1>1. NoTx \in Transaction
  BY DEF NoTx, Transaction, NoApproval, ApprovalRow
<1>2. /\ NoTx.at = "idle" /\ NoTx.op = "none" /\ NoTx.newRun = None
      /\ NoTx.newApproval = None /\ NoTx.newTask = None /\ NoTx.newExecution = None
  BY DEF NoTx
<1>. QED
  BY <1>1, <1>2 DEF ReadsStand, WritesFit, OutcomeFits

(* A run that is there belongs to a task.                                    *)
LEMMA RunOfTask ==
    ASSUME GovernedInvariant, NEW r \in Runs, Exists(run[r])
    PROVE  run[r].task \in Tasks /\ run[r] \in RunRow
BY Types DEF GovernedInvariant, RowsLinked

(* A transaction that opens and will write row over run r.                   *)
LEMMA RunTx ==
    ASSUME GovernedInvariant, NEW r \in Runs, Exists(run[r]),
           NEW x \in Transaction, x.task = run[r].task, x.run = r,
           x.newRun # None, Exists(x.newRun), x.newRun.task = run[r].task,
           x.at \in {"write", "link"}, x.op \in {"tick", "change"},
           x.at = "link" => x.op = "tick" /\ Exists(approval[x.task]),
           x.newApproval = None, x.newTask = None, x.newExecution = None
    PROVE  ReadsStand(x) /\ WritesFit(x) /\ OutcomeFits(x) /\ \A p \in Processes : Unlocked(p, x)
<1>1. x.task \in Tasks
  BY RunOfTask
<1>. QED
  BY <1>1 DEF ReadsStand, WritesFit, OutcomeFits, Unlocked

LEMMA TickTx ==
    ASSUME GovernedInvariant, NEW r \in Runs, Exists(run[r]),
           NEW row \in RunRow, Exists(row), row.task = run[r].task,
           NEW x, x = TickOf(run[r].task, r, row)
    PROVE  /\ x \in Transaction /\ x.newRun # None /\ x.op = "tick"
           /\ ReadsStand(x) /\ WritesFit(x) /\ OutcomeFits(x)
           /\ \A p \in Processes : Unlocked(p, x)
<1>. DEFINE t == run[r].task
            new == Ticked(row, PendingApproval(t))
            at == IF PendingApproval(t) THEN "link" ELSE "write"
<1>1. t \in Tasks
  BY RunOfTask
<1>2. PendingApproval(t) \in BOOLEAN
  BY DEF PendingApproval
<1>3. new \in RunRow /\ Exists(new) /\ new.task = t
  BY <1>2, RunRows
<1>4. /\ at \in {"link", "write"}
      /\ at = "link" => Exists(approval[t])
  BY DEF PendingApproval, Exists
<1>5. x = [NoTx EXCEPT !.at = at, !.op = "tick", !.task = t, !.run = r, !.newRun = new]
  BY DEF TickOf
<1>. HIDE DEF t, new, at
<1>6. /\ x \in Transaction /\ x.at = at /\ x.op = "tick" /\ x.task = t /\ x.run = r
      /\ x.newRun = new /\ x.newApproval = None /\ x.newTask = None /\ x.newExecution = None
  <2>1. at \in {"idle", "lock", "link", "decide", "write"} /\ new \in RunRow \cup {None}
    BY <1>3, <1>4
  <2>. QED
    BY <1>1, <1>5, <2>1, NoTxFits DEF Transaction
<1>7. x.newRun # None
  BY <1>3, <1>6, GovernedAssumption
<1>. QED
  BY <1>3, <1>4, <1>6, <1>7, RunTx DEF t

(* A transaction that opens to execute the approved request of a task.       *)
LEMMA ExecuteTx ==
    ASSUME GovernedInvariant, NEW t \in Tasks, Exists(approval[t]), NEW r \in Runs \cup {None},
           NEW row \in RunRow \cup {None},
           row # None => r \in Runs /\ Exists(run[r]) /\ Exists(row) /\ row.task = run[r].task,
           NEW x, x = ExecuteOf(t, r, row)
    PROVE  /\ x \in Transaction /\ x.newRun = row /\ x.op = "execute"
           /\ ReadsStand(x) /\ WritesFit(x) /\ OutcomeFits(x)
           /\ \A p \in Processes : Unlocked(p, x)
<1>0. approval[t] \in ApprovalRow
  BY Types
<1>1. /\ x \in Transaction /\ x.at = "lock" /\ x.op = "execute" /\ x.task = t /\ x.run = r
      /\ x.sees = approval[t] /\ x.newRun = row /\ x.newApproval = None /\ x.newTask = None
      /\ x.newExecution = None
  BY <1>0 DEF ExecuteOf, NoTx, Transaction
<1>. QED
  BY <1>1 DEF ReadsStand, WritesFit, OutcomeFits, Unlocked

(* A request handler opens a transaction.                                    *)
LEMMA OpenStep ==
    ASSUME GovernedInvariant, NEW c \in Callers, NEW x \in Transaction, Open(c, x),
           ReadsStand(x), WritesFit(x), OutcomeFits(x), Unlocked(c, x)
    PROVE  GovernedInvariant'
<1>1. c \in Processes /\ c \notin Workers
  BY GovernedAssumption DEF Processes
<1>2. calls' \in 0 .. MaxCalls
  <2>1. calls \in 0 .. MaxCalls /\ calls < MaxCalls /\ calls' = calls + 1 /\ MaxCalls \in Nat
    BY Types, GovernedAssumption DEF Open
  <2>. QED
    BY <2>1
<1>. QED
  BY <1>1, <1>2, TxStep DEF Open

LEMMA CallerReads ==
    ASSUME GovernedInvariant, NEW c \in Callers,
           \/ \E r \in Runs : TickRead(c, r) \/ PauseRead(c, r) \/ CancelRead(c, r)
                              \/ ResumeRead(c, r)
           \/ \E t \in Tasks :
                 \/ \E verdict \in {"approved", "rejected"} : ResolveRead(c, t, verdict)
                 \/ \E r \in Runs \cup {None} : ExecuteRead(c, t, r)
    PROVE  GovernedInvariant'
<1>0. c \in Processes
  BY DEF Processes
<1>1. ASSUME NEW r \in Runs, TickRead(c, r) PROVE GovernedInvariant'
  <2>1. Exists(run[r])
    BY <1>1 DEF TickRead, Exists, Runnable
  <2>2. PICK x : x = TickOf(run[r].task, r, run[r]) /\ Open(c, x)
    BY <1>1 DEF TickRead
  <2>3. /\ x \in Transaction /\ ReadsStand(x) /\ WritesFit(x) /\ OutcomeFits(x)
        /\ Unlocked(c, x)
    BY <1>0, <2>1, <2>2, TickTx, RunOfTask
  <2>. QED
    BY <2>2, <2>3, OpenStep
<1>2. ASSUME NEW r \in Runs, NEW row \in RunRow, Exists(run[r]), Exists(row),
             row.task = run[r].task, Open(c, Overwrite(r, row))
      PROVE  GovernedInvariant'
  <2>1. PICK x : x = Overwrite(r, row)
    OBVIOUS
  <2>2. /\ x \in Transaction /\ x.at = "write" /\ x.op = "change" /\ x.task = run[r].task
        /\ x.run = r /\ x.newRun = row /\ x.newApproval = None /\ x.newTask = None
        /\ x.newExecution = None
    BY <1>2, <2>1, RunOfTask DEF Overwrite, NoTx, Transaction, NoApproval, ApprovalRow
  <2>3. x.newRun # None
    BY <2>2, GovernedAssumption
  <2>4. ReadsStand(x) /\ WritesFit(x) /\ OutcomeFits(x) /\ Unlocked(c, x)
    BY <1>0, <1>2, <2>2, <2>3, RunTx
  <2>. QED
    BY <1>2, <2>1, <2>2, <2>4, OpenStep
<1>3. ASSUME NEW r \in Runs, PauseRead(c, r) \/ CancelRead(c, r) \/ ResumeRead(c, r)
      PROVE  GovernedInvariant'
  <2>1. Exists(run[r]) /\ run[r] \in RunRow
    BY <1>3, Types DEF PauseRead, CancelRead, ResumeRead, Exists, Pauseable, Cancellable
  <2>2. CASE PauseRead(c, r)
    BY <1>2, <2>1, <2>2, RunRows DEF PauseRead
  <2>3. CASE CancelRead(c, r)
    BY <1>2, <2>1, <2>3, RunRows DEF CancelRead
  <2>4. CASE ResumeRead(c, r)
    <3>1. /\ Resumed(run[r]) \in RunRow /\ Exists(Resumed(run[r]))
          /\ Resumed(run[r]).task = run[r].task
      BY <2>1, <2>4, RunRows DEF ResumeRead
    <3>. QED
      BY <1>2, <2>1, <2>4, <3>1 DEF ResumeRead
  <2>. QED
    BY <1>3, <2>2, <2>3, <2>4
<1>4. ASSUME NEW t \in Tasks, NEW verdict \in {"approved", "rejected"}, ResolveRead(c, t, verdict)
      PROVE  GovernedInvariant'
  <2>1. PICK x : /\ Open(c, x)
                 /\ x = [NoTx EXCEPT !.at = "lock", !.op = "resolve", !.task = t,
                                     !.verdict = verdict, !.sees = approval[t]]
    BY <1>4 DEF ResolveRead
  <2>2. /\ x \in Transaction /\ x.at = "lock" /\ x.op = "resolve" /\ x.task = t
        /\ x.sees = approval[t] /\ x.newRun = None /\ x.newApproval = None
        /\ x.newTask = None /\ x.newExecution = None /\ x.verdict = verdict
    BY <2>1, Types DEF NoTx, Transaction
  <2>3. ReadsStand(x) /\ WritesFit(x) /\ OutcomeFits(x) /\ Unlocked(c, x)
    BY <1>4, <2>2 DEF ResolveRead, ReadsStand, WritesFit, OutcomeFits, Unlocked
  <2>. QED
    BY <2>1, <2>2, <2>3, OpenStep
<1>5. ASSUME NEW t \in Tasks, NEW r \in Runs \cup {None}, ExecuteRead(c, t, r)
      PROVE  GovernedInvariant'
  <2>1. PICK x : x = ExecuteOf(t, r, None) /\ Open(c, x) /\ Exists(approval[t])
    BY <1>5 DEF ExecuteRead
  <2>2. /\ x \in Transaction /\ ReadsStand(x) /\ WritesFit(x) /\ OutcomeFits(x)
        /\ Unlocked(c, x)
    BY <1>0, <2>1, ExecuteTx
  <2>. QED
    BY <2>1, <2>2, OpenStep
<1>. QED
  BY <1>1, <1>3, <1>4, <1>5

LEMMA AcquireStep ==
    ASSUME GovernedInvariant, NEW w \in Workers, NEW r \in Runs, AcquireRun(w, r)
    PROVE  GovernedInvariant'
<1>0. /\ w \in Processes /\ Exists(run[r]) /\ run[r] \in RunRow /\ run[r].task \in Tasks
      /\ UNCHANGED <<task, approval, run, executions, calls>>
  BY RunOfTask DEF AcquireRun, Exists, Runnable, Processes
<1>. DEFINE t == run[r].task
            row == Acquired(run[r])
<1>1. row \in RunRow /\ Exists(row) /\ row.task = run[r].task
  BY <1>0, RunRows
<1>2. row # None
  BY <1>1, GovernedAssumption
<1>3. PICK x : /\ tx' = [tx EXCEPT ![w] = x]
               /\ \/ x = ExecuteOf(t, r, row) /\ approval[t].status = "approved"
                  \/ x = TickOf(t, r, row)
  BY DEF AcquireRun
<1>. HIDE DEF row
<1>4. /\ x \in Transaction /\ WorksOn(x)
      /\ ReadsStand(x) /\ WritesFit(x) /\ OutcomeFits(x) /\ Unlocked(w, x)
  <2>1. CASE x = ExecuteOf(t, r, row) /\ approval[t].status = "approved"
    BY <1>0, <1>1, <1>2, <2>1, ExecuteTx DEF Exists, WorksOn
  <2>2. CASE x = TickOf(t, r, row)
    BY <1>0, <1>1, <2>2, TickTx DEF WorksOn
  <2>. QED
    BY <1>3, <2>1, <2>2
<1>. QED
  BY <1>0, <1>3, <1>4, TxStep, Types

-----------------------------------------------------------------------------
(* Steps of an open transaction before its last. *)

(* What a transaction that is not blocked may count on.                      *)
LEMMA NotBlocked ==
    ASSUME NEW p \in Processes, Blockers(p) = {}
    PROVE  /\ tx[p].at = "lock" => \A q \in Processes \ {p} : ~HoldsTurn(q, tx[p].task)
           /\ \/ tx[p].at = "link"
              \/ tx[p].at = "decide" /\ tx[p].op = "resolve" /\ tx[p].sees.status = "pending"
              \/ tx[p].at = "decide" /\ tx[p].op = "execute" /\ Links(tx[p])
              => \A q \in Processes \ {p} : ~HoldsApproval(q, tx[p].task)
<1>1. CASE tx[p].at = "lock"
  BY <1>1 DEF Blockers
<1>2. CASE tx[p].at = "link"
  BY <1>2 DEF Blockers
<1>3. CASE tx[p].at = "decide" /\ tx[p].op = "resolve" /\ tx[p].sees.status = "pending"
  BY <1>3 DEF Blockers
<1>4. CASE tx[p].at = "decide" /\ tx[p].op = "execute" /\ Links(tx[p])
  BY <1>4 DEF Blockers
<1>. QED
  BY <1>1, <1>2, <1>3, <1>4

LEMMA ProceedStep ==
    ASSUME GovernedInvariant, NEW p \in Processes, NEW x \in Transaction, Proceed(p, x),
           ReadsStand(x), WritesFit(x), OutcomeFits(x), Unlocked(p, x),
           tx[p].at # "idle", x.op = tx[p].op,
           p \in Workers /\ tx[p].newRun # None => x.newRun # None
    PROVE  GovernedInvariant'
<1>1. p \in Workers => WorksOn(x)
  BY DEF GovernedInvariant, WorksOn
<1>. QED
  BY <1>1, TxStep, Types DEF Proceed

LEMMA TakeTurnStep ==
    ASSUME GovernedInvariant, NEW p \in Processes, TakeTurn(p)
    PROVE  GovernedInvariant'
<1>1. PICK x : x = [tx[p] EXCEPT !.at = "decide"] /\ Proceed(p, x) /\ tx[p].at = "lock"
  BY DEF TakeTurn
<1>2. tx[p] \in Transaction /\ ReadsStand(tx[p]) /\ WritesFit(tx[p]) /\ OutcomeFits(tx[p])
  BY Types DEF GovernedInvariant
<1>3. /\ x \in Transaction /\ x.at = "decide" /\ x.op = tx[p].op /\ x.task = tx[p].task
      /\ x.run = tx[p].run /\ x.sees = tx[p].sees /\ x.newRun = tx[p].newRun
      /\ x.verdict = tx[p].verdict
      /\ x.newApproval = None /\ x.newTask = None /\ x.newExecution = None
  BY <1>1, <1>2 DEF Transaction, ReadsStand
<1>4. ReadsStand(x) /\ WritesFit(x) /\ OutcomeFits(x)
  BY <1>1, <1>2, <1>3 DEF ReadsStand, WritesFit, OutcomeFits
<1>5. Unlocked(p, x)
  BY <1>1, <1>3, NotBlocked DEF Unlocked, Proceed
<1>. QED
  BY <1>1, <1>3, <1>4, <1>5, ProceedStep

LEMMA LinkTickStep ==
    ASSUME GovernedInvariant, NEW p \in Processes, LinkTick(p)
    PROVE  GovernedInvariant'
<1>. DEFINE t == tx[p].task
            new == [approval[t] EXCEPT !.run = tx[p].run]
<1>1. PICK x : /\ x = [tx[p] EXCEPT !.at = "write", !.newApproval = new]
               /\ Proceed(p, x) /\ tx[p].at = "link"
  BY DEF LinkTick
<1>2. tx[p] \in Transaction /\ ReadsStand(tx[p]) /\ WritesFit(tx[p]) /\ OutcomeFits(tx[p])
  BY Types DEF GovernedInvariant
<1>3. t \in Tasks /\ tx[p].run \in Runs /\ Exists(approval[t]) /\ tx[p].op = "tick"
  BY <1>1, <1>2 DEF ReadsStand
<1>4. new \in ApprovalRow /\ new.status = approval[t].status
  BY <1>3, Types DEF ApprovalRow
<1>. HIDE DEF new
<1>5. /\ x \in Transaction /\ x.at = "write" /\ x.op = "tick" /\ x.task = t
      /\ x.run = tx[p].run /\ x.newRun = tx[p].newRun
      /\ x.newApproval = new /\ x.newTask = None /\ x.newExecution = None
  BY <1>1, <1>2, <1>3, <1>4 DEF Transaction, ReadsStand
<1>6. ReadsStand(x) /\ WritesFit(x) /\ OutcomeFits(x)
  BY <1>2, <1>3, <1>4, <1>5 DEF ReadsStand, WritesFit, OutcomeFits
<1>7. Unlocked(p, x)
  BY <1>1, <1>3, <1>5, NotBlocked DEF Unlocked, Proceed
<1>. QED
  BY <1>1, <1>3, <1>5, <1>6, <1>7, ProceedStep

(* A deadlocked transaction is undone.                                       *)
LEMMA DeadlockStep ==
    ASSUME GovernedInvariant, NEW p \in Processes, DeadlockAbort(p)
    PROVE  GovernedInvariant'
<1>1. Unlocked(p, NoTx)
  BY NoTxFits DEF Unlocked
<1>. QED
  BY <1>1, NoTxFits, TxStep, Types DEF DeadlockAbort, WorksOn

(* While it is not executed, a task mirrors its approval.                    *)
LEMMA MirrorsApproval ==
    ASSUME GovernedInvariant, NEW t \in Tasks, Exists(approval[t])
    PROVE  /\ approval[t].status \in {"pending", "approved", "rejected"}
           /\ Executed(t) => task[t].status \in {"executed", "blocked"}
           /\ ~Executed(t) => task[t].status = Mirrored(approval[t].status)
                              /\ task[t].status \notin {"executed", "blocked"}
<1>1. approval[t].status \in {"pending", "approved", "rejected"}
  BY Types DEF Exists, ApprovalRow
<1>2. Executed(t) => task[t].status \in {"executed", "blocked"}
  BY DEF GovernedInvariant, RowsLinked
<1>3. ~Executed(t) => task[t].status = Mirrored(approval[t].status)
  BY DEF GovernedInvariant, TaskFollowsItsRecords
<1>4. Mirrored(approval[t].status) \notin {"executed", "blocked"}
  BY <1>1 DEF Mirrored
<1>. QED
  BY <1>1, <1>2, <1>3, <1>4

(* A transaction that has decided.                                           *)
LEMMA DecidedTx ==
    ASSUME NEW x \in Transaction
    PROVE  /\ Decided(x) \in Transaction
           /\ Decided(x).at = "write" /\ Decided(x).op = x.op /\ Decided(x).task = x.task
           /\ Decided(x).run = x.run /\ Decided(x).newRun = x.newRun
           /\ Decided(x).newApproval = x.newApproval /\ Decided(x).newTask = x.newTask
           /\ Decided(x).newExecution = x.newExecution
<1>1. NoApproval \in ApprovalRow
  BY DEF NoApproval, ApprovalRow
<1>2. Decided(x) \in Transaction
  BY <1>1 DEF Decided, Transaction
<1>. QED
  BY <1>2 DEF Decided, Transaction

(* What it will write, in the forms the decisions take.                      *)
LEMMA Rewritten ==
    ASSUME NEW d \in Transaction, NEW r \in Runs \cup {None}, NEW a \in ApprovalRow \cup {None},
           NEW k \in TaskStatuses \cup {None}, NEW n \in RunRow \cup {None},
           NEW e \in Execution \cup {None}
    PROVE  /\ [d EXCEPT !.run = r, !.newApproval = a, !.newTask = k, !.newRun = n] \in Transaction
           /\ [d EXCEPT !.newApproval = a, !.newRun = n] \in Transaction
           /\ [d EXCEPT !.run = r, !.newApproval = a, !.newRun = n] \in Transaction
           /\ [d EXCEPT !.run = r, !.newApproval = a, !.newExecution = e, !.newTask = k,
                        !.newRun = n] \in Transaction
<1>1. [d EXCEPT !.newApproval = a, !.newRun = n] \in Transaction
  BY DEF Transaction
<1>2. [d EXCEPT !.run = r, !.newApproval = a, !.newRun = n] \in Transaction
  BY DEF Transaction
<1>3. [d EXCEPT !.run = r, !.newApproval = a, !.newTask = k, !.newRun = n] \in Transaction
  BY DEF Transaction
<1>4. [d EXCEPT !.run = r, !.newApproval = a, !.newExecution = e, !.newTask = k,
                        !.newRun = n] \in Transaction
  BY DEF Transaction
<1>. QED
  BY <1>1, <1>2, <1>3, <1>4

LEMMA ResolveDecideStep ==
    ASSUME GovernedInvariant, NEW p \in Processes, ResolveDecide(p)
    PROVE  GovernedInvariant'
<1>. DEFINE x == tx[p]
            t == tx[p].task
            now == AfterUpdate(x)
            wakes == now.run # None /\ run[now.run].status = "waiting_approval"
            newApproval == IF Resolves(x) THEN now ELSE None
            newTask == TaskAfterDecision(t, now.status)
            newRun == IF wakes THEN AfterResolution(run[now.run], now.status) ELSE None
<1>1. /\ x \in Transaction /\ ReadsStand(x) /\ x.at = "decide" /\ x.op = "resolve"
      /\ t \in Tasks /\ Exists(approval[t]) /\ x.verdict \in {"approved", "rejected"}
      /\ x.sees.status \in {"pending", approval[t].status} /\ x.sees \in ApprovalRow
      /\ x.newExecution = None
  BY Types DEF ResolveDecide, GovernedInvariant, ReadsStand, Transaction
<1>2. /\ now \in ApprovalRow /\ now.status \in {"pending", "approved", "rejected"}
      /\ IF Resolves(x) THEN approval[t].status = "pending" /\ now.status \in {"approved", "rejected"}
         ELSE now.status = approval[t].status
  <2>1. approval[t] \in ApprovalRow /\ approval[t].status \in {"pending", "approved", "rejected"}
    BY <1>1, Types, MirrorsApproval
  <2>2. CASE Resolves(x)
    <3>1. now = [approval[t] EXCEPT !.status = x.verdict]
      BY <2>2 DEF AfterUpdate
    <3>. QED
      BY <1>1, <2>1, <2>2, <3>1 DEF Resolves, ApprovalRow
  <2>3. CASE ~Resolves(x) /\ x.sees.status = "pending"
    <3>1. now = approval[t]
      BY <2>3 DEF AfterUpdate
    <3>. QED
      BY <2>1, <2>3, <3>1
  <2>4. CASE ~Resolves(x) /\ x.sees.status # "pending"
    <3>1. now = x.sees
      BY <2>4 DEF AfterUpdate, Resolves
    <3>. QED
      BY <1>1, <2>1, <2>4, <3>1
  <2>. QED
    BY <2>2, <2>3, <2>4
<1>3. PICK y : /\ y = [Decided(x) EXCEPT !.run = now.run, !.newApproval = newApproval,
                                         !.newTask = newTask, !.newRun = newRun]
               /\ Proceed(p, y)
  BY DEF ResolveDecide
<1>. HIDE DEF now
<1>4. newApproval \in ApprovalRow \cup {None} /\ now # None
  BY <1>2, GovernedAssumption
<1>5. /\ newTask \in TaskStatuses /\ newTask # None
      /\ newTask = IF Executed(t) THEN task[t].status ELSE Mirrored(now.status)
  <2>1. newTask = IF Executed(t) THEN task[t].status ELSE Mirrored(now.status)
    BY <1>1, MirrorsApproval DEF TaskAfterDecision
  <2>2. Mirrored(now.status) \in TaskStatuses
    BY <1>2 DEF Mirrored, TaskStatuses
  <2>3. Executed(t) => task[t].status \in TaskStatuses
    BY <1>1, MirrorsApproval DEF TaskStatuses
  <2>. QED
    BY <2>1, <2>2, <2>3, GovernedAssumption
<1>6. /\ newRun \in RunRow \cup {None}
      /\ newRun # None => /\ now.run \in Runs /\ Exists(run[now.run])
                          /\ Exists(newRun) /\ newRun.task = run[now.run].task
  <2>1. CASE wakes
    <3>1. now.run \in Runs /\ Exists(run[now.run]) /\ run[now.run] \in RunRow
      BY <1>2, <2>1, Types DEF ApprovalRow, Exists
    <3>. QED
      BY <2>1, <3>1, RunRows
  <2>2. CASE ~wakes
    BY <2>2
  <2>. QED
    BY <2>1, <2>2
<1>7. now.run \in Runs \cup {None}
  BY <1>2 DEF ApprovalRow
<1>. HIDE DEF newApproval, newTask, newRun, x
<1>8. /\ y \in Transaction /\ y.at = "write" /\ y.op = "resolve" /\ y.task = x.task
      /\ y.run = now.run /\ y.newRun = newRun /\ y.newApproval = newApproval
      /\ y.newTask = newTask /\ y.newExecution = None
  <2>1. PICK d \in Transaction : /\ d = Decided(x) /\ d.at = "write" /\ d.op = x.op
                                 /\ d.task = x.task /\ d.newExecution = x.newExecution
    BY <1>1, DecidedTx
  <2>2. y = [d EXCEPT !.run = now.run, !.newApproval = newApproval,
                      !.newTask = newTask, !.newRun = newRun]
    BY <1>3, <2>1
  <2>3. /\ newApproval \in ApprovalRow \cup {None} /\ newTask \in TaskStatuses \cup {None}
        /\ newRun \in RunRow \cup {None} /\ now.run \in Runs \cup {None}
    BY <1>4, <1>5, <1>6, <1>7
  <2>4. y \in Transaction
    BY <2>1, <2>2, <2>3, Rewritten
  <2>5. /\ y.at = d.at /\ y.op = d.op /\ y.task = d.task /\ y.run = now.run
        /\ y.newRun = newRun /\ y.newApproval = newApproval
        /\ y.newTask = newTask /\ y.newExecution = d.newExecution
    BY <2>1, <2>2 DEF Transaction
  <2>. QED
    BY <1>1, <2>1, <2>4, <2>5
<1>. USE DEF x
<1>9. ReadsStand(y) /\ WritesFit(y)
  BY <1>1, <1>2, <1>4, <1>5, <1>6, <1>8 DEF ReadsStand, WritesFit, newApproval
<1>10. OutcomeFits(y)
  BY <1>1, <1>2, <1>4, <1>5, <1>8 DEF OutcomeFits, newApproval
<1>11. Unlocked(p, y)
  <2>1. HoldsTurn(p, t)
    BY <1>1 DEF HoldsTurn
  <2>2. newApproval # None => \A q \in Processes \ {p} : ~HoldsApproval(q, t)
    BY <1>1, <1>3, NotBlocked DEF newApproval, Resolves, Proceed
  <2>. QED
    BY <1>8, <2>1, <2>2 DEF Unlocked
<1>12. p \notin Workers
  BY <1>1 DEF GovernedInvariant, WorksOn
<1>. QED
  BY <1>1, <1>3, <1>8, <1>9, <1>10, <1>11, <1>12, ProceedStep

(* What an execution makes of the run it was decided for.                    *)
LEMMA SyncedRunFits ==
    ASSUME GovernedInvariant, NEW p \in Processes, NEW o, NEW r, r = RunOf(tx[p]),
           tx[p].at = "decide", ~Refused(tx[p])
    PROVE  /\ r \in Runs \cup {None} /\ SyncedRun(p, r, o) \in RunRow \cup {None}
           /\ r # None => run[r].task = tx[p].task
           /\ SyncedRun(p, r, o) # None =>
                 /\ r \in Runs /\ Exists(run[r]) /\ Exists(SyncedRun(p, r, o))
                 /\ SyncedRun(p, r, o).task = run[r].task
           /\ tx[p].newRun # None => SyncedRun(p, r, o) # None
<1>. DEFINE x == tx[p]
            mine == IF x.newRun # None THEN x.newRun ELSE run[r]
<1>1. /\ x \in Transaction /\ ReadsStand(x) /\ WritesFit(x) /\ x.task \in Tasks
      /\ x.run \in Runs \cup {None} /\ x.sees \in ApprovalRow /\ x.newRun \in RunRow \cup {None}
  BY Types DEF GovernedInvariant, ReadsStand, Transaction
<1>2. r \in Runs \cup {None}
  BY <1>1 DEF RunOf, ApprovalRow
<1>3. r # None => run[r].task = x.task
  BY DEF Refused, Misplaced
<1>4. x.newRun # None => /\ r = x.run /\ r # None /\ r \in Runs /\ x.newRun \in RunRow
                         /\ Exists(x.newRun) /\ x.newRun.task = run[r].task
  BY <1>1, GovernedAssumption DEF WritesFit, RunOf
<1>5. r # None => Exists(run[r]) /\ run[r] \in RunRow
  BY <1>1, <1>2, <1>3, TaskRunAssumption, Types DEF GovernedInvariant, RowsLinked
<1>6. r # None => mine \in RunRow /\ Exists(mine) /\ mine.task = run[r].task
  BY <1>4, <1>5
<1>7. SyncedRun(p, r, o) = IF r = None \/ mine.status \in Finished THEN x.newRun
                           ELSE AfterExecution(mine, o)
  BY DEF SyncedRun, Mine
<1>. HIDE DEF mine, x
<1>8. CASE r = None \/ mine.status \in Finished
  <2>1. SyncedRun(p, r, o) = x.newRun
    BY <1>7, <1>8
  <2>. QED
    BY <1>1, <1>2, <1>3, <1>4, <1>5, <2>1 DEF x
<1>9. CASE r # None /\ mine.status \notin Finished
  <2>1. SyncedRun(p, r, o) = AfterExecution(mine, o)
    BY <1>7, <1>9
  <2>2. /\ AfterExecution(mine, o) \in RunRow /\ Exists(AfterExecution(mine, o))
        /\ AfterExecution(mine, o).task = mine.task
    BY <1>6, <1>9, RunRows
  <2>3. AfterExecution(mine, o) # None
    BY <2>2, GovernedAssumption
  <2>. QED
    BY <1>2, <1>3, <1>5, <1>6, <1>9, <2>1, <2>2, <2>3 DEF x
<1>. QED
  BY <1>8, <1>9

(* An execution links an approval whose status stays.                        *)
LEMMA LinkedFits ==
    ASSUME GovernedInvariant, NEW p \in Processes, tx[p].at = "decide"
    PROVE  /\ Linked(tx[p]) \in ApprovalRow \cup {None}
           /\ Linked(tx[p]) # None => /\ Links(tx[p])
                                      /\ Linked(tx[p]).status = approval[tx[p].task].status
<1>1. /\ tx[p] \in Transaction /\ tx[p].task \in Tasks /\ tx[p].newApproval = None
      /\ tx[p].run \in Runs \cup {None} /\ tx[p].sees.run \in Runs \cup {None}
  BY Types DEF GovernedInvariant, ReadsStand, Transaction, ApprovalRow
<1>2. approval[tx[p].task] \in ApprovalRow
  BY <1>1, Types
<1>3. RunOf(tx[p]) \in Runs \cup {None}
  BY <1>1 DEF RunOf
<1>4. CASE Links(tx[p])
  <2>1. Linked(tx[p]) = [approval[tx[p].task] EXCEPT !.run = RunOf(tx[p])]
    BY <1>4 DEF Linked
  <2>. QED
    BY <1>2, <1>3, <1>4, <2>1 DEF ApprovalRow
<1>5. CASE ~Links(tx[p])
  <2>1. Linked(tx[p]) = None
    BY <1>1, <1>5 DEF Linked
  <2>. QED
    BY <2>1
<1>. QED
  BY <1>4, <1>5

(* With its turn, an execution may write what fits.                          *)
LEMMA ExecuteStep ==
    ASSUME GovernedInvariant, NEW p \in Processes, NEW y \in Transaction, Proceed(p, y),
           tx[p].at = "decide", tx[p].op = "execute",
           y.at = "write", y.op = "execute", y.task = tx[p].task,
           y.newRun # None => /\ y.run \in Runs /\ Exists(run[y.run])
                              /\ Exists(y.newRun) /\ y.newRun.task = run[y.run].task,
           p \in Workers /\ tx[p].newRun # None => y.newRun # None,
           y.newApproval = Linked(tx[p]), OutcomeFits(y)
    PROVE  GovernedInvariant'
<1>1. ReadsStand(tx[p]) /\ tx[p].task \in Tasks /\ Exists(approval[tx[p].task])
  BY DEF GovernedInvariant, ReadsStand
<1>2. ReadsStand(y)
  BY <1>1 DEF ReadsStand
<1>3. WritesFit(y)
  BY <1>1, LinkedFits DEF WritesFit
<1>4. Unlocked(p, y)
  <2>1. HoldsTurn(p, y.task)
    BY DEF HoldsTurn
  <2>2. y.newApproval # None => \A q \in Processes \ {p} : ~HoldsApproval(q, y.task)
    BY LinkedFits, NotBlocked DEF Proceed
  <2>. QED
    BY <2>1, <2>2 DEF Unlocked
<1>. QED
  BY <1>2, <1>3, <1>4, ProceedStep

LEMMA ExecuteRefusedStep ==
    ASSUME GovernedInvariant, NEW p \in Processes, ExecuteRefused(p)
    PROVE  GovernedInvariant'
<1>. DEFINE x == tx[p]
            newRun == IF p \in Workers THEN Failed(x.newRun, "transient") ELSE None
<1>1. /\ x \in Transaction /\ ReadsStand(x) /\ WritesFit(x) /\ x.newRun \in RunRow \cup {None}
      /\ x.at = "decide" /\ x.op = "execute" /\ x.newTask = None /\ x.newExecution = None
      /\ p \in Workers => x.newRun # None
  BY Types DEF GovernedInvariant, ReadsStand, ExecuteRefused, Transaction, WorksOn
<1>2. PICK d \in Transaction : /\ d = Decided(x) /\ d.at = "write" /\ d.op = x.op
                               /\ d.task = x.task /\ d.run = x.run /\ d.newRun = x.newRun
                               /\ d.newTask = None /\ d.newExecution = None
  BY <1>1, DecidedTx
<1>3. PICK y : /\ y = [d EXCEPT !.newApproval = Linked(x), !.newRun = newRun]
               /\ Proceed(p, y)
  BY <1>2 DEF ExecuteRefused
<1>4. /\ newRun \in RunRow \cup {None}
      /\ p \in Workers => newRun # None
      /\ newRun # None => /\ x.run \in Runs /\ Exists(run[x.run])
                          /\ Exists(newRun) /\ newRun.task = run[x.run].task
  <2>1. CASE p \in Workers
    <3>1. /\ x.newRun \in RunRow /\ Exists(x.newRun) /\ x.run \in Runs /\ Exists(run[x.run])
          /\ x.newRun.task = run[x.run].task
      BY <1>1, <2>1 DEF WritesFit
    <3>2. /\ newRun \in RunRow /\ Exists(newRun) /\ newRun.task = x.newRun.task
      BY <2>1, <3>1, RunRows DEF FailureClasses
    <3>. QED
      BY <3>1, <3>2, GovernedAssumption
  <2>2. CASE p \notin Workers
    BY <2>2
  <2>. QED
    BY <2>1, <2>2
<1>5. Linked(x) \in ApprovalRow \cup {None}
  BY <1>1, LinkedFits
<1>. HIDE DEF newRun
<1>6. y \in Transaction
  BY <1>3, <1>4, <1>5, Rewritten
<1>7. /\ y.at = "write" /\ y.op = "execute" /\ y.task = x.task /\ y.run = x.run
      /\ y.newRun = newRun /\ y.newApproval = Linked(x) /\ y.newTask = None
      /\ y.newExecution = None
  BY <1>1, <1>2, <1>3 DEF Transaction
<1>8. OutcomeFits(y)
  BY <1>7 DEF OutcomeFits
<1>. QED
  BY <1>1, <1>3, <1>4, <1>6, <1>7, <1>8, ExecuteStep

LEMMA ExecuteReplayStep ==
    ASSUME GovernedInvariant, NEW p \in Processes, ExecuteReplay(p)
    PROVE  GovernedInvariant'
<1>. DEFINE x == tx[p]
            r == RunOf(x)
<1>1. /\ x \in Transaction /\ ReadsStand(x) /\ x.at = "decide" /\ x.op = "execute"
      /\ x.newTask = None /\ x.newExecution = None /\ ~Refused(x)
  BY Types DEF GovernedInvariant, ReadsStand, ExecuteReplay
<1>2. PICK d \in Transaction : /\ d = Decided(x) /\ d.at = "write" /\ d.op = x.op
                               /\ d.task = x.task /\ d.newTask = None /\ d.newExecution = None
  BY <1>1, DecidedTx
<1>3. PICK i \in Earlier(x.task, r) :
         Proceed(p, [Decided(x) EXCEPT !.run = r, !.newApproval = Linked(x),
                                       !.newRun = SyncedRun(p, r, executions[i].outcome)])
  BY DEF ExecuteReplay
<1>4. PICK newRun : newRun = SyncedRun(p, r, executions[i].outcome)
  OBVIOUS
<1>5. PICK y : /\ y = [d EXCEPT !.run = r, !.newApproval = Linked(x), !.newRun = newRun]
               /\ Proceed(p, y)
  BY <1>2, <1>3, <1>4
<1>6. /\ r \in Runs \cup {None} /\ newRun \in RunRow \cup {None}
      /\ newRun # None => /\ r \in Runs /\ Exists(run[r])
                          /\ Exists(newRun) /\ newRun.task = run[r].task
      /\ x.newRun # None => newRun # None
  BY <1>1, <1>4, SyncedRunFits
<1>7. Linked(x) \in ApprovalRow \cup {None}
  BY <1>1, LinkedFits
<1>8. y \in Transaction
  BY <1>2, <1>5, <1>6, <1>7, Rewritten
<1>9. /\ y.at = "write" /\ y.op = "execute" /\ y.task = x.task /\ y.run = r
      /\ y.newRun = newRun /\ y.newApproval = Linked(x) /\ y.newTask = None
      /\ y.newExecution = None
  BY <1>1, <1>2, <1>5 DEF Transaction
<1>10. OutcomeFits(y)
  BY <1>9 DEF OutcomeFits
<1>. QED
  BY <1>1, <1>5, <1>6, <1>8, <1>9, <1>10, ExecuteStep

LEMMA ExecuteToolStep ==
    ASSUME GovernedInvariant, NEW p \in Processes, ExecuteTool(p)
    PROVE  GovernedInvariant'
<1>. DEFINE x == tx[p]
            r == RunOf(x)
            outcome == OutcomeOf(task[x.task].tool)
            newExecution == [task |-> x.task, run |-> r, outcome |-> outcome]
            newTask == TaskAfterExecution(outcome)
<1>1. /\ x \in Transaction /\ ReadsStand(x) /\ x.at = "decide" /\ x.op = "execute"
      /\ ~Refused(x) /\ x.task \in Tasks /\ Exists(approval[x.task])
      /\ x.sees.status \in {"pending", approval[x.task].status} /\ Earlier(x.task, r) = {}
  BY Types DEF GovernedInvariant, ReadsStand, ExecuteTool
<1>2. PICK d \in Transaction : /\ d = Decided(x) /\ d.at = "write" /\ d.op = x.op
                               /\ d.task = x.task
  BY <1>1, DecidedTx
<1>3. PICK newRun : newRun = SyncedRun(p, r, outcome)
  OBVIOUS
<1>4. PICK y : /\ y = [d EXCEPT !.run = r, !.newApproval = Linked(x),
                                !.newExecution = newExecution, !.newTask = newTask,
                                !.newRun = newRun]
               /\ Proceed(p, y)
  BY <1>2, <1>3 DEF ExecuteTool
<1>5. /\ r \in Runs \cup {None} /\ newRun \in RunRow \cup {None}
      /\ newRun # None => /\ r \in Runs /\ Exists(run[r])
                          /\ Exists(newRun) /\ newRun.task = run[r].task
      /\ x.newRun # None => newRun # None
      /\ r # None => run[r].task = x.task
  BY <1>1, <1>3, SyncedRunFits
<1>6. Linked(x) \in ApprovalRow \cup {None}
  BY <1>1, LinkedFits
<1>7. outcome \in {"completed", "no_handler", "over_budget"}
  BY DEF OutcomeOf
<1>. HIDE DEF outcome
<1>8. newExecution \in Execution /\ newTask \in TaskStatuses
  BY <1>1, <1>5, <1>7 DEF Execution, TaskStatuses, TaskAfterExecution
<1>9. newExecution # None /\ newTask # None
  BY <1>8, GovernedAssumption
<1>10. /\ newExecution.task = x.task /\ newExecution.run = r
       /\ newTask = TaskAfterExecution(newExecution.outcome)
  OBVIOUS
<1>11. task[x.task].tool = "effect" =>
          \A i \in DOMAIN executions : executions[i].task = x.task => executions[i].run # r
  BY <1>1 DEF Earlier
<1>12. approval[x.task].status = "approved"
  BY <1>1 DEF Refused
<1>. HIDE DEF newExecution, newTask
<1>13. y \in Transaction
  BY <1>2, <1>4, <1>5, <1>6, <1>8, Rewritten
<1>14. /\ y.at = "write" /\ y.op = "execute" /\ y.task = x.task /\ y.run = r
       /\ y.newRun = newRun /\ y.newApproval = Linked(x) /\ y.newTask = newTask
       /\ y.newExecution = newExecution
  BY <1>1, <1>2, <1>4 DEF Transaction
<1>15. OutcomeFits(y)
  BY <1>1, <1>5, <1>9, <1>10, <1>11, <1>12, <1>14 DEF OutcomeFits
<1>. QED
  BY <1>1, <1>4, <1>5, <1>13, <1>14, <1>15, ExecuteStep

-----------------------------------------------------------------------------
(* Steps that change rows. *)

(* What the rows owe to a transaction that is open while they change: a      *)
(* decision stands, and what it has locked is as it was.                     *)
LEMMA OthersFit ==
    ASSUME GovernedInvariant, NEW y \in Transaction,
           ReadsStand(y), WritesFit(y), OutcomeFits(y),
           \A r \in Runs : Exists(run[r]) => Exists(run'[r]) /\ run'[r].task = run[r].task,
           \A t \in Tasks : Exists(approval[t]) =>
               /\ Exists(approval'[t])
               /\ approval[t].status # "pending" => approval'[t].status = approval[t].status,
           y.newApproval # None => approval'[y.task].status = approval[y.task].status,
           y.newTask # None =>
               /\ approval'[y.task].status = approval[y.task].status
               /\ task'[y.task] = task[y.task]
               /\ \A i \in DOMAIN executions :
                     i \in DOMAIN executions' /\ executions'[i] = executions[i]
               /\ \A i \in DOMAIN executions' : executions'[i].task = y.task =>
                     i \in DOMAIN executions /\ executions'[i] = executions[i]
    PROVE  ReadsStand(y)' /\ WritesFit(y)' /\ OutcomeFits(y)'
<1>0. \A t \in Tasks \cup {None} : Exists(approval[t])' <=> approval'[t].status # "absent"
  BY DEF Exists
<1>1. ReadsStand(y)'
  BY DEF ReadsStand, Exists
<1>2. WritesFit(y)'
  <2>1. y.newApproval # None => y.task \in Tasks
    BY DEF ReadsStand
  <2>. QED
    BY <2>1 DEF WritesFit, Exists
<1>3. OutcomeFits(y)'
  <2>1. y.newTask # None => y.task \in Tasks /\ (Executed(y.task)' <=> Executed(y.task))
    BY DEF ReadsStand, Executed
  <2>2. y.newExecution # None =>
           /\ y.newTask # None /\ y.task \in Tasks
           /\ y.newExecution.run # None => run'[y.newExecution.run].task = y.task
    <3>1. y.newExecution # None => /\ y.newExecution \in Execution /\ y.newTask # None
                                   /\ y.newExecution.run \in Runs \cup {None}
      BY DEF Transaction, Execution, OutcomeFits
    <3>2. \A r \in Runs : run[r].task \in Tasks => Exists(run[r])
      BY TaskRunAssumption DEF GovernedInvariant, RowsLinked
    <3>. QED
      BY <2>1, <3>1, <3>2 DEF OutcomeFits
  <2>3. y.newTask # None => Exists(approval[y.task])'
    BY <2>1 DEF OutcomeFits, Exists
  <2>4. y.newTask # None =>
           y.newTask = IF y.newExecution # None THEN TaskAfterExecution(y.newExecution.outcome)
                       ELSE IF Executed(y.task)' THEN task'[y.task].status
                       ELSE Mirrored(IF y.newApproval # None THEN y.newApproval.status
                                     ELSE approval'[y.task].status)
    BY <2>1 DEF OutcomeFits
  <2>5. y.newExecution # None =>
           /\ approval'[y.task].status = "approved"
           /\ task'[y.task].tool = "effect" =>
                \A i \in DOMAIN executions' :
                    executions'[i].task = y.task => executions'[i].run # y.newExecution.run
    BY <2>2 DEF OutcomeFits
  <2>. QED
    BY <2>1, <2>2, <2>3, <2>4, <2>5 DEF OutcomeFits
<1>. QED
  BY <1>1, <1>2, <1>3

(* The invariant after a step that changes rows and leaves open transactions. *)
LEMMA RowStep ==
    ASSUME GovernedInvariant, TypeOK', RowsLinked',
           \A p \in Processes : tx'[p] \in {tx[p], NoTx},
           \A p \in Processes : tx'[p] # NoTx =>
               ReadsStand(tx[p])' /\ WritesFit(tx[p])' /\ OutcomeFits(tx[p])',
           ExecutionWasApproved', KeyedOnce', TaskFollowsItsRecords', ExecutionBelongsToItsRun'
    PROVE  GovernedInvariant'
<1>1. OneHolder'
  <2>1. ASSUME NEW p \in Processes, NEW t \in Tasks
        PROVE  /\ HoldsTurn(p, t)' => HoldsTurn(p, t)
               /\ HoldsApproval(p, t)' => HoldsApproval(p, t)
    BY NoTxFits DEF HoldsTurn, HoldsApproval
  <2>. QED
    BY <2>1 DEF GovernedInvariant, OneHolder
<1>2. ASSUME NEW p \in Processes
      PROVE  ReadsStand(tx[p])' /\ WritesFit(tx[p])' /\ OutcomeFits(tx[p])'
  <2>1. CASE tx'[p] = NoTx
    <3>1. PICK y : y = tx'[p] /\ y = NoTx
      BY <2>1
    <3>2. /\ y.at = "idle" /\ y.newRun = None /\ y.newApproval = None /\ y.newTask = None
          /\ y.newExecution = None
      BY <3>1, NoTxFits
    <3>. QED
      BY <3>1, <3>2 DEF ReadsStand, WritesFit, OutcomeFits
  <2>. QED
    BY <2>1
<1>3. \A w \in Workers : WorksOn(tx[w])'
  BY NoTxFits DEF GovernedInvariant, WorksOn, Processes
<1>. QED
  BY <1>1, <1>2, <1>3 DEF GovernedInvariant

(* The log, entry by entry.                                                  *)
LEMMA LogEntries ==
    ASSUME executions \in Seq(Execution)
    PROVE  /\ DOMAIN executions = 1 .. Len(executions) /\ Len(executions) \in Nat
           /\ \A i \in DOMAIN executions :
                 /\ executions[i] \in Execution /\ executions[i].task \in Tasks
                 /\ executions[i].run \in Runs \cup {None}
                 /\ executions[i].outcome \in {"completed", "no_handler", "over_budget"}
<1>1. DOMAIN executions = 1 .. Len(executions) /\ Len(executions) \in Nat
  BY LenProperties
<1>2. \A i \in DOMAIN executions : executions[i] \in Execution
  BY <1>1, ElementOfSeq
<1>. QED
  BY <1>1, <1>2 DEF Execution

(* A transaction that stays open still fits. *)
LEMMA StaysOpen ==
    ASSUME NEW q, NEW y, y = tx[q], tx'[q] = tx[q],
           ReadsStand(y)' /\ WritesFit(y)' /\ OutcomeFits(y)'
    PROVE  ReadsStand(tx[q])' /\ WritesFit(tx[q])' /\ OutcomeFits(tx[q])'
BY DEF ReadsStand, WritesFit, OutcomeFits, Exists, Executed

(* Nothing open and no execution is about a task that is not there.          *)
LEMMA NothingBefore ==
    ASSUME GovernedInvariant, NEW t \in Tasks, ~Exists(task[t])
    PROVE  /\ ~Exists(approval[t]) /\ ~Executed(t)
           /\ \A i \in DOMAIN executions : executions[i].task # t
           /\ \A q \in Processes :
                 tx[q].newApproval # None \/ tx[q].newTask # None => tx[q].task # t
<1>1. ~Exists(approval[t]) /\ ~Executed(t)
  BY DEF GovernedInvariant, RowsLinked, Exists
<1>. QED
  BY <1>1 DEF GovernedInvariant, WritesFit, OutcomeFits, Executed

LEMMA SubmitRequestStep ==
    ASSUME GovernedInvariant, NEW c \in Callers, NEW t \in Tasks, NEW tool \in Tools,
           NEW r \in Runs \cup {None}, NEW routing \in Routings,
           SubmitRequest(c, t, tool, routing, r)
    PROVE  GovernedInvariant'
<1>. DEFINE status == CASE routing = "approval_required" -> "pending_approval"
                        [] routing = "ready" -> "approved"
                        [] routing = "denied" -> "denied"
            asked == [status |-> "pending", run |-> r]
<1>1. /\ task' = [task EXCEPT ![t] = [status |-> status, tool |-> tool]]
      /\ approval' = IF routing = "approval_required" THEN [approval EXCEPT ![t] = asked]
                     ELSE approval
      /\ UNCHANGED <<run, executions, tx, calls>> /\ ~Exists(task[t])
  BY DEF SubmitRequest
<1>2. /\ status \in TaskStatuses
      /\ routing = "approval_required" => status = "pending_approval"
  BY GovernedAssumption DEF TaskStatuses
<1>. HIDE DEF status
<1>3. asked \in ApprovalRow
  BY DEF ApprovalRow
<1>4. /\ task'[t] = [status |-> status, tool |-> tool]
      /\ \A u \in Tasks \ {t} : task'[u] = task[u] /\ approval'[u] = approval[u]
      /\ approval'[t] = IF routing = "approval_required" THEN asked ELSE approval[t]
  BY <1>1, Types
<1>5. TypeOK'
  BY <1>1, <1>2, <1>3, Types DEF TypeOK
<1>6. /\ ~Exists(approval[t]) /\ ~Executed(t)
      /\ \A i \in DOMAIN executions : executions[i].task # t
      /\ \A q \in Processes :
            tx[q].newApproval # None \/ tx[q].newTask # None => tx[q].task # t
  BY <1>1, NothingBefore
<1>7. /\ \A i \in DOMAIN executions : executions[i] \in Execution /\ executions[i].task \in Tasks
      /\ executions' = executions
  BY <1>1, Types, LogEntries
<1>8. RowsLinked'
  <2>1. status # "absent"
    BY <1>2 DEF TaskStatuses
  <2>2. \A u \in Tasks : Executed(u)' <=> Executed(u)
    BY <1>7 DEF Executed
  <2>3. \A u \in Tasks : /\ Exists(approval'[u]) => Exists(task'[u])
                         /\ Executed(u)' => task'[u].status \in {"executed", "blocked"}
    BY <1>4, <1>6, <2>1, <2>2 DEF GovernedInvariant, RowsLinked, Exists
  <2>4. \A q \in Runs : IF Exists(run'[q]) THEN run'[q].task \in Tasks ELSE run'[q].task = None
    BY <1>1 DEF GovernedInvariant, RowsLinked
  <2>. QED
    BY <2>3, <2>4 DEF RowsLinked, Exists
<1>9. ASSUME NEW q \in Processes
      PROVE  ReadsStand(tx[q])' /\ WritesFit(tx[q])' /\ OutcomeFits(tx[q])'
  <2>1. PICK y \in Transaction : y = tx[q] /\ ReadsStand(y) /\ WritesFit(y) /\ OutcomeFits(y)
    BY Types DEF GovernedInvariant
  <2>2. \A u \in Tasks : Exists(approval[u]) => approval'[u] = approval[u]
    BY <1>4, <1>6
  <2>3. y.newApproval # None \/ y.newTask # None => y.task \in Tasks \ {t}
    BY <1>6, <2>1 DEF ReadsStand
  <2>4. ReadsStand(y)' /\ WritesFit(y)' /\ OutcomeFits(y)'
    BY <1>1, <1>4, <1>7, <2>1, <2>2, <2>3, OthersFit
  <2>. QED
    BY <1>1, <2>1, <2>4, StaysOpen
<1>10. ExecutionWasApproved' /\ KeyedOnce' /\ ExecutionBelongsToItsRun'
  BY <1>1, <1>4, <1>6, <1>7
     DEF GovernedInvariant, ExecutionWasApproved, KeyedOnce, ExecutionBelongsToItsRun
<1>11. TaskFollowsItsRecords'
  <2>1. ASSUME NEW u \in Tasks, u # t, Exists(approval'[u])
        PROVE  IF Executed(u)'
               THEN \A i \in DOMAIN executions' :
                       executions'[i].task = u /\ IsLast(i)' =>
                           task'[u].status = TaskAfterExecution(executions'[i].outcome)
               ELSE task'[u].status = Mirrored(approval'[u].status)
    BY <1>4, <1>7, <2>1
       DEF GovernedInvariant, TaskFollowsItsRecords, Executed, IsLast, Exists
  <2>2. ASSUME Exists(approval'[t])
        PROVE  ~Executed(t)' /\ task'[t].status = Mirrored(approval'[t].status)
    BY <1>2, <1>4, <1>6, <1>7, <2>2 DEF Executed, Exists, Mirrored
  <2>. QED
    BY <2>1, <2>2 DEF TaskFollowsItsRecords, Exists
<1>. QED
  BY <1>1, <1>5, <1>8, <1>9, <1>10, <1>11, RowStep

LEMMA CreateRunStep ==
    ASSUME GovernedInvariant, NEW c \in Callers, NEW t \in Tasks, NEW r \in Runs,
           NEW checkpoint \in Checkpoints, CreateRun(c, t, r, checkpoint)
    PROVE  GovernedInvariant'
<1>. DEFINE row == Created(t, checkpoint)
<1>1. /\ run' = [run EXCEPT ![r] = row] /\ ~Exists(run[r])
      /\ UNCHANGED <<task, approval, executions, tx, calls>>
  BY DEF CreateRun
<1>2. row \in RunRow /\ row.status = "queued" /\ row.task = t
  <2>1. checkpoint \in [cursor : 0 .. TargetSteps, waits : BOOLEAN]
    BY GovernedAssumption
  <2>2. NoRun \in RunRow
    BY TaskRunAssumption, StatusNames DEF NoRun, Statuses
  <2>. QED
    BY <2>1, <2>2, StatusNames DEF Created
<1>. HIDE DEF row
<1>3. run'[r] = row /\ \A q \in Runs \ {r} : run'[q] = run[q]
  BY <1>1, Types
<1>4. TypeOK'
  BY <1>1, <1>2, Types DEF TypeOK
<1>5. \A q \in Runs : Exists(run[q]) => Exists(run'[q]) /\ run'[q].task = run[q].task
  BY <1>1, <1>3
<1>6. RowsLinked'
  <2>1. \A q \in Runs : IF Exists(run'[q]) THEN run'[q].task \in Tasks ELSE run'[q].task = None
    BY <1>2, <1>3 DEF GovernedInvariant, RowsLinked, Exists
  <2>. QED
    BY <1>1, <2>1 DEF GovernedInvariant, RowsLinked, Exists, Executed
<1>7. ASSUME NEW q \in Processes
      PROVE  ReadsStand(tx[q])' /\ WritesFit(tx[q])' /\ OutcomeFits(tx[q])'
  <2>1. PICK y \in Transaction : y = tx[q] /\ ReadsStand(y) /\ WritesFit(y) /\ OutcomeFits(y)
    BY Types DEF GovernedInvariant
  <2>2. ReadsStand(y)' /\ WritesFit(y)' /\ OutcomeFits(y)'
    BY <1>1, <1>5, <2>1, OthersFit
  <2>. QED
    BY <1>1, <2>1, <2>2, StaysOpen
<1>8. ExecutionWasApproved' /\ KeyedOnce' /\ TaskFollowsItsRecords'
  BY <1>1 DEF GovernedInvariant, ExecutionWasApproved, KeyedOnce, TaskFollowsItsRecords,
              Executed, IsLast, Exists
<1>9. ExecutionBelongsToItsRun'
  <2>1. \A i \in DOMAIN executions :
           executions[i].task \in Tasks /\ executions[i].run \in Runs \cup {None}
    BY Types, LogEntries
  <2>2. \A q \in Runs : run[q].task \in Tasks => Exists(run[q])
    BY TaskRunAssumption DEF GovernedInvariant, RowsLinked
  <2>. QED
    BY <1>1, <1>5, <2>1, <2>2 DEF GovernedInvariant, ExecutionBelongsToItsRun
<1>. QED
  BY <1>1, <1>4, <1>6, <1>7, <1>8, <1>9, RowStep

(* What a commit makes of each row.                                          *)
LEMMA WrittenRows ==
    ASSUME GovernedInvariant, NEW p \in Processes, NEW x, x = tx[p], Write(p)
    PROVE  /\ x \in Transaction /\ x.at = "write" /\ x.task \in Tasks
           /\ ReadsStand(x) /\ WritesFit(x) /\ OutcomeFits(x)
           /\ TypeOK'
           /\ \A r \in Runs : run'[r] = IF x.newRun # None /\ r = x.run THEN x.newRun ELSE run[r]
           /\ \A t \in Tasks : approval'[t] = IF x.newApproval # None /\ t = x.task
                                             THEN x.newApproval ELSE approval[t]
           /\ \A t \in Tasks : x.newTask = None \/ t # x.task => task'[t] = task[t]
           /\ \A t \in Tasks : task'[t].tool = task[t].tool
           /\ x.newTask # None => /\ task'[x.task].status = x.newTask
                                  /\ x.newTask \in TaskStatuses
           /\ executions' = IF x.newExecution = None THEN executions
                            ELSE Append(executions, x.newExecution)
           /\ tx'[p] = NoTx /\ \A q \in Processes \ {p} : tx'[q] = tx[q]
<1>1. /\ x \in Transaction /\ x.at = "write" /\ x.task \in Tasks
      /\ ReadsStand(x) /\ WritesFit(x) /\ OutcomeFits(x)
  BY Types DEF GovernedInvariant, Write, ReadsStand
<1>2. /\ x.newRun \in RunRow \cup {None} /\ x.newApproval \in ApprovalRow \cup {None}
      /\ x.newTask \in TaskStatuses \cup {None} /\ x.newExecution \in Execution \cup {None}
      /\ x.newRun # None => x.run \in Runs
  BY <1>1 DEF Transaction, WritesFit
<1>3. /\ run' = IF x.newRun = None THEN run ELSE [run EXCEPT ![x.run] = x.newRun]
      /\ approval' = IF x.newApproval = None THEN approval
                     ELSE [approval EXCEPT ![x.task] = x.newApproval]
      /\ task' = IF x.newTask = None THEN task ELSE [task EXCEPT ![x.task].status = x.newTask]
      /\ executions' = IF x.newExecution = None THEN executions
                       ELSE Append(executions, x.newExecution)
      /\ tx' = [tx EXCEPT ![p] = NoTx] /\ calls' = calls
  BY DEF Write
<1>4. run' \in [Runs -> RunRow] /\ approval' \in [Tasks -> ApprovalRow]
  BY <1>1, <1>2, <1>3, Types
<1>5. task' \in [Tasks -> [status : TaskStatuses \cup {"absent"}, tool : Tools \cup {None}]]
  BY <1>1, <1>2, <1>3, Types
<1>6. executions' \in Seq(Execution)
  BY <1>2, <1>3, Types, AppendProperties
<1>7. tx' \in [Processes -> Transaction]
  BY <1>3, Types, NoTxFits
<1>8. TypeOK'
  BY <1>3, <1>4, <1>5, <1>6, <1>7, Types DEF TypeOK
<1>9. /\ \A t \in Tasks : x.newTask = None \/ t # x.task => task'[t] = task[t]
      /\ \A t \in Tasks : task'[t].tool = task[t].tool
      /\ x.newTask # None => task'[x.task].status = x.newTask
  BY <1>1, <1>3, Types
<1>10. /\ \A r \in Runs : run'[r] = IF x.newRun # None /\ r = x.run THEN x.newRun ELSE run[r]
       /\ \A t \in Tasks : approval'[t] = IF x.newApproval # None /\ t = x.task
                                         THEN x.newApproval ELSE approval[t]
  BY <1>1, <1>2, <1>3, Types
<1>. QED
  BY <1>1, <1>2, <1>3, <1>8, <1>9, <1>10, Types

(* The log after a commit.                                                   *)
LEMMA WrittenLog ==
    ASSUME GovernedInvariant, NEW p \in Processes, NEW x, x = tx[p], Write(p)
    PROVE  /\ \A i \in DOMAIN executions :
                 i \in DOMAIN executions' /\ executions'[i] = executions[i]
           /\ x.newExecution = None => executions' = executions
           /\ x.newExecution # None =>
                 /\ DOMAIN executions' = (DOMAIN executions) \cup {Len(executions) + 1}
                 /\ executions'[Len(executions) + 1] = x.newExecution
                 /\ Len(executions) + 1 \notin DOMAIN executions
                 /\ \A i \in DOMAIN executions : i <= Len(executions) + 1
                                               /\ ~(Len(executions) + 1 <= i)
<1>1. /\ executions' = IF x.newExecution = None THEN executions
                       ELSE Append(executions, x.newExecution)
      /\ executions \in Seq(Execution) /\ x \in Transaction
      /\ DOMAIN executions = 1 .. Len(executions) /\ Len(executions) \in Nat
  BY WrittenRows, Types, LogEntries
<1>2. CASE x.newExecution = None
  BY <1>1, <1>2
<1>3. CASE x.newExecution # None
  <2>1. x.newExecution \in Execution
    BY <1>1, <1>3 DEF Transaction
  <2>2. /\ Len(executions') = Len(executions) + 1 /\ DOMAIN executions' = 1 .. Len(executions')
        /\ executions'[Len(executions) + 1] = x.newExecution
        /\ \A i \in 1 .. Len(executions) : executions'[i] = executions[i]
    BY <1>1, <1>3, <2>1, AppendProperties, LenProperties
  <2>3. PICK n \in Nat : n = Len(executions)
    BY <1>1
  <2>4. 1 .. (n + 1) = (1 .. n) \cup {n + 1} /\ n + 1 \notin 1 .. n
    OBVIOUS
  <2>5. \A i \in 1 .. n : i <= n + 1 /\ ~(n + 1 <= i)
    OBVIOUS
  <2>6. DOMAIN executions' = (DOMAIN executions) \cup {n + 1} /\ n + 1 \notin DOMAIN executions
    BY <1>1, <2>2, <2>3, <2>4
  <2>7. \A i \in DOMAIN executions : i \in DOMAIN executions' /\ executions'[i] = executions[i]
    BY <1>1, <2>2, <2>6
  <2>. QED
    BY <1>1, <1>3, <2>2, <2>3, <2>5, <2>6, <2>7
<1>. QED
  BY <1>2, <1>3

(* A commit keeps what decides the other transactions and the records.       *)
LEMMA WrittenKeeps ==
    ASSUME GovernedInvariant, NEW p \in Processes, NEW x, x = tx[p], Write(p)
    PROVE  /\ \A r \in Runs : Exists(run[r]) => Exists(run'[r]) /\ run'[r].task = run[r].task
           /\ \A t \in Tasks : Exists(approval[t]) =>
                 /\ Exists(approval'[t])
                 /\ approval[t].status # "pending" => approval'[t].status = approval[t].status
           /\ \A t \in Tasks : Exists(approval'[t]) => Exists(approval[t])
           /\ \A t \in Tasks :
                 t # x.task \/ x.newTask = None => approval'[t].status = approval[t].status
<1>1. /\ x \in Transaction /\ x.task \in Tasks /\ WritesFit(x)
      /\ \A r \in Runs : run'[r] = IF x.newRun # None /\ r = x.run THEN x.newRun ELSE run[r]
      /\ \A t \in Tasks : approval'[t] = IF x.newApproval # None /\ t = x.task
                                        THEN x.newApproval ELSE approval[t]
  BY WrittenRows
<1>2. \A r \in Runs : Exists(run[r]) => Exists(run'[r]) /\ run'[r].task = run[r].task
  BY <1>1 DEF WritesFit
<1>. QED
  BY <1>1, <1>2 DEF WritesFit, Exists

LEMMA WriteOthers ==
    ASSUME GovernedInvariant, NEW p \in Processes, Write(p), NEW q \in Processes, q # p
    PROVE  ReadsStand(tx[q])' /\ WritesFit(tx[q])' /\ OutcomeFits(tx[q])'
<1>1. PICK x : x = tx[p]
  OBVIOUS
<1>2. PICK y \in Transaction : y = tx[q] /\ ReadsStand(y) /\ WritesFit(y) /\ OutcomeFits(y)
  BY Types DEF GovernedInvariant
<1>3. /\ x \in Transaction /\ x.at = "write" /\ x.task \in Tasks /\ WritesFit(x) /\ OutcomeFits(x)
      /\ tx'[q] = tx[q]
  BY <1>1, WrittenRows
<1>4. ASSUME y.newApproval # None
      PROVE  approval'[y.task].status = approval[y.task].status
  <2>1. y.task \in Tasks /\ HoldsApproval(q, y.task)
    BY <1>2, <1>4 DEF ReadsStand, HoldsApproval
  <2>2. ~HoldsApproval(p, y.task)
    BY <2>1 DEF GovernedInvariant, OneHolder
  <2>3. x.newApproval = None \/ x.task # y.task
    BY <1>1, <2>2 DEF HoldsApproval
  <2>. QED
    BY <1>1, <2>1, <2>3, WrittenRows
<1>5. ASSUME y.newTask # None
      PROVE  /\ approval'[y.task].status = approval[y.task].status
             /\ task'[y.task] = task[y.task]
             /\ \A i \in DOMAIN executions :
                   i \in DOMAIN executions' /\ executions'[i] = executions[i]
             /\ \A i \in DOMAIN executions' : executions'[i].task = y.task =>
                   i \in DOMAIN executions /\ executions'[i] = executions[i]
  <2>1. y.task \in Tasks /\ HoldsTurn(q, y.task)
    BY <1>2, <1>5 DEF ReadsStand, OutcomeFits, HoldsTurn
  <2>2. ~HoldsTurn(p, y.task)
    BY <2>1 DEF GovernedInvariant, OneHolder
  <2>3. x.op \notin {"resolve", "execute"} \/ x.task # y.task
    BY <1>1, <1>3, <2>2 DEF HoldsTurn
  <2>4. CASE x.task # y.task
    <3>1. approval'[y.task].status = approval[y.task].status /\ task'[y.task] = task[y.task]
      BY <1>1, <2>1, <2>4, WrittenRows, WrittenKeeps
    <3>2. x.newExecution # None => x.newExecution.task # y.task
      BY <1>3, <2>4 DEF OutcomeFits
    <3>. QED
      BY <1>1, <3>1, <3>2, WrittenLog
  <2>5. CASE x.op \notin {"resolve", "execute"}
    <3>1. x.newTask = None /\ x.newExecution = None
      BY <1>3, <2>5 DEF OutcomeFits
    <3>. QED
      BY <1>1, <2>1, <3>1, WrittenRows, WrittenKeeps, WrittenLog
  <2>. QED
    BY <2>3, <2>4, <2>5
<1>6. ReadsStand(y)' /\ WritesFit(y)' /\ OutcomeFits(y)'
  BY <1>1, <1>2, <1>4, <1>5, OthersFit, WrittenKeeps
<1>. QED
  BY <1>2, <1>3, <1>6, StaysOpen

(* The records after a commit.                                               *)
LEMMA WriteRecords ==
    ASSUME GovernedInvariant, NEW p \in Processes, Write(p)
    PROVE  ExecutionWasApproved' /\ KeyedOnce' /\ ExecutionBelongsToItsRun'
<1>1. PICK x : x = tx[p]
  OBVIOUS
<1>. DEFINE n == Len(executions) + 1
<1>2. /\ x \in Transaction /\ x.task \in Tasks /\ OutcomeFits(x)
      /\ \A t \in Tasks : task'[t].tool = task[t].tool
  BY <1>1, WrittenRows
<1>3. \A i \in DOMAIN executions : /\ executions[i].task \in Tasks
                                   /\ executions[i].run \in Runs \cup {None}
  BY Types, LogEntries
<1>4. \A i \in DOMAIN executions' :
         \/ i \in DOMAIN executions /\ executions'[i] = executions[i]
         \/ x.newExecution # None /\ i = n /\ executions'[i] = x.newExecution
  BY <1>1, WrittenLog
<1>5. \A r \in Runs : run[r].task \in Tasks => Exists(run[r])
  BY TaskRunAssumption DEF GovernedInvariant, RowsLinked
<1>6. x.newExecution # None =>
         /\ x.newExecution \in Execution /\ x.newExecution.task = x.task
         /\ x.newExecution.run \in Runs \cup {None}
         /\ approval[x.task].status = "approved"
         /\ x.newExecution.run # None => run[x.newExecution.run].task = x.task
         /\ task[x.task].tool = "effect" =>
              \A i \in DOMAIN executions :
                  executions[i].task = x.task => executions[i].run # x.newExecution.run
  BY <1>2 DEF OutcomeFits, Transaction, Execution
<1>. HIDE DEF n
<1>7. \A t \in Tasks : approval[t].status = "approved" => approval'[t].status = "approved"
  BY <1>1, WrittenKeeps DEF Exists
<1>8. ExecutionWasApproved'
  BY <1>2, <1>3, <1>4, <1>6, <1>7 DEF GovernedInvariant, ExecutionWasApproved
<1>9. ExecutionBelongsToItsRun'
  <2>1. \A r \in Runs : run[r].task \in Tasks => run'[r].task = run[r].task
    BY <1>1, <1>5, WrittenKeeps
  <2>. QED
    BY <1>2, <1>3, <1>4, <1>6, <2>1 DEF GovernedInvariant, ExecutionBelongsToItsRun
<1>10. KeyedOnce'
  <2>1. ASSUME NEW i \in DOMAIN executions', NEW j \in DOMAIN executions',
               executions'[i].task = executions'[j].task,
               executions'[i].run = executions'[j].run,
               task'[executions'[i].task].tool = "effect"
        PROVE  i = j
    <3>1. CASE i \in DOMAIN executions /\ j \in DOMAIN executions
      BY <1>1, <1>2, <1>3, <2>1, <3>1, WrittenLog DEF GovernedInvariant, KeyedOnce
    <3>2. CASE i = n /\ executions'[i] = x.newExecution /\ x.newExecution # None
               /\ j \in DOMAIN executions /\ executions'[j] = executions[j]
      BY <1>2, <1>3, <1>6, <2>1, <3>2
    <3>3. CASE j = n /\ executions'[j] = x.newExecution /\ x.newExecution # None
               /\ i \in DOMAIN executions /\ executions'[i] = executions[i]
      BY <1>2, <1>3, <1>6, <2>1, <3>3
    <3>. QED
      BY <1>4, <3>1, <3>2, <3>3
  <2>. QED
    BY <2>1 DEF KeyedOnce
<1>. QED
  BY <1>8, <1>9, <1>10

(* A task follows its records after a commit.                                *)
LEMMA WriteTask ==
    ASSUME GovernedInvariant, NEW p \in Processes, Write(p)
    PROVE  RowsLinked' /\ TaskFollowsItsRecords'
<1>1. PICK x : x = tx[p]
  OBVIOUS
<1>2. /\ x \in Transaction /\ x.task \in Tasks /\ OutcomeFits(x) /\ WritesFit(x)
      /\ \A t \in Tasks : x.newTask = None \/ t # x.task => task'[t] = task[t]
      /\ x.newTask # None => task'[x.task].status = x.newTask /\ x.newTask \in TaskStatuses
      /\ x.newApproval # None => approval'[x.task] = x.newApproval
      /\ x.newApproval = None => approval'[x.task] = approval[x.task]
  BY <1>1, WrittenRows
<1>3. /\ \A t \in Tasks : Exists(approval'[t]) => Exists(approval[t])
      /\ \A t \in Tasks : t # x.task \/ x.newTask = None =>
                                approval'[t].status = approval[t].status
  BY <1>1, WrittenKeeps
(* A task whose row the commit leaves alone has the records it had.           *)
<1>4. ASSUME NEW t \in Tasks, t # x.task \/ x.newTask = None
      PROVE  /\ Executed(t)' <=> Executed(t)
             /\ \A i \in DOMAIN executions' : executions'[i].task = t =>
                   i \in DOMAIN executions /\ executions'[i] = executions[i]
  <2>1. x.newExecution # None => x.newExecution.task # t
    BY <1>2, <1>4 DEF OutcomeFits
  <2>2. \A i \in DOMAIN executions' : executions'[i].task = t =>
           i \in DOMAIN executions /\ executions'[i] = executions[i]
    BY <1>1, <2>1, WrittenLog
  <2>. QED
    BY <1>1, <2>2, WrittenLog DEF Executed
<1>5. ASSUME x.newTask # None, x.newExecution # None
      PROVE  /\ Executed(x.task)' /\ task'[x.task].status \in {"executed", "blocked"}
             /\ \A i \in DOMAIN executions' :
                   executions'[i].task = x.task /\ IsLast(i)' =>
                       task'[x.task].status = TaskAfterExecution(executions'[i].outcome)
  <2>. DEFINE n == Len(executions) + 1
  <2>1. /\ n \in DOMAIN executions' /\ executions'[n] = x.newExecution
        /\ x.newExecution.task = x.task
        /\ task'[x.task].status = TaskAfterExecution(x.newExecution.outcome)
    BY <1>1, <1>2, <1>5, WrittenLog DEF OutcomeFits
  <2>2. \A i \in DOMAIN executions' : i # n => ~(n <= i)
    BY <1>1, <1>5, WrittenLog
  <2>. HIDE DEF n
  <2>3. \A i \in DOMAIN executions' : executions'[i].task = x.task /\ IsLast(i)' => i = n
    BY <2>1, <2>2 DEF IsLast
  <2>. QED
    BY <2>1, <2>3 DEF Executed, TaskAfterExecution
<1>6. ASSUME x.newTask # None, x.newExecution = None
      PROVE  /\ executions' = executions /\ Exists(approval[x.task])
             /\ Executed(x.task) => task'[x.task].status = task[x.task].status
             /\ ~Executed(x.task) => task'[x.task].status = Mirrored(approval'[x.task].status)
  BY <1>1, <1>2, <1>6, WrittenLog DEF OutcomeFits
<1>7. RowsLinked'
  <2>1. ASSUME NEW t \in Tasks
        PROVE  /\ Exists(approval'[t]) => Exists(task'[t])
               /\ Executed(t)' => task'[t].status \in {"executed", "blocked"}
    <3>1. CASE t # x.task \/ x.newTask = None
      BY <1>2, <1>3, <1>4, <3>1 DEF GovernedInvariant, RowsLinked
    <3>2. CASE t = x.task /\ x.newTask # None /\ x.newExecution # None
      BY <1>5, <3>2 DEF Exists
    <3>3. CASE t = x.task /\ x.newTask # None /\ x.newExecution = None
      <4>1. Exists(task'[t])
        BY <1>2, <3>3 DEF Exists, TaskStatuses
      <4>2. Executed(t)' <=> Executed(t)
        BY <1>6, <3>3 DEF Executed
      <4>. QED
        BY <1>6, <3>3, <4>1, <4>2 DEF GovernedInvariant, RowsLinked
    <3>. QED
      BY <3>1, <3>2, <3>3
  <2>2. \A r \in Runs : IF Exists(run'[r]) THEN run'[r].task \in Tasks ELSE run'[r].task = None
    <3>1. /\ \A r \in Runs : Exists(run[r]) => Exists(run'[r]) /\ run'[r].task = run[r].task
          /\ \A r \in Runs : ~Exists(run[r]) => run'[r] = run[r]
      BY <1>1, <1>2, WrittenKeeps, WrittenRows DEF WritesFit
    <3>. QED
      BY <3>1 DEF GovernedInvariant, RowsLinked
  <2>. QED
    BY <2>1, <2>2 DEF RowsLinked, Exists
<1>8. TaskFollowsItsRecords'
  <2>1. ASSUME NEW t \in Tasks, Exists(approval'[t])
        PROVE  IF Executed(t)'
               THEN \A i \in DOMAIN executions' :
                       executions'[i].task = t /\ IsLast(i)' =>
                           task'[t].status = TaskAfterExecution(executions'[i].outcome)
               ELSE task'[t].status = Mirrored(approval'[t].status)
    <3>1. CASE t # x.task \/ x.newTask = None
      <4>1. \A i \in DOMAIN executions' : executions'[i].task = t /\ IsLast(i)' =>
               i \in DOMAIN executions /\ executions'[i] = executions[i] /\ IsLast(i)
        BY <1>1, <1>4, <3>1, WrittenLog DEF IsLast
      <4>. QED
        BY <1>2, <1>3, <1>4, <2>1, <3>1, <4>1 DEF GovernedInvariant, TaskFollowsItsRecords
    <3>2. CASE t = x.task /\ x.newTask # None /\ x.newExecution # None
      BY <1>5, <3>2
    <3>3. CASE t = x.task /\ x.newTask # None /\ x.newExecution = None
      <4>1. /\ Executed(t)' <=> Executed(t)
            /\ \A i \in DOMAIN executions : IsLast(i)' <=> IsLast(i)
        BY <1>6, <3>3 DEF Executed, IsLast
      <4>. QED
        BY <1>6, <3>3, <4>1 DEF GovernedInvariant, TaskFollowsItsRecords
    <3>. QED
      BY <3>1, <3>2, <3>3
  <2>. QED
    BY <2>1 DEF TaskFollowsItsRecords, Exists
<1>. QED
  BY <1>7, <1>8

LEMMA WriteStep ==
    ASSUME GovernedInvariant, NEW p \in Processes, Write(p)
    PROVE  GovernedInvariant'
<1>1. PICK x : x = tx[p]
  OBVIOUS
<1>2. TypeOK' /\ tx'[p] = NoTx /\ \A q \in Processes \ {p} : tx'[q] = tx[q]
  BY <1>1, WrittenRows
<1>. QED
  BY <1>2, WriteOthers, WriteRecords, WriteTask, RowStep

-----------------------------------------------------------------------------
LEMMA Initially ==
    ASSUME Init
    PROVE  GovernedInvariant
<1>1. /\ NoRun \in RunRow /\ NoTask \in [status : TaskStatuses \cup {"absent"}, tool : Tools \cup {None}]
      /\ NoApproval \in ApprovalRow /\ MaxCalls \in Nat
  BY TaskRunAssumption, GovernedAssumption, StatusNames
     DEF NoRun, NoTask, NoApproval, ApprovalRow, Statuses
<1>2. executions \in Seq(Execution) /\ DOMAIN executions = {}
  BY EmptySeq DEF Init
<1>3. TypeOK
  BY <1>1, <1>2, NoTxFits DEF Init, TypeOK
<1>4. RowsLinked
  BY <1>2 DEF Init, RowsLinked, Exists, Executed, NoRun, NoApproval
<1>5. OneHolder
  BY NoTxFits DEF Init, OneHolder, HoldsTurn, HoldsApproval
<1>6. \A p \in Processes : tx[p] = NoTx
  BY DEF Init
<1>7. \A p \in Processes : ReadsStand(tx[p]) /\ WritesFit(tx[p]) /\ OutcomeFits(tx[p])
  BY <1>6, NoTxFits
<1>8. \A w \in Workers : WorksOn(tx[w])
  BY <1>6, NoTxFits DEF WorksOn, Processes
<1>9. ExecutionWasApproved /\ KeyedOnce /\ TaskFollowsItsRecords /\ ExecutionBelongsToItsRun
  BY <1>2 DEF Init, ExecutionWasApproved, KeyedOnce, TaskFollowsItsRecords,
              ExecutionBelongsToItsRun, Exists, NoApproval
<1>. QED
  BY <1>3, <1>4, <1>5, <1>7, <1>8, <1>9 DEF GovernedInvariant

LEMMA Stuttering ==
    ASSUME GovernedInvariant, UNCHANGED vars
    PROVE  GovernedInvariant'
<1>1. /\ UNCHANGED <<task, approval, run, executions, calls>>
      /\ tx' = tx
  BY DEF vars
<1>2. TypeOK' /\ RowsLinked'
  BY <1>1 DEF GovernedInvariant, TypeOK, RowsLinked, Exists, Executed
<1>3. ASSUME NEW q \in Processes
      PROVE  ReadsStand(tx[q])' /\ WritesFit(tx[q])' /\ OutcomeFits(tx[q])'
  BY <1>1 DEF GovernedInvariant, ReadsStand, WritesFit, OutcomeFits, Exists, Executed
<1>4. ExecutionWasApproved' /\ KeyedOnce' /\ TaskFollowsItsRecords' /\ ExecutionBelongsToItsRun'
  BY <1>1 DEF GovernedInvariant, ExecutionWasApproved, KeyedOnce, TaskFollowsItsRecords,
              ExecutionBelongsToItsRun, Executed, IsLast, Exists
<1>. QED
  BY <1>1, <1>2, <1>3, <1>4, RowStep

LEMMA EveryStep ==
    ASSUME GovernedInvariant, [Next]_vars
    PROVE  GovernedInvariant'
<1>1. ASSUME NEW c \in Callers, Call(c) PROVE GovernedInvariant'
  BY <1>1, SubmitRequestStep, CreateRunStep, CallerReads DEF Call
<1>2. ASSUME NEW w \in Workers, NEW r \in Runs, AcquireRun(w, r) PROVE GovernedInvariant'
  BY <1>2, AcquireStep
<1>3. ASSUME NEW p \in Processes, Ready(p) PROVE GovernedInvariant'
  BY <1>3, TakeTurnStep, LinkTickStep, ResolveDecideStep, ExecuteRefusedStep, ExecuteReplayStep,
     ExecuteToolStep, WriteStep, DeadlockStep DEF Ready
<1>. QED
  BY <1>1, <1>2, <1>3, Stuttering DEF Next

(* Whatever the order of requests, ticks, decisions and executions, every    *)
(* open transaction still fits the rows it will write over.                  *)
THEOREM GovernedHolds == Spec => []GovernedInvariant
<1>1. Init => GovernedInvariant
  BY Initially
<1>2. GovernedInvariant /\ [Next]_vars => GovernedInvariant'
  BY EveryStep
<1>. QED
  BY <1>1, <1>2, PTL DEF Spec

(* Rows, transactions and log keep their types.                              *)
THEOREM RowsTyped == Spec => []TypeOK
<1>1. GovernedInvariant => TypeOK
  BY DEF GovernedInvariant
<1>. QED
  BY <1>1, GovernedHolds, PTL

(* Only approved requests are executed, and an executed request stays        *)
(* approved, however many people decide at the same time.                    *)
THEOREM ApprovedHolds == Spec => []ExecutionWasApproved
<1>1. GovernedInvariant => ExecutionWasApproved
  BY DEF GovernedInvariant
<1>. QED
  BY <1>1, GovernedHolds, PTL

(* A tool with an effect outside runs once for a task and a run, whoever     *)
(* executes it: the worker, its retry or any number of callers.              *)
THEOREM KeyedHolds == Spec => []KeyedOnce
<1>1. GovernedInvariant => KeyedOnce
  BY DEF GovernedInvariant
<1>. QED
  BY <1>1, GovernedHolds, PTL

(* A task mirrors its approval until it is executed and its last execution   *)
(* from then on.                                                             *)
THEOREM MirrorHolds == Spec => []TaskFollowsItsRecords
<1>1. GovernedInvariant => TaskFollowsItsRecords
  BY DEF GovernedInvariant
<1>. QED
  BY <1>1, GovernedHolds, PTL

(* An execution names a run of its own task.                                 *)
THEOREM BelongsHolds == Spec => []ExecutionBelongsToItsRun
<1>1. GovernedInvariant => ExecutionBelongsToItsRun
  BY DEF GovernedInvariant
<1>. QED
  BY <1>1, GovernedHolds, PTL

(* No step changes the status of a decided approval.                         *)
LEMMA DecisionStays ==
    ASSUME GovernedInvariant, Next, NEW t \in Tasks,
           approval[t].status \in {"approved", "rejected"}
    PROVE  approval'[t].status = approval[t].status
<1>1. ASSUME NEW c \in Callers, Call(c) PROVE approval'[t].status = approval[t].status
  <2>1. ASSUME NEW u \in Tasks, NEW tool \in Tools, NEW r \in Runs \cup {None},
               NEW routing \in Routings, SubmitRequest(c, u, tool, routing, r)
        PROVE  approval'[t].status = approval[t].status
    <3>1. ~Exists(approval[u])
      BY <2>1, NothingBefore DEF SubmitRequest
    <3>2. u # t
      BY <3>1 DEF Exists
    <3>. QED
      BY <2>1, <3>2, Types DEF SubmitRequest
  <2>. QED
    BY <1>1, <2>1 DEF Call, CreateRun, TickRead, PauseRead, CancelRead, ResumeRead,
                      ResolveRead, ExecuteRead, Open
<1>2. ASSUME NEW w \in Workers, NEW r \in Runs, AcquireRun(w, r)
      PROVE  approval'[t].status = approval[t].status
  BY <1>2 DEF AcquireRun
<1>3. ASSUME NEW p \in Processes, Ready(p) PROVE approval'[t].status = approval[t].status
  <2>1. CASE Write(p)
    <3>1. PICK x : x = tx[p]
      OBVIOUS
    <3>. QED
      BY <2>1, <3>1, WrittenKeeps DEF Exists
  <2>2. CASE ExecuteReplay(p)
    BY <2>2 DEF ExecuteReplay, Proceed
  <2>. QED
    BY <1>3, <2>1, <2>2 DEF Ready, TakeTurn, LinkTick, ResolveDecide, ExecuteRefused,
                            ExecuteTool, Proceed, DeadlockAbort
<1>. QED
  BY <1>1, <1>2, <1>3 DEF Next

(* Once an approval is decided, no later decision, tick or execution, and    *)
(* nothing it read before, changes the decision.                             *)
THEOREM DecisionHolds == Spec => DecisionIsFinal
<1>1. GovernedInvariant /\ [Next]_vars =>
         [\A t \in Tasks : approval[t].status \in {"approved", "rejected"}
              => approval'[t].status = approval[t].status]_vars
  BY DecisionStays
<1>. QED
  BY <1>1, GovernedHolds, PTL DEF Spec, DecisionIsFinal
=============================================================================
