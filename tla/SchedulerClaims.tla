--------------------------- MODULE SchedulerClaims ---------------------------
(***************************************************************************)
(* Durable execution of scheduled workflows on PostgreSQL.                 *)
(*                                                                         *)
(* Worker processes (run_due_workflows_durable) reap expired claims, claim *)
(* a due workflow under a lease, execute it outside any transaction while  *)
(* a heartbeat thread renews the lease, and publish the staged result      *)
(* behind the claim fence.  Callers (run_now_durable) run a workflow by    *)
(* hand without a claim, and editors (configure_workflow) change its       *)
(* configuration.  A committed transaction is one step, except where the   *)
(* code reads without a lock and writes later, and except publication,     *)
(* which holds row locks while it works and reads the clock twice.         *)
(***************************************************************************)
EXTENDS Integers

CONSTANTS
    Workflows,      \* rows of scheduler_workflows of one user
    Runs,           \* identifiers of scheduler_runs rows (a pool, never reused)
    Workers,        \* processes that poll for due workflows
    Callers,        \* sessions that run a workflow by hand
    Editors,        \* sessions that configure a workflow
    Changes,        \* the configuration changes editors may ask for
    Schedules,      \* recurring schedules
    ManualOnly,     \* the schedule of kind "manual", which has no slots
    SlotAfter(_, _),\* SlotAfter(s, t): the first slot of schedule s after time t
    Lease,          \* claim_lease_seconds, in clock ticks
    ScanLimit,      \* the "limit" of one due scan
    MaxTime,        \* bound: the clock stops here
    Horizon,        \* bound: no crash, edit or manual run begins after this time
    MaxVersion,     \* bound: no edit once claim_version has reached this value
    None            \* SQL NULL and Python None

Config == [enabled : BOOLEAN, paused : BOOLEAN, schedule : Schedules \cup {ManualOnly}]

(* A change gives a field its new value, or None for "as it is". *)
Change == [enabled  : BOOLEAN \cup {None},
           paused   : BOOLEAN \cup {None},
           schedule : Schedules \cup {ManualOnly, None}]

ASSUME BoundsAssumption ==
    /\ Lease \in Nat \ {0} /\ ScanLimit \in Nat \ {0}
    /\ MaxTime \in Nat /\ Horizon \in Nat /\ MaxVersion \in Nat

ASSUME NoneAssumption ==
    /\ None \notin Nat /\ None \notin Runs /\ None \notin Workflows
    /\ None \notin BOOLEAN /\ None \notin Schedules /\ None # ManualOnly

ASSUME ChangesAssumption == Changes \subseteq Change

ASSUME ScheduleAssumption == ManualOnly \notin Schedules

(* A slot lies after the moment it is computed for, as compute_next_run_at  *)
(* has it except around a daylight-saving change (see README.md).           *)
ASSUME SlotAssumption ==
    \A s \in Schedules, t \in 0 .. MaxTime : SlotAfter(s, t) \in Nat /\ SlotAfter(s, t) > t

VARIABLES
    now,        \* the clock, shared by the database and its clients
    wf,         \* scheduler_workflows: configuration, next_run_at and claim
    run,        \* scheduler_runs
    worker,     \* local state of the due scans
    caller,     \* local state of the manual runs
    editor,     \* local state of the configuration requests
    published   \* history: the <<workflow, slot>> pairs whose result was published

vars == <<now, wf, run, worker, caller, editor, published>>

Statuses == {"unused", "started", "succeeded", "failed"}
Terminal == {"succeeded", "failed"}

ConfigOf(w) ==
    [enabled |-> wf[w].enabled, paused |-> wf[w].paused, schedule |-> wf[w].schedule]

(* compute_next_run_at, called with the clock of the moment. *)
NextRunAt(c) ==
    IF c.enabled /\ ~c.paused /\ c.schedule # ManualOnly
    THEN SlotAfter(c.schedule, now)
    ELSE None

-----------------------------------------------------------------------------
(* Row values. *)

UnusedRun == [status |-> "unused", workflow |-> None, token |-> None, version |-> 0,
              expires |-> None, slot |-> None, artifact |-> FALSE]

IdleWorker == [pc |-> "idle", checkedAt |-> 0, left |-> 0, run |-> None, version |-> 0,
               config |-> None, failed |-> FALSE, fenceLost |-> FALSE,
               heartbeat |-> "off", renewTo |-> 0]

IdleCaller == [pc |-> "idle", workflow |-> None, run |-> None, config |-> None]

IdleEditor == [pc |-> "idle", workflow |-> None, config |-> None, change |-> None]

Merged(c, change) ==
    [enabled  |-> IF change.enabled = None THEN c.enabled ELSE change.enabled,
     paused   |-> IF change.paused = None THEN c.paused ELSE change.paused,
     schedule |-> IF change.schedule = None THEN c.schedule ELSE change.schedule]

-----------------------------------------------------------------------------
(* Predicates of the SQL statements. *)

Fresh == {r \in Runs : run[r].status = "unused"}

Expired(t, ref) == t # None /\ t <= ref

Unexpired(t) == t # None /\ t > now

(* Faulty variant: no fence. *)
Unfenced(r, version) == TRUE

(* Faulty variant: the fence looks at the lease of the workflow only. *)
LiveByLease(r, version) == Unexpired(wf[run[r].workflow].expires)

(* The fence every heartbeat, publication and finalization checks: both    *)
(* rows still carry this claim and neither lease has run out.              *)
Live(r, version) ==
    LET w == run[r].workflow IN
    /\ run[r].status = "started"
    /\ run[r].token = r /\ run[r].version = version
    /\ Unexpired(run[r].expires)
    /\ wf[w].token = r /\ wf[w].version = version
    /\ Unexpired(wf[w].expires)

(* Rows held by an open publication transaction: the run and its workflow. *)
RunLocked(r) == \E k \in Workers : worker[k].pc = "publishing" /\ worker[k].run = r

WorkflowLocked(w) == \E r \in Runs : RunLocked(r) /\ run[r].workflow = w

(* Faulty variant: a claimed workflow counts as due. *)
DueThoughClaimed(w, ref) ==
    /\ wf[w].enabled /\ ~wf[w].paused
    /\ wf[w].next # None /\ wf[w].next <= ref

Due(w, ref) ==
    /\ wf[w].enabled /\ ~wf[w].paused
    /\ wf[w].next # None /\ wf[w].next <= ref
    /\ wf[w].expires = None \/ wf[w].expires <= ref

(* What the claiming SELECT ... FOR UPDATE SKIP LOCKED can return. *)
Claimable(ref) ==
    {w \in Workflows : /\ Due(w, ref) /\ ~WorkflowLocked(w)
                       /\ \A v \in Workflows : Due(v, ref) /\ ~WorkflowLocked(v)
                                               => wf[w].next <= wf[v].next}

(* Faulty variant: a run whose claim was revoked is not reaped. *)
ReapableIfHeld(ref) ==
    {r \in Runs : /\ run[r].status = "started" /\ run[r].token # None
                  /\ Expired(run[r].expires, ref) /\ ~RunLocked(r)
                  /\ wf[run[r].workflow].token = r}

(* Runs the reaper ends: started under a claim whose lease has run out.     *)
Reapable(ref) ==
    {r \in Runs : /\ run[r].status = "started" /\ run[r].token # None
                  /\ Expired(run[r].expires, ref) /\ ~RunLocked(r)}

(* Faulty variant: the terminal run gives up its token and keeps the lease. *)
FinishedKeepingLease(r, status) ==
    [run[r] EXCEPT !.status = status, !.token = None, !.artifact = (status = "succeeded")]

Finished(r, status) ==
    [run[r] EXCEPT !.status = status, !.token = None, !.expires = None,
                   !.artifact = (status = "succeeded")]

(* Faulty variant: the lease is cleared and the token forgotten. *)
ReleasedKeepingToken(w) == [wf[w] EXCEPT !.expires = None]

(* Faulty variant: the slot is given up together with the claim. *)
ReleasedDroppingSlot(w) ==
    [wf[w] EXCEPT !.token = None, !.expires = None, !.next = None]

Released(w) == [wf[w] EXCEPT !.token = None, !.expires = None]

(* Faulty variant: a configuration change leaves a live claim in place. *)
ReconfiguredKeepingClaim(w, c) ==
    [wf[w] EXCEPT !.enabled = c.enabled, !.paused = c.paused, !.schedule = c.schedule,
                  !.next = NextRunAt(c)]

(* update_scheduler_workflow with a configuration patch. *)
Reconfigured(w, c) ==
    [enabled |-> c.enabled, paused |-> c.paused, schedule |-> c.schedule,
     next |-> NextRunAt(c), token |-> None, version |-> wf[w].version + 1, expires |-> None]

-----------------------------------------------------------------------------
(* Enabled workflows with their first slot ahead, and no run yet: what a      *)
(* database holds that was configured before it had claims (version 0).      *)
Init ==
    /\ now = 0
    /\ \E s \in Schedules :
         wf = [w \in Workflows |->
                 [enabled |-> TRUE, paused |-> FALSE, schedule |-> s,
                  next |-> SlotAfter(s, 0), token |-> None, version |-> 0, expires |-> None]]
    /\ run = [r \in Runs |-> UnusedRun]
    /\ worker = [k \in Workers |-> IdleWorker]
    /\ caller = [c \in Callers |-> IdleCaller]
    /\ editor = [e \in Editors |-> IdleEditor]
    /\ published = {}

Tick ==
    /\ now < MaxTime
    /\ now' = now + 1
    /\ UNCHANGED <<wf, run, worker, caller, editor, published>>

-----------------------------------------------------------------------------
(* The due scan. *)

(* One transaction: fence every abandoned run and release the workflow if  *)
(* it still carries that run's claim.  next_run_at is kept, so the slot is  *)
(* due again.  checked_at stays fixed for the whole scan.                  *)
StartScan(k) ==
    LET reaped == Reapable(now) IN
    /\ worker[k].pc = "idle"
    /\ run' = [r \in Runs |-> IF r \in reaped THEN Finished(r, "failed") ELSE run[r]]
    /\ wf' = [w \in Workflows |->
                IF \E r \in reaped : /\ run[r].workflow = w /\ wf[w].token = r
                                     /\ wf[w].version = run[r].version
                THEN Released(w) ELSE wf[w]]
    /\ worker' = [worker EXCEPT ![k] = [IdleWorker EXCEPT
                    !.pc = "scan", !.checkedAt = now, !.left = ScanLimit]]
    /\ UNCHANGED <<now, caller, editor, published>>

MayClaim(k) == worker[k].pc = "scan" /\ worker[k].left > 0

(* One transaction: a new claim fences every earlier one by its fresh token *)
(* and the next claim_version, and a started run row carries the same pair. *)
Claim(k, w, r) ==
    LET version == wf[w].version + 1 IN
    /\ MayClaim(k)
    /\ w \in Claimable(worker[k].checkedAt)
    /\ r \in Fresh
    /\ wf' = [wf EXCEPT ![w].token = r, ![w].version = version, ![w].expires = now + Lease]
    /\ run' = [run EXCEPT ![r] =
                 [status |-> "started", workflow |-> w, token |-> r, version |-> version,
                  expires |-> now + Lease, slot |-> wf[w].next, artifact |-> FALSE]]
    /\ worker' = [worker EXCEPT ![k].pc = "execute", ![k].run = r, ![k].version = version,
                                ![k].config = ConfigOf(w), ![k].heartbeat = "waiting"]
    /\ UNCHANGED <<now, caller, editor, published>>

(* The loop ends at its limit or when nothing is left to claim; it also ends *)
(* when the bounded pool of run identifiers is used up.                      *)
EndScan(k) ==
    /\ worker[k].pc = "scan"
    /\ worker[k].left = 0 \/ Claimable(worker[k].checkedAt) = {} \/ Fresh = {}
    /\ worker' = [worker EXCEPT ![k] = IdleWorker]
    /\ UNCHANGED <<now, wf, run, caller, editor, published>>

(* The workflow runs against the staged store and either yields a plan or   *)
(* raises; the heartbeat is told to stop, but a renewal already sent may    *)
(* outlive the bounded join.                                                *)
Execute(k, raises) ==
    /\ worker[k].pc = "execute"
    /\ worker' = [worker EXCEPT ![k].pc = "finish", ![k].failed = raises,
                    ![k].heartbeat = IF @ = "sent" THEN "sent" ELSE "off"]
    /\ UNCHANGED <<now, wf, run, caller, editor, published>>

(* The heartbeat thread fixes the new expiry before it opens its transaction. *)
SendHeartbeat(k) ==
    /\ worker[k].pc = "execute" /\ worker[k].heartbeat = "waiting"
    /\ worker' = [worker EXCEPT ![k].heartbeat = "sent", ![k].renewTo = now + Lease]
    /\ UNCHANGED <<now, wf, run, caller, editor, published>>

(* The renewal succeeds behind the fence, on both rows at once.  Otherwise, *)
(* or on any database error, the thread raises the fence-lost flag and ends. *)
RenewClaim(k, connected) ==
    LET r == worker[k].run
        w == run[r].workflow
        renewed == connected /\ Live(r, worker[k].version)
    IN
    /\ worker[k].heartbeat = "sent"
    /\ connected => ~RunLocked(r) /\ ~WorkflowLocked(w)
    /\ IF renewed
       THEN /\ run' = [run EXCEPT ![r].expires = worker[k].renewTo]
            /\ wf' = [wf EXCEPT ![w].expires = worker[k].renewTo]
       ELSE UNCHANGED <<run, wf>>
    /\ worker' = [worker EXCEPT
                    ![k].heartbeat = IF renewed /\ worker[k].pc = "execute"
                                     THEN "waiting" ELSE "off",
                    ![k].fenceLost = @ \/ ~renewed]
    /\ UNCHANGED <<now, caller, editor, published>>

(* lock_scheduler_claim_for_publish: take the row locks if the fence holds. *)
BeginPublish(k) ==
    LET r == worker[k].run IN
    /\ worker[k].pc = "finish" /\ ~worker[k].failed /\ ~worker[k].fenceLost
    /\ ~WorkflowLocked(run[r].workflow)
    /\ worker' = [worker EXCEPT
                    ![k].pc = IF Live(r, worker[k].version) THEN "publishing" ELSE "failing"]
    /\ UNCHANGED <<now, wf, run, caller, editor, published>>

SkipPublish(k) ==
    /\ worker[k].pc = "finish"
    /\ worker[k].failed \/ worker[k].fenceLost
    /\ worker' = [worker EXCEPT ![k].pc = "failing"]
    /\ UNCHANGED <<now, wf, run, caller, editor, published>>

NextIteration(k) ==
    worker' = [worker EXCEPT ![k] = [IdleWorker EXCEPT
                 !.pc = "scan", !.checkedAt = worker[k].checkedAt,
                 !.left = worker[k].left - 1]]

(* Publication, finalize_scheduler_claim with "succeeded", and commit.  The *)
(* fence is checked against the clock once more, and the next slot comes    *)
(* from the configuration read in this transaction.  When the commit is not *)
(* acknowledged the worker takes its failure branch.                        *)
CommitPublish(k, acknowledged) ==
    LET r == worker[k].run
        w == run[r].workflow
    IN
    /\ worker[k].pc = "publishing"
    /\ Live(r, worker[k].version)
    /\ run' = [run EXCEPT ![r] = Finished(r, "succeeded")]
    /\ wf' = [wf EXCEPT ![w] = [Released(w) EXCEPT !.next = NextRunAt(ConfigOf(w))]]
    /\ published' = published \cup {<<w, run[r].slot>>}
    /\ IF acknowledged
       THEN NextIteration(k)
       ELSE worker' = [worker EXCEPT ![k].pc = "failing"]
    /\ UNCHANGED <<now, caller, editor>>

(* Faulty variant: what was already written stays. *)
AbortPublishHalfway(k) ==
    LET r == worker[k].run IN
    /\ worker[k].pc = "publishing"
    /\ worker' = [worker EXCEPT ![k].pc = "failing"]
    /\ published' = published \cup {<<run[r].workflow, run[r].slot>>}
    /\ UNCHANGED <<now, wf, run, caller, editor>>

(* A staged write raises, or the lease ran out while the locks were held:   *)
(* the whole transaction rolls back.                                        *)
AbortPublish(k) ==
    /\ worker[k].pc = "publishing"
    /\ worker' = [worker EXCEPT ![k].pc = "failing"]
    /\ UNCHANGED <<now, wf, run, caller, editor, published>>

(* finalize_scheduler_claim with "failed", behind the same fence; a worker  *)
(* that lost it changes nothing and leaves its run to the reaper.           *)
RecordFailure(k) ==
    LET r == worker[k].run
        w == run[r].workflow
    IN
    /\ worker[k].pc = "failing"
    /\ ~WorkflowLocked(w)
    /\ IF Live(r, worker[k].version)
       THEN /\ run' = [run EXCEPT ![r] = Finished(r, "failed")]
            /\ wf' = [wf EXCEPT ![w] = [Released(w) EXCEPT !.next = NextRunAt(ConfigOf(w))]]
       ELSE UNCHANGED <<run, wf>>
    /\ NextIteration(k)
    /\ UNCHANGED <<now, caller, editor, published>>

(* The process dies, or an exception outside the guarded blocks ends the    *)
(* scan; an open transaction rolls back.                                    *)
Crash(k) ==
    /\ worker[k].pc # "idle" /\ now <= Horizon
    /\ worker' = [worker EXCEPT ![k] = IdleWorker]
    /\ UNCHANGED <<now, wf, run, caller, editor, published>>

-----------------------------------------------------------------------------
(* Manual runs. *)

(* begin_run: the run row has no claim, and the workflow row read here is   *)
(* kept until the run ends.                                                 *)
BeginManual(c, w, r) ==
    /\ caller[c].pc = "idle" /\ now <= Horizon
    /\ r \in Fresh
    /\ run' = [run EXCEPT ![r] = [UnusedRun EXCEPT !.status = "started", !.workflow = w]]
    /\ caller' = [caller EXCEPT ![c] =
                    [pc |-> "prepare", workflow |-> w, run |-> r, config |-> ConfigOf(w)]]
    /\ UNCHANGED <<now, wf, worker, editor, published>>

PrepareManual(c, raises) ==
    /\ caller[c].pc = "prepare"
    /\ caller' = [caller EXCEPT ![c].pc = IF raises THEN "fail" ELSE "publish"]
    /\ UNCHANGED <<now, wf, run, worker, editor, published>>

(* The result bookkeeping of a manual run: run status without a status      *)
(* guard, and next_run_at from the row read when the run began.  A patch of  *)
(* result columns only leaves a live claim in place.                        *)
RecordManual(c, status) ==
    LET r == caller[c].run
        w == caller[c].workflow
    IN
    /\ ~WorkflowLocked(w)
    /\ run' = [run EXCEPT ![r].status = status,
                          ![r].artifact = @ \/ status = "succeeded"]
    /\ wf' = [wf EXCEPT ![w].next = NextRunAt(caller[c].config)]

PublishManual(c, acknowledged) ==
    /\ caller[c].pc = "publish"
    /\ RecordManual(c, "succeeded")
    /\ caller' = IF acknowledged THEN [caller EXCEPT ![c] = IdleCaller]
                                 ELSE [caller EXCEPT ![c].pc = "fail"]
    /\ UNCHANGED <<now, worker, editor, published>>

(* A staged write raises; the transaction rolls back. *)
AbortManual(c) ==
    /\ caller[c].pc = "publish"
    /\ caller' = [caller EXCEPT ![c].pc = "fail"]
    /\ UNCHANGED <<now, wf, run, worker, editor, published>>

FailManual(c) ==
    /\ caller[c].pc = "fail"
    /\ RecordManual(c, "failed")
    /\ caller' = [caller EXCEPT ![c] = IdleCaller]
    /\ UNCHANGED <<now, worker, editor, published>>

(* The run row stays "started": it has no claim for the reaper to expire.   *)
CrashManual(c) ==
    /\ caller[c].pc # "idle" /\ now <= Horizon
    /\ caller' = [caller EXCEPT ![c] = IdleCaller]
    /\ UNCHANGED <<now, wf, run, worker, editor, published>>

-----------------------------------------------------------------------------
(* configure_workflow: an unlocked read, then a write of every field.  The  *)
(* write revokes a live claim.                                              *)

ReadConfig(e, w, change) ==
    /\ editor[e].pc = "idle" /\ now <= Horizon
    /\ editor' = [editor EXCEPT ![e] =
                    [pc |-> "write", workflow |-> w, config |-> ConfigOf(w), change |-> change]]
    /\ UNCHANGED <<now, wf, run, worker, caller, published>>

WriteConfig(e) ==
    LET w == editor[e].workflow
        c == Merged(editor[e].config, editor[e].change)
    IN
    /\ editor[e].pc = "write"
    /\ now <= Horizon /\ wf[w].version < MaxVersion
    /\ ~WorkflowLocked(w)
    /\ wf' = [wf EXCEPT ![w] = Reconfigured(w, c)]
    /\ editor' = [editor EXCEPT ![e] = IdleEditor]
    /\ UNCHANGED <<now, run, worker, caller, published>>

-----------------------------------------------------------------------------
WorkerStep(k) ==
    \/ StartScan(k)
    \/ \E w \in Workflows, r \in Runs : Claim(k, w, r)
    \/ EndScan(k)
    \/ \E raises \in BOOLEAN : Execute(k, raises)
    \/ BeginPublish(k)
    \/ SkipPublish(k)
    \/ \E acknowledged \in BOOLEAN : CommitPublish(k, acknowledged)
    \/ AbortPublish(k)
    \/ RecordFailure(k)

HeartbeatStep(k) ==
    \/ SendHeartbeat(k)
    \/ \E connected \in BOOLEAN : RenewClaim(k, connected)

CallerStep(c) ==
    \/ \E w \in Workflows, r \in Runs : BeginManual(c, w, r)
    \/ \E raises \in BOOLEAN : PrepareManual(c, raises)
    \/ \E acknowledged \in BOOLEAN : PublishManual(c, acknowledged)
    \/ AbortManual(c)
    \/ FailManual(c)
    \/ CrashManual(c)

EditorStep(e) ==
    \/ \E w \in Workflows, change \in Changes : ReadConfig(e, w, change)
    \/ WriteConfig(e)

Next ==
    \/ Tick
    \/ \E k \in Workers : WorkerStep(k) \/ HeartbeatStep(k) \/ Crash(k)
    \/ \E c \in Callers : CallerStep(c)
    \/ \E e \in Editors : EditorStep(e)

Spec == Init /\ [][Next]_vars

(* The clock advances, and every worker process that is alive keeps taking  *)
(* its steps: the daemon polls in a loop and joins its heartbeat thread.     *)
(* Nothing is assumed of callers and editors.                               *)
Fairness ==
    /\ WF_vars(Tick)
    /\ \A k \in Workers : WF_vars(WorkerStep(k))

FairSpec == Spec /\ Fairness

-----------------------------------------------------------------------------
(* Properties. *)

WorkflowRow ==
    [enabled : BOOLEAN, paused : BOOLEAN, schedule : Schedules \cup {ManualOnly},
     next : Nat \cup {None}, token : Runs \cup {None}, version : Nat,
     expires : Nat \cup {None}]

RunRow ==
    [status : Statuses, workflow : Workflows \cup {None}, token : Runs \cup {None},
     version : Nat, expires : Nat \cup {None}, slot : Nat \cup {None}, artifact : BOOLEAN]

WorkerState ==
    [pc : {"idle", "scan", "execute", "finish", "publishing", "failing"},
     checkedAt : Nat, left : Nat, run : Runs \cup {None}, version : Nat,
     config : Config \cup {None}, failed : BOOLEAN, fenceLost : BOOLEAN,
     heartbeat : {"off", "waiting", "sent"}, renewTo : Nat]

CallerState ==
    [pc : {"idle", "prepare", "publish", "fail"}, workflow : Workflows \cup {None},
     run : Runs \cup {None}, config : Config \cup {None}]

EditorState ==
    [pc : {"idle", "write"}, workflow : Workflows \cup {None},
     config : Config \cup {None}, change : Changes \cup {None}]

(* scheduler_runs_claim_shape_check. *)
RunShape == \A r \in Runs : run[r].token = None <=> run[r].expires = None

(* Every row and every local variable has its type, and a run row has a      *)
(* claim token exactly while it has a lease (the CHECK constraint of the     *)
(* table, which would make a commit fail).                                   *)
TypeOK ==
    /\ now \in 0 .. MaxTime
    /\ wf \in [Workflows -> WorkflowRow]
    /\ run \in [Runs -> RunRow]
    /\ RunShape
    /\ worker \in [Workers -> WorkerState]
    /\ caller \in [Callers -> CallerState]
    /\ editor \in [Editors -> EditorState]
    /\ published \subseteq Workflows \X Nat

(* The two rows of a claim never disagree: whatever run a workflow names as *)
(* its claim is still started, belongs to it and has the same version and   *)
(* the same lease end (claim, heartbeat, finalize, reap and edit each write *)
(* both rows or neither).                                                   *)
ClaimRowsAgree ==
    \A w \in Workflows : wf[w].token # None =>
        LET r == wf[w].token IN
        /\ run[r].status = "started" /\ run[r].workflow = w /\ run[r].token = r
        /\ run[r].version = wf[w].version
        /\ run[r].expires = wf[w].expires /\ wf[w].expires # None

(* Fenced publication: whatever workers stall, crash, lose their lease or   *)
(* are reaped while they work, the result of one scheduled slot is          *)
(* published by at most one run.                                            *)
SlotPublishedOnce ==
    \A r1, r2 \in Runs :
        /\ run[r1].status = "succeeded" /\ run[r2].status = "succeeded"
        /\ run[r1].slot # None /\ run[r1].slot = run[r2].slot
        /\ run[r1].workflow = run[r2].workflow
        => r1 = r2

(* All or nothing: the published slots are exactly those of the succeeded   *)
(* claimed runs (publication and finalization share one transaction).       *)
PublishedIffSucceeded ==
    published = {<<run[r].workflow, run[r].slot>> :
                   r \in {q \in Runs : run[q].status = "succeeded" /\ run[q].slot # None}}

(* A worker that still holds its claim works for the configuration it       *)
(* claimed under, and that configuration is enabled and not paused: an edit *)
(* that commits while a workflow runs keeps the stale result from being     *)
(* published (update_scheduler_workflow revokes the claim).                 *)
LiveClaimHasCurrentConfig ==
    \A k \in Workers :
        LET r == worker[k].run
            w == run[r].workflow
        IN  (r # None /\ wf[w].token = r) =>
                /\ worker[k].config = ConfigOf(w)
                /\ wf[w].enabled /\ ~wf[w].paused

(* A run that was claimed and has ended keeps its outcome, whatever late     *)
(* heartbeat, publication or failure report of its worker still arrives.    *)
OutcomeFinal ==
    [][\A r \in Runs : (run[r].status \in Terminal /\ run[r].slot # None)
                         => run'[r] = run[r]]_vars

(* A claim is taken from its run only when the run ends, the lease has run   *)
(* out, or an edit moved the version on; in particular a manual run of the   *)
(* same workflow and another worker's scan leave a live claim alone.         *)
ClaimRevocation ==
    [][\A w \in Workflows :
         (wf[w].token # None /\ wf'[w].token # wf[w].token) =>
            \/ run'[wf[w].token].status \in Terminal
            \/ Expired(wf[w].expires, now)
            \/ \E e \in Editors : WriteConfig(e)]_vars

(* The whole protocol implements the ledger: runs that hold a claim are the  *)
(* holders, manual runs are not part of it.                                  *)
Ledger == INSTANCE ClaimLedger WITH
    Slots   <- 0 .. MaxTime,
    holder  <- [w \in Workflows |-> wf[w].token],
    outcome <- [r \in Runs |-> IF run[r].slot = None THEN "unused" ELSE run[r].status],
    ledger  <- published

ImplementsLedger == Ledger!Spec

(* Every claimed run ends, also when its worker died or lost its claim (the  *)
(* reaper of a later scan ends it).                                          *)
ClaimedRunsEnd ==
    \A r \in Runs : (run[r].status = "started" /\ run[r].slot # None)
                     ~> (run[r].status \in Terminal)

(* A slot that is due does not stay due and is not dropped: a later slot      *)
(* follows it, unless an edit pauses or disables the workflow (as long as     *)
(* run identifiers are left).                                                *)
DueSlotsAdvance ==
    \A w \in Workflows, t \in 0 .. Horizon :
        (wf[w].enabled /\ ~wf[w].paused /\ wf[w].next = t)
            ~> (wf[w].next \notin {t, None} \/ wf[w].paused \/ ~wf[w].enabled \/ Fresh = {})

-----------------------------------------------------------------------------
(* What makes the properties inductive. *)

(* Rows of runs: only a started claimed run carries a token, its own. *)
RunRows ==
    \A r \in Runs :
        /\ run[r].status # "unused" => run[r].workflow \in Workflows
        /\ run[r].status = "unused" => run[r].slot = None
        /\ run[r].token # None =>
              run[r].token = r /\ run[r].status = "started" /\ run[r].slot # None

(* Local variables point at rows of the right kind. *)
LocalState ==
    /\ \A k \in Workers :
         /\ worker[k].checkedAt <= now
         /\ worker[k].heartbeat # "off" => worker[k].pc \notin {"idle", "scan"}
         /\ worker[k].pc \notin {"idle", "scan"} =>
              /\ worker[k].run \in Runs
              /\ run[worker[k].run].status # "unused"
              /\ run[worker[k].run].slot # None
              /\ worker[k].left > 0
    /\ \A c \in Callers : caller[c].pc # "idle" =>
         /\ caller[c].run \in Runs /\ caller[c].workflow \in Workflows
         /\ caller[c].config \in Config
         /\ run[caller[c].run].status # "unused"
         /\ run[caller[c].run].slot = None
    /\ \A e \in Editors : editor[e].pc # "idle" =>
         /\ editor[e].workflow \in Workflows
         /\ editor[e].config \in Config /\ editor[e].change \in Changes

(* The published slots of a workflow lie in the past, before its next slot  *)
(* and before the slot of the run that may publish next.                    *)
SlotsOrdered ==
    /\ \A w \in Workflows : wf[w].token # None => run[wf[w].token].slot <= now
    /\ \A r \in Runs : (run[r].status = "succeeded" /\ run[r].slot # None) =>
         LET w == run[r].workflow IN
         /\ run[r].slot <= now
         /\ wf[w].next # None => run[r].slot < wf[w].next
         /\ wf[w].token # None => run[r].slot < run[wf[w].token].slot

FenceInvariant ==
    /\ TypeOK
    /\ RunRows
    /\ ClaimRowsAgree
    /\ LocalState
    /\ SlotsOrdered
    /\ SlotPublishedOnce
    /\ PublishedIffSucceeded

(* A worker between two claims points at no run. *)
IdleWithoutRun ==
    \A k \in Workers : worker[k].pc \in {"idle", "scan"} => worker[k].run = None

ClaimInvariant == FenceInvariant /\ IdleWithoutRun /\ LiveClaimHasCurrentConfig
=============================================================================
