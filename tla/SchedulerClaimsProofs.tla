----------------------- MODULE SchedulerClaimsProofs -----------------------
(***************************************************************************)
(* Safety of the claim fence, for every number of workflows, runs, workers,*)
(* callers and editors, every lease and every schedule.                    *)
(***************************************************************************)
EXTENDS SchedulerClaims, TLAPS

(* A next slot is a time after now (compute_next_run_at). *)
LEMMA NextRunAtLater ==
    ASSUME NEW c \in Config, now \in 0 .. MaxTime
    PROVE  /\ NextRunAt(c) \in Nat \cup {None}
           /\ NextRunAt(c) # None => NextRunAt(c) > now
BY SlotAssumption, NoneAssumption DEF NextRunAt, Config

(* The configuration columns of a row form a configuration. *)
LEMMA ConfigOfType ==
    ASSUME TypeOK, NEW w \in Workflows
    PROVE  ConfigOf(w) \in Config
BY DEF TypeOK, ConfigOf, Config, WorkflowRow

(* A change merged into a configuration is a configuration. *)
LEMMA MergedType ==
    ASSUME NEW c \in Config, NEW change \in Changes
    PROVE  Merged(c, change) \in Config
<1>1. change \in Change
  BY ChangesAssumption
<1>2. /\ change.enabled \in BOOLEAN \cup {None}
      /\ change.paused \in BOOLEAN \cup {None}
      /\ change.schedule \in Schedules \cup {ManualOnly, None}
  BY <1>1 DEF Change
<1>3. c.enabled \in BOOLEAN /\ c.paused \in BOOLEAN /\ c.schedule \in Schedules \cup {ManualOnly}
  BY DEF Config
<1>4. /\ Merged(c, change).enabled \in BOOLEAN
      /\ Merged(c, change).paused \in BOOLEAN
      /\ Merged(c, change).schedule \in Schedules \cup {ManualOnly}
  BY <1>2, <1>3 DEF Merged
<1>. QED
  BY <1>4 DEF Merged, Config

-----------------------------------------------------------------------------
(* Steps that only change local variables. *)

(* A step of worker-local state keeps the invariant if the new state has its *)
(* type and points at the rows it should.                                    *)
LEMMA WorkerOnly ==
    ASSUME FenceInvariant,
           UNCHANGED <<now, wf, run, caller, editor, published>>,
           NEW k \in Workers, NEW s \in WorkerState,
           worker' = [worker EXCEPT ![k] = s],
           s.checkedAt <= now,
           s.heartbeat # "off" => s.pc \notin {"idle", "scan"},
           s.pc \notin {"idle", "scan"} =>
              /\ s.run \in Runs /\ run[s.run].status # "unused" /\ run[s.run].slot # None
              /\ s.left > 0
    PROVE  FenceInvariant'
<1>1. TypeOK'
  BY DEF FenceInvariant, TypeOK, RunShape
<1>2. LocalState'
  BY DEF FenceInvariant, TypeOK, LocalState
<1>3. RunRows' /\ ClaimRowsAgree' /\ SlotsOrdered' /\ SlotPublishedOnce' /\ PublishedIffSucceeded'
  BY DEF FenceInvariant, RunRows, ClaimRowsAgree, SlotsOrdered, SlotPublishedOnce,
         PublishedIffSucceeded
<1>. QED
  BY <1>1, <1>2, <1>3 DEF FenceInvariant

(* Every step of a worker that touches no table keeps the invariant. *)
LEMMA WorkerLocalSteps ==
    ASSUME FenceInvariant, NEW k \in Workers,
           \/ EndScan(k)
           \/ \E raises \in BOOLEAN : Execute(k, raises)
           \/ SendHeartbeat(k)
           \/ BeginPublish(k)
           \/ SkipPublish(k)
           \/ AbortPublish(k)
           \/ Crash(k)
    PROVE  FenceInvariant'
<1>. USE DEF WorkerState
<1>0. /\ worker[k] \in WorkerState
      /\ worker \in [Workers -> WorkerState]
      /\ worker[k].checkedAt <= now /\ now \in Nat
      /\ worker[k].heartbeat # "off" => worker[k].pc \notin {"idle", "scan"}
      /\ worker[k].pc \notin {"idle", "scan"} =>
            /\ worker[k].run \in Runs /\ run[worker[k].run].status # "unused"
            /\ run[worker[k].run].slot # None /\ worker[k].left > 0
  BY DEF FenceInvariant, TypeOK, LocalState
<1>idle. IdleWorker \in WorkerState /\ IdleWorker.checkedAt <= now
         /\ IdleWorker.heartbeat = "off" /\ IdleWorker.pc = "idle"
  BY <1>0 DEF IdleWorker
<1>1. CASE EndScan(k) \/ Crash(k)
  BY <1>1, <1>idle, WorkerOnly DEF EndScan, Crash
<1>2. CASE \E raises \in BOOLEAN : Execute(k, raises)
  <2>1. PICK raises \in BOOLEAN : Execute(k, raises)
    BY <1>2
  <2>. DEFINE s == [worker[k] EXCEPT !.pc = "finish", !.failed = raises,
                      !.heartbeat = IF @ = "sent" THEN "sent" ELSE "off"]
  <2>2. s \in WorkerState
    BY <1>0
  <2>3. worker' = [worker EXCEPT ![k] = s]
    BY <1>0, <2>1 DEF Execute
  <2>4. /\ s.checkedAt = worker[k].checkedAt /\ s.pc = "finish" /\ s.run = worker[k].run /\ s.left = worker[k].left
        /\ worker[k].pc = "execute"
        /\ UNCHANGED <<now, wf, run, caller, editor, published>>
    BY <1>0, <2>1 DEF Execute
  <2>. HIDE DEF s
  <2>. QED
    BY <1>0, <2>2, <2>3, <2>4, WorkerOnly
<1>3. CASE SendHeartbeat(k)
  <2>. DEFINE s == [worker[k] EXCEPT !.heartbeat = "sent", !.renewTo = now + Lease]
  <2>1. now + Lease \in Nat
    BY <1>0, BoundsAssumption
  <2>2. s \in WorkerState
    BY <1>0, <2>1
  <2>3. worker' = [worker EXCEPT ![k] = s]
    BY <1>0, <1>3 DEF SendHeartbeat
  <2>4. /\ s.checkedAt = worker[k].checkedAt /\ s.pc = "execute" /\ s.run = worker[k].run /\ s.left = worker[k].left
        /\ worker[k].pc = "execute"
        /\ UNCHANGED <<now, wf, run, caller, editor, published>>
    BY <1>0, <1>3 DEF SendHeartbeat
  <2>. HIDE DEF s
  <2>. QED
    BY <1>0, <2>2, <2>3, <2>4, WorkerOnly
<1>4. CASE BeginPublish(k) \/ SkipPublish(k) \/ AbortPublish(k)
  <2>1. PICK pc \in {"publishing", "failing"} : worker' = [worker EXCEPT ![k].pc = pc]
    BY <1>4 DEF BeginPublish, SkipPublish, AbortPublish
  <2>. DEFINE s == [worker[k] EXCEPT !.pc = pc]
  <2>2. s \in WorkerState
    BY <1>0
  <2>3. worker' = [worker EXCEPT ![k] = s]
    BY <1>0, <2>1
  <2>. QED
    BY <1>0, <1>4, <2>2, <2>3, WorkerOnly DEF BeginPublish, SkipPublish, AbortPublish
<1>. QED
  BY <1>1, <1>2, <1>3, <1>4

(* Time passing keeps the invariant. *)
LEMMA TickStep ==
    ASSUME FenceInvariant, Tick
    PROVE  FenceInvariant'
<1>1. TypeOK'
  BY BoundsAssumption DEF FenceInvariant, TypeOK, RunShape, Tick
<1>2. LocalState'
  BY DEF FenceInvariant, TypeOK, LocalState, Tick, WorkerState
<1>3. RunRows' /\ ClaimRowsAgree' /\ SlotPublishedOnce' /\ PublishedIffSucceeded'
  BY DEF FenceInvariant, RunRows, ClaimRowsAgree, SlotPublishedOnce,
         PublishedIffSucceeded, Tick
<1>4. SlotsOrdered'
  <2>1. \A r \in Runs : run[r].slot \in Nat \cup {None}
    BY DEF FenceInvariant, TypeOK, RunRow
  <2>2. \A w \in Workflows : wf[w].token # None => wf[w].token \in Runs
    BY DEF FenceInvariant, TypeOK, WorkflowRow
  <2>3. \A w \in Workflows : wf[w].token # None => run[wf[w].token].slot # None
    BY <2>2 DEF FenceInvariant, ClaimRowsAgree, RunRows, TypeOK, WorkflowRow
  <2>4. now \in Nat /\ now' = now + 1
    BY DEF FenceInvariant, TypeOK, Tick
  <2>. QED
    BY <2>1, <2>2, <2>3, <2>4, NoneAssumption DEF FenceInvariant, SlotsOrdered, Tick
<1>. QED
  BY <1>1, <1>2, <1>3, <1>4 DEF FenceInvariant

-----------------------------------------------------------------------------
(* Steps of callers and editors that change no table. *)

(* An edit that has only read the configuration changes no row.              *)
LEMMA EditorRead ==
    ASSUME FenceInvariant, NEW e \in Editors, NEW w \in Workflows, NEW change \in Changes,
           ReadConfig(e, w, change)
    PROVE  FenceInvariant'
<1>1. ConfigOf(w) \in Config
  BY ConfigOfType DEF FenceInvariant
<1>2. TypeOK'
  BY <1>1 DEF FenceInvariant, TypeOK, RunShape, ReadConfig, EditorState
<1>3. LocalState'
  BY <1>1 DEF FenceInvariant, TypeOK, LocalState, ReadConfig, EditorState
<1>4. RunRows' /\ ClaimRowsAgree' /\ SlotsOrdered' /\ SlotPublishedOnce' /\ PublishedIffSucceeded'
  BY DEF FenceInvariant, RunRows, ClaimRowsAgree, SlotsOrdered, SlotPublishedOnce,
         PublishedIffSucceeded, ReadConfig
<1>. QED
  BY <1>2, <1>3, <1>4 DEF FenceInvariant

(* Manual runs between their two writes change no row.                       *)
LEMMA CallerLocalSteps ==
    ASSUME FenceInvariant, NEW c \in Callers,
           \/ \E raises \in BOOLEAN : PrepareManual(c, raises)
           \/ AbortManual(c)
           \/ CrashManual(c)
    PROVE  FenceInvariant'
<1>1. PICK s \in CallerState :
         /\ caller' = [caller EXCEPT ![c] = s]
         /\ s.pc = "idle" \/ (caller[c].pc # "idle" /\ s = [caller[c] EXCEPT !.pc = s.pc])
         /\ UNCHANGED <<now, wf, run, worker, editor, published>>
  <2>1. caller \in [Callers -> CallerState] /\ caller[c] \in CallerState
    BY DEF FenceInvariant, TypeOK
  <2>2. CASE CrashManual(c)
    <3>1. IdleCaller \in CallerState /\ IdleCaller.pc = "idle"
      BY DEF IdleCaller, CallerState
    <3>. QED
      BY <2>2, <3>1 DEF CrashManual
  <2>3. CASE (\E raises \in BOOLEAN : PrepareManual(c, raises)) \/ AbortManual(c)
    <3>1. PICK pc \in {"publish", "fail"} :
             /\ caller' = [caller EXCEPT ![c].pc = pc] /\ caller[c].pc # "idle"
             /\ UNCHANGED <<now, wf, run, worker, editor, published>>
      BY <2>3 DEF PrepareManual, AbortManual
    <3>2. [caller[c] EXCEPT !.pc = pc] \in CallerState
      BY <2>1 DEF CallerState
    <3>. QED
      BY <2>1, <3>1, <3>2 DEF CallerState
  <2>. QED
    BY <2>2, <2>3
<1>2. TypeOK'
  BY <1>1 DEF FenceInvariant, TypeOK, RunShape
<1>3. LocalState'
  BY <1>1 DEF FenceInvariant, TypeOK, LocalState, CallerState
<1>4. RunRows' /\ ClaimRowsAgree' /\ SlotsOrdered' /\ SlotPublishedOnce' /\ PublishedIffSucceeded'
  BY <1>1 DEF FenceInvariant, RunRows, ClaimRowsAgree, SlotsOrdered, SlotPublishedOnce,
         PublishedIffSucceeded
<1>. QED
  BY <1>2, <1>3, <1>4 DEF FenceInvariant

-----------------------------------------------------------------------------
(* Rows after finalization and after release. *)

(* The row of a run that ends: its claim is gone, its slot stays.            *)
LEMMA FinishedRow ==
    ASSUME run \in [Runs -> RunRow], NEW r \in Runs, NEW status \in Terminal
    PROVE  /\ Finished(r, status) \in RunRow
           /\ Finished(r, status).status = status
           /\ Finished(r, status).token = None
           /\ Finished(r, status).expires = None
           /\ Finished(r, status).workflow = run[r].workflow
           /\ Finished(r, status).version = run[r].version
           /\ Finished(r, status).slot = run[r].slot
<1>1. run[r] \in RunRow
  OBVIOUS
<1>2. (status = "succeeded") \in BOOLEAN
  OBVIOUS
<1>. QED
  BY <1>1, <1>2 DEF Finished, RunRow, Terminal, Statuses

(* The row of a workflow whose claim is released keeps its next slot.        *)
LEMMA ReleasedRow ==
    ASSUME wf \in [Workflows -> WorkflowRow], NEW w \in Workflows
    PROVE  /\ Released(w) \in WorkflowRow
           /\ Released(w).token = None
           /\ Released(w).expires = None
           /\ Released(w).version = wf[w].version
           /\ Released(w).next = wf[w].next
<1>1. wf[w] \in WorkflowRow
  OBVIOUS
<1>. QED
  BY <1>1 DEF Released, WorkflowRow

-----------------------------------------------------------------------------
(* Steps of the due scan that change rows. *)

(* The reaper ends expired runs and releases the workflows that still carry  *)
(* their claim.                                                              *)
LEMMA StartScanStep ==
    ASSUME FenceInvariant, NEW k \in Workers, StartScan(k)
    PROVE  FenceInvariant'
<1>. DEFINE reaped == Reapable(now)
<1>1. /\ now \in 0 .. MaxTime /\ wf \in [Workflows -> WorkflowRow]
      /\ run \in [Runs -> RunRow] /\ worker \in [Workers -> WorkerState]
  BY DEF FenceInvariant, TypeOK
<1>2. \A r \in reaped : r \in Runs /\ run[r].status = "started" /\ run[r].token = r
                        /\ run[r].slot # None
  BY DEF Reapable, FenceInvariant, RunRows
<1>3. run' = [r \in Runs |-> IF r \in reaped THEN Finished(r, "failed") ELSE run[r]]
  BY DEF StartScan
<1>4. wf' = [w \in Workflows |-> IF wf[w].token \in reaped THEN Released(w) ELSE wf[w]]
  <2>1. \A w \in Workflows, r \in reaped :
           (wf[w].token = r) => (run[r].workflow = w /\ wf[w].version = run[r].version)
    BY <1>2, NoneAssumption DEF FenceInvariant, ClaimRowsAgree
  <2>. QED
    BY <2>1 DEF StartScan
<1>5. UNCHANGED <<now, caller, editor, published>>
  BY DEF StartScan
<1>6. worker' = [worker EXCEPT ![k] = [IdleWorker EXCEPT
                    !.pc = "scan", !.checkedAt = now, !.left = ScanLimit]]
  BY DEF StartScan
<1>7. \A r \in Runs :
         /\ run'[r] \in RunRow
         /\ run'[r].slot = run[r].slot /\ run'[r].workflow = run[r].workflow
         /\ run'[r].version = run[r].version
         /\ r \in reaped => /\ run'[r].status = "failed" /\ run'[r].token = None
                            /\ run'[r].expires = None /\ run[r].status = "started"
         /\ r \notin reaped => run'[r] = run[r]
  BY <1>1, <1>2, <1>3, FinishedRow DEF Terminal
<1>8. \A w \in Workflows :
         /\ wf'[w] \in WorkflowRow
         /\ wf'[w].next = wf[w].next
         /\ wf[w].token \in reaped => wf'[w].token = None
         /\ wf[w].token \notin reaped => wf'[w] = wf[w]
  BY <1>1, <1>4, ReleasedRow
<1>. HIDE DEF reaped
<1>9. TypeOK'
  <2>1. wf' \in [Workflows -> WorkflowRow]
    BY <1>4, <1>8
  <2>2. run' \in [Runs -> RunRow]
    BY <1>3, <1>7
  <2>3. [IdleWorker EXCEPT !.pc = "scan", !.checkedAt = now, !.left = ScanLimit] \in WorkerState
    <3>1. now \in Nat /\ ScanLimit \in Nat
      BY <1>1, BoundsAssumption
    <3>2. IdleWorker \in WorkerState
      BY DEF IdleWorker, WorkerState
    <3>. QED
      BY <3>1, <3>2 DEF WorkerState
  <2>4. RunShape'
    BY <1>7 DEF FenceInvariant, TypeOK, RunShape
  <2>. QED
    BY <1>1, <1>5, <1>6, <2>1, <2>2, <2>3, <2>4 DEF FenceInvariant, TypeOK
<1>10. RunRows'
  BY <1>7 DEF FenceInvariant, RunRows
<1>11. ClaimRowsAgree'
  <2>1. \A w \in Workflows : wf[w].token # None => wf[w].token \in Runs
    BY <1>1 DEF WorkflowRow
  <2>. QED
    BY <1>7, <1>8, <2>1 DEF FenceInvariant, ClaimRowsAgree
<1>12. LocalState'
  <2>1. worker'[k].pc = "scan" /\ worker'[k].checkedAt = now /\ worker'[k].heartbeat = "off"
        /\ \A j \in Workers \ {k} : worker'[j] = worker[j]
    BY <1>1, <1>6 DEF IdleWorker
  <2>2. \A r \in Runs : run[r].status # "unused" => run'[r].status # "unused"
    BY <1>7
  <2>. QED
    BY <1>1, <1>5, <1>7, <2>1, <2>2 DEF FenceInvariant, LocalState
<1>13. \A r \in Runs : (run'[r].status = "succeeded") <=> (run[r].status = "succeeded")
  BY <1>7
<1>14. SlotsOrdered'
  <2>1. \A w \in Workflows : wf'[w].token # None =>
           wf'[w].token = wf[w].token /\ wf[w].token \in Runs
    BY <1>1, <1>8 DEF WorkflowRow
  <2>2. \A r \in Runs : run[r].status # "unused" => run[r].workflow \in Workflows
    BY DEF FenceInvariant, RunRows
  <2>. QED
    BY <1>5, <1>7, <1>8, <1>13, <2>1, <2>2 DEF FenceInvariant, SlotsOrdered
<1>15. SlotPublishedOnce'
  BY <1>7, <1>13 DEF FenceInvariant, SlotPublishedOnce
<1>16. PublishedIffSucceeded'
  BY <1>5, <1>7, <1>13 DEF FenceInvariant, PublishedIffSucceeded
<1>. QED
  BY <1>9, <1>10, <1>11, <1>12, <1>14, <1>15, <1>16 DEF FenceInvariant

(* A claim names a fresh run on both rows; its slot is due and later than    *)
(* every published one.                                                      *)
LEMMA ClaimStep ==
    ASSUME FenceInvariant, NEW k \in Workers, NEW w \in Workflows, NEW r \in Runs,
           Claim(k, w, r)
    PROVE  FenceInvariant'
<1>. DEFINE version == wf[w].version + 1
            W == [wf[w] EXCEPT !.token = r, !.version = version, !.expires = now + Lease]
            R == [status |-> "started", workflow |-> w, token |-> r, version |-> version,
                  expires |-> now + Lease, slot |-> wf[w].next, artifact |-> FALSE]
            K == [worker[k] EXCEPT !.pc = "execute", !.run = r, !.version = version,
                                   !.config = ConfigOf(w), !.heartbeat = "waiting"]
<1>1. /\ now \in Nat /\ wf \in [Workflows -> WorkflowRow]
      /\ run \in [Runs -> RunRow] /\ worker \in [Workers -> WorkerState]
      /\ now + Lease \in Nat
  BY BoundsAssumption DEF FenceInvariant, TypeOK
<1>2. /\ run[r].status = "unused" /\ worker[k].checkedAt <= now
      /\ wf[w].next # None /\ wf[w].next <= worker[k].checkedAt /\ worker[k].left > 0
  BY DEF Claim, MayClaim, Claimable, Due, Fresh, FenceInvariant, LocalState
<1>3. /\ wf' = [wf EXCEPT ![w] = W] /\ run' = [run EXCEPT ![r] = R]
      /\ worker' = [worker EXCEPT ![k] = K]
      /\ UNCHANGED <<now, caller, editor, published>>
  BY <1>1 DEF Claim
<1>4. wf[w] \in WorkflowRow /\ wf[w].version \in Nat /\ wf[w].next \in Nat /\ version \in Nat
  BY <1>1, <1>2 DEF WorkflowRow
<1>5. W \in WorkflowRow /\ W.token = r /\ W.version = version /\ W.expires = now + Lease
      /\ W.next = wf[w].next
  BY <1>1, <1>4 DEF WorkflowRow
<1>6. R \in RunRow
  BY <1>1, <1>4 DEF RunRow, Statuses
<1>7. K \in WorkerState /\ K.checkedAt = worker[k].checkedAt /\ K.run = r /\ K.pc = "execute"
      /\ K.left = worker[k].left
  <2>1. worker[k] \in WorkerState /\ ConfigOf(w) \in Config
    BY <1>1, ConfigOfType DEF FenceInvariant
  <2>. QED
    BY <1>4, <2>1 DEF WorkerState
<1>. HIDE DEF W, K
<1>8. TypeOK'
  <2>1. RunShape'
    BY <1>1, <1>3, NoneAssumption DEF FenceInvariant, TypeOK, RunShape
  <2>. HIDE DEF R
  <2>. QED
    BY <1>1, <1>3, <1>5, <1>6, <1>7, <2>1 DEF FenceInvariant, TypeOK
<1>9. \A v \in Workflows : wf[v].token # r
  BY <1>2, NoneAssumption DEF FenceInvariant, ClaimRowsAgree
<1>10. \A q \in Runs : q # r => run'[q] = run[q]
  BY <1>1, <1>3
<1>11. run'[r] = R
  BY <1>1, <1>3
<1>12. \A v \in Workflows : IF v = w THEN wf'[v] = W ELSE wf'[v] = wf[v]
  BY <1>1, <1>3
<1>13. RunRows'
  BY <1>4, <1>10, <1>11, NoneAssumption DEF FenceInvariant, RunRows
<1>14. ClaimRowsAgree'
  <2>1. SUFFICES ASSUME NEW v \in Workflows, wf'[v].token # None
                 PROVE  LET q == wf'[v].token IN
                        /\ run'[q].status = "started" /\ run'[q].workflow = v /\ run'[q].token = q
                        /\ run'[q].version = wf'[v].version
                        /\ run'[q].expires = wf'[v].expires /\ wf'[v].expires # None
    BY DEF ClaimRowsAgree
  <2>2. CASE v = w
    BY <1>1, <1>5, <1>11, <1>12, <2>2, NoneAssumption
  <2>3. CASE v # w
    <3>1. wf'[v] = wf[v] /\ wf[v].token \in Runs /\ wf[v].token # r
      BY <1>1, <1>9, <1>12, <2>1, <2>3 DEF WorkflowRow
    <3>. QED
      BY <1>10, <2>1, <3>1 DEF FenceInvariant, ClaimRowsAgree
  <2>. QED
    BY <2>2, <2>3
<1>15. LocalState'
  <2>1. \A q \in Runs : run[q].status # "unused" => run'[q] = run[q]
    BY <1>2, <1>10
  <2>2. worker'[k] = K /\ \A j \in Workers : j # k => worker'[j] = worker[j]
    BY <1>1, <1>3
  <2>3. run'[r].status # "unused" /\ run'[r].slot # None
    BY <1>4, <1>11, NoneAssumption
  <2>4. \A j \in Workers : /\ worker'[j].checkedAt <= now
                           /\ worker'[j].heartbeat # "off" => worker'[j].pc \notin {"idle", "scan"}
    BY <1>2, <1>7, <2>2 DEF FenceInvariant, LocalState
  <2>5. \A j \in Workers : worker'[j].pc \notin {"idle", "scan"} =>
              /\ worker'[j].run \in Runs
              /\ run'[worker'[j].run].status # "unused"
              /\ run'[worker'[j].run].slot # None
              /\ worker'[j].left > 0
    BY <1>2, <1>7, <2>1, <2>2, <2>3 DEF FenceInvariant, LocalState
  <2>6. \A c \in Callers : caller[c].pc # "idle" => run'[caller[c].run] = run[caller[c].run]
    BY <2>1 DEF FenceInvariant, LocalState
  <2>. QED
    BY <1>3, <2>4, <2>5, <2>6 DEF FenceInvariant, LocalState
<1>16. SlotsOrdered'
  <2>1. \A q \in Runs : (run'[q].status = "succeeded") => (q # r /\ run'[q] = run[q])
    BY <1>10, <1>11
  <2>2. \A v \in Workflows : wf[v].token # None => wf[v].token \in Runs
    BY <1>1 DEF WorkflowRow
  <2>3. \A v \in Workflows : wf'[v].next = wf[v].next
    BY <1>5, <1>12
  <2>4. \A v \in Workflows : v # w => wf'[v].token = wf[v].token
    BY <1>12
  <2>5. wf'[w].token = r /\ run'[r].slot = wf[w].next /\ wf[w].next <= now
    BY <1>1, <1>2, <1>4, <1>5, <1>11, <1>12, <1>7 DEF FenceInvariant, TypeOK, WorkerState
  <2>6. \A v \in Workflows : wf'[v].token # None => run'[wf'[v].token].slot <= now
    BY <1>9, <1>10, <2>2, <2>4, <2>5 DEF FenceInvariant, SlotsOrdered
  <2>7. SUFFICES ASSUME NEW q \in Runs, run'[q].status = "succeeded", run'[q].slot # None
                 PROVE  LET v == run'[q].workflow IN
                        /\ run'[q].slot <= now
                        /\ wf'[v].next # None => run'[q].slot < wf'[v].next
                        /\ wf'[v].token # None => run'[q].slot < run'[wf'[v].token].slot
    BY <1>3, <2>6 DEF SlotsOrdered
  <2>. DEFINE v == run[q].workflow
  <2>8. /\ q # r /\ run'[q] = run[q] /\ v \in Workflows
        /\ run[q].slot <= now
        /\ wf[v].next # None => run[q].slot < wf[v].next
        /\ wf[v].token # None => run[q].slot < run[wf[v].token].slot
    BY <2>1, <2>7 DEF FenceInvariant, SlotsOrdered, RunRows
  <2>9. wf'[v].token # None => run[q].slot < run'[wf'[v].token].slot
    <3>1. CASE v = w
      BY <1>2, <2>5, <2>8, <3>1
    <3>2. CASE v # w
      BY <1>9, <1>10, <2>2, <2>4, <2>8, <3>2
    <3>. QED
      BY <3>1, <3>2
  <2>. QED
    BY <2>3, <2>8, <2>9
<1>17. SlotPublishedOnce'
  BY <1>2, <1>10, <1>11 DEF FenceInvariant, SlotPublishedOnce
<1>18. PublishedIffSucceeded'
  BY <1>2, <1>3, <1>10, <1>11 DEF FenceInvariant, PublishedIffSucceeded
<1>. QED
  BY <1>8, <1>13, <1>14, <1>15, <1>16, <1>17, <1>18 DEF FenceInvariant

(* finalize_scheduler_claim behind the fence: the run ends, the workflow is   *)
(* released and gets a slot later than the one that was worked on.           *)
LEMMA FinalizeRows ==
    ASSUME FenceInvariant, NEW r \in Runs, NEW w \in Workflows, NEW status \in Terminal,
           w = run[r].workflow, run[r].status = "started", wf[w].token = r,
           run' = [run EXCEPT ![r] = Finished(r, status)],
           wf' = [wf EXCEPT ![w] = [Released(w) EXCEPT !.next = NextRunAt(ConfigOf(w))]],
           now' = now,
           published' = IF status = "succeeded" THEN published \cup {<<w, run[r].slot>>}
                                                ELSE published
    PROVE  /\ wf' \in [Workflows -> WorkflowRow] /\ run' \in [Runs -> RunRow]
           /\ published' \subseteq Workflows \X Nat
           /\ \A q \in Runs : /\ run'[q].slot = run[q].slot
                              /\ run[q].status # "unused" => run'[q].status # "unused"
           /\ RunShape' /\ RunRows' /\ ClaimRowsAgree' /\ SlotsOrdered'
           /\ SlotPublishedOnce' /\ PublishedIffSucceeded'
<1>. DEFINE next == NextRunAt(ConfigOf(w))
            W == [Released(w) EXCEPT !.next = next]
            R == Finished(r, status)
<1>1. /\ now \in Nat /\ now \in 0 .. MaxTime /\ wf \in [Workflows -> WorkflowRow]
      /\ run \in [Runs -> RunRow] /\ published \subseteq Workflows \X Nat
  BY BoundsAssumption DEF FenceInvariant, TypeOK
<1>2. next \in Nat \cup {None} /\ (next # None => next > now)
  BY <1>1, NextRunAtLater, ConfigOfType DEF FenceInvariant
<1>3. W \in WorkflowRow /\ W.token = None /\ W.next = next
  <2>1. Released(w) \in WorkflowRow /\ Released(w).token = None
    BY <1>1, ReleasedRow
  <2>. HIDE DEF next
  <2>. QED
    BY <1>2, <2>1 DEF WorkflowRow
<1>4. /\ R \in RunRow /\ R.status = status /\ R.token = None /\ R.expires = None
      /\ R.workflow = w /\ R.slot = run[r].slot
  BY <1>1, FinishedRow
<1>5. /\ run[r].slot \in Nat /\ run[r].slot <= now
  <2>1. run[r].slot # None
    BY NoneAssumption DEF FenceInvariant, ClaimRowsAgree, RunRows
  <2>2. run[r].slot \in Nat \cup {None}
    BY <1>1 DEF RunRow
  <2>. QED
    BY <2>1, <2>2, NoneAssumption DEF FenceInvariant, SlotsOrdered
<1>. HIDE DEF W, R, next
<1>6. /\ run'[r] = R /\ \A q \in Runs : q # r => run'[q] = run[q]
      /\ wf'[w] = W /\ \A v \in Workflows : v # w => wf'[v] = wf[v]
  BY <1>1 DEF W, R, next
<1>7. wf' \in [Workflows -> WorkflowRow] /\ run' \in [Runs -> RunRow]
  BY <1>1, <1>3, <1>4 DEF W, R, next
<1>8. published' \subseteq Workflows \X Nat
  BY <1>1, <1>5
<1>9. \A q \in Runs : /\ run'[q].slot = run[q].slot /\ run'[q].workflow = run[q].workflow
                      /\ run[q].status # "unused" => run'[q].status # "unused"
                      /\ q # r => run'[q] = run[q]
  BY <1>4, <1>6 DEF Terminal
<1>10. RunRows'
  BY <1>4, <1>6 DEF FenceInvariant, RunRows, Terminal
<1>11. \A v \in Workflows : wf'[v].token # None =>
          /\ v # w /\ wf'[v] = wf[v] /\ wf[v].token \in Runs /\ wf[v].token # r
          /\ run'[wf[v].token] = run[wf[v].token]
  <2>1. \A v \in Workflows : wf[v].token # None => wf[v].token \in Runs
    BY <1>1 DEF WorkflowRow
  <2>2. \A v \in Workflows : wf[v].token = r => v = w
    BY NoneAssumption DEF FenceInvariant, ClaimRowsAgree
  <2>. QED
    BY <1>3, <1>6, <2>1, <2>2
<1>12. ClaimRowsAgree'
  BY <1>11 DEF FenceInvariant, ClaimRowsAgree
<1>13. SlotsOrdered'
  <2>1. \A v \in Workflows : wf'[v].token # None => run'[wf'[v].token].slot <= now
    BY <1>11 DEF FenceInvariant, SlotsOrdered
  <2>2. SUFFICES ASSUME NEW q \in Runs, run'[q].status = "succeeded", run'[q].slot # None
                 PROVE  LET v == run'[q].workflow IN
                        /\ run'[q].slot <= now
                        /\ wf'[v].next # None => run'[q].slot < wf'[v].next
                        /\ wf'[v].token # None => run'[q].slot < run'[wf'[v].token].slot
    BY <2>1 DEF SlotsOrdered
  <2>. DEFINE v == run[q].workflow
  <2>3. v \in Workflows /\ run[q].slot \in Nat /\ run'[q].slot = run[q].slot
        /\ run'[q].workflow = v
    <3>1. run[q].status # "unused"
      BY <1>6, <2>2
    <3>2. run[q].slot \in Nat \cup {None}
      BY <1>1 DEF RunRow
    <3>. QED
      BY <1>9, <2>2, <3>1, <3>2 DEF FenceInvariant, RunRows
  <2>4. run[q].slot <= now
    BY <1>5, <1>6, <2>2, <2>3 DEF FenceInvariant, SlotsOrdered
  <2>5. CASE v = w
    <3>1. wf'[v].token = None /\ wf'[v].next = next
      BY <1>3, <1>6, <2>5
    <3>2. next # None => run[q].slot < next
      BY <1>1, <1>2, <2>3, <2>4
    <3>. HIDE DEF v
    <3>. QED
      BY <2>3, <2>4, <3>1, <3>2
  <2>6. CASE v # w
    <3>1. q # r /\ run[q].status = "succeeded"
      BY <1>6, <2>2, <2>6
    <3>. QED
      BY <1>6, <1>11, <2>2, <2>3, <2>4, <2>6, <3>1 DEF FenceInvariant, SlotsOrdered
  <2>. QED
    BY <2>5, <2>6
<1>14. SlotPublishedOnce'
  <2>1. \A q \in Runs : (run[q].status = "succeeded" /\ run[q].slot # None /\ run[q].workflow = w)
                        => run[q].slot < run[r].slot
    BY NoneAssumption DEF FenceInvariant, SlotsOrdered
  <2>2. SUFFICES ASSUME NEW r1 \in Runs, NEW r2 \in Runs,
                        run'[r1].status = "succeeded", run'[r2].status = "succeeded",
                        run'[r1].slot # None, run'[r1].slot = run'[r2].slot,
                        run'[r1].workflow = run'[r2].workflow
                 PROVE  r1 = r2
    BY DEF SlotPublishedOnce
  <2>3. CASE r1 = r
    BY <1>5, <1>9, <2>1, <2>2, <2>3
  <2>4. CASE r2 = r
    BY <1>5, <1>9, <2>1, <2>2, <2>4
  <2>5. CASE r1 # r /\ r2 # r
    BY <1>9, <2>2, <2>5 DEF FenceInvariant, SlotPublishedOnce
  <2>. QED
    BY <2>3, <2>4, <2>5
<1>15. PublishedIffSucceeded'
  <2>1. CASE status = "succeeded"
    <3>1. run'[r].status = "succeeded" /\ run'[r].slot # None
      BY <1>4, <1>5, <1>6, <2>1, NoneAssumption
    <3>2. {q \in Runs : run'[q].status = "succeeded" /\ run'[q].slot # None}
          = {q \in Runs : run[q].status = "succeeded" /\ run[q].slot # None} \cup {r}
      BY <1>6, <3>1
    <3>. QED
      BY <1>9, <2>1, <3>2 DEF FenceInvariant, PublishedIffSucceeded
  <2>2. CASE status # "succeeded"
    <3>1. {q \in Runs : run'[q].status = "succeeded" /\ run'[q].slot # None}
          = {q \in Runs : run[q].status = "succeeded" /\ run[q].slot # None}
      BY <1>4, <1>6, <2>2
    <3>. QED
      BY <1>9, <2>2, <3>1 DEF FenceInvariant, PublishedIffSucceeded
  <2>. QED
    BY <2>1, <2>2
<1>16. RunShape'
  BY <1>4, <1>6 DEF FenceInvariant, TypeOK, RunShape
<1>. QED
  BY <1>7, <1>8, <1>9, <1>10, <1>12, <1>13, <1>14, <1>15, <1>16

(* The worker's part of a step that ends a claimed run. *)
LEMMA WorkerAfterRows ==
    ASSUME FenceInvariant, NEW k \in Workers, NEW s \in WorkerState,
           worker' = [worker EXCEPT ![k] = s], s.checkedAt <= now,
           s.heartbeat # "off" => s.pc \notin {"idle", "scan"},
           s.pc \notin {"idle", "scan"} =>
              /\ s.run \in Runs /\ run[s.run].status # "unused" /\ run[s.run].slot # None
              /\ s.left > 0,
           UNCHANGED <<now, caller, editor>>,
           wf' \in [Workflows -> WorkflowRow], run' \in [Runs -> RunRow],
           RunShape', published' \subseteq Workflows \X Nat,
           \A q \in Runs : /\ run'[q].slot = run[q].slot
                           /\ run[q].status # "unused" => run'[q].status # "unused"
    PROVE  TypeOK' /\ LocalState'
<1>1. TypeOK'
  BY DEF FenceInvariant, TypeOK
<1>2. LocalState'
  BY DEF FenceInvariant, TypeOK, LocalState
<1>. QED
  BY <1>1, <1>2

(* The loop goes on with one iteration less. *)
LEMMA NextIterationState ==
    ASSUME NEW k \in Workers, worker[k] \in WorkerState, worker[k].left > 0,
           NextIteration(k)
    PROVE  \E s \in WorkerState :
              /\ worker' = [worker EXCEPT ![k] = s] /\ s.checkedAt = worker[k].checkedAt
              /\ s.heartbeat = "off" /\ s.pc = "scan"
<1>. DEFINE s == [IdleWorker EXCEPT !.pc = "scan", !.checkedAt = worker[k].checkedAt,
                                    !.left = worker[k].left - 1]
<1>1. worker[k].left - 1 \in Nat /\ worker[k].checkedAt \in Nat
  BY DEF WorkerState
<1>2. IdleWorker \in WorkerState /\ IdleWorker.heartbeat = "off"
  BY DEF IdleWorker, WorkerState
<1>3. s \in WorkerState
  BY <1>1, <1>2 DEF WorkerState
<1>4. s.checkedAt = worker[k].checkedAt /\ s.heartbeat = "off" /\ s.pc = "scan"
  BY <1>2 DEF IdleWorker
<1>5. worker' = [worker EXCEPT ![k] = s]
  BY DEF NextIteration
<1>. QED
  BY <1>3, <1>4, <1>5

(* Publication commits only behind the fence. *)
LEMMA CommitPublishStep ==
    ASSUME FenceInvariant, NEW k \in Workers, NEW acknowledged \in BOOLEAN,
           CommitPublish(k, acknowledged)
    PROVE  FenceInvariant'
<1>. DEFINE r == worker[k].run
            w == run[r].workflow
<1>1. /\ worker \in [Workers -> WorkerState] /\ worker[k] \in WorkerState
      /\ worker[k].checkedAt <= now
      /\ r \in Runs /\ run[r].status = "started" /\ wf[w].token = r /\ w \in Workflows
      /\ run[r].slot # None
  BY DEF CommitPublish, Live, FenceInvariant, LocalState, RunRows, TypeOK
<1>2. /\ run' = [run EXCEPT ![r] = Finished(r, "succeeded")]
      /\ wf' = [wf EXCEPT ![w] = [Released(w) EXCEPT !.next = NextRunAt(ConfigOf(w))]]
      /\ published' = published \cup {<<w, run[r].slot>>}
      /\ UNCHANGED <<now, caller, editor>>
  BY DEF CommitPublish
<1>3. /\ wf' \in [Workflows -> WorkflowRow] /\ run' \in [Runs -> RunRow]
      /\ published' \subseteq Workflows \X Nat
      /\ \A q \in Runs : /\ run'[q].slot = run[q].slot
                         /\ run[q].status # "unused" => run'[q].status # "unused"
      /\ RunShape' /\ RunRows' /\ ClaimRowsAgree' /\ SlotsOrdered'
      /\ SlotPublishedOnce' /\ PublishedIffSucceeded'
  BY <1>1, <1>2, FinalizeRows DEF Terminal
<1>4. PICK s \in WorkerState :
         /\ worker' = [worker EXCEPT ![k] = s] /\ s.checkedAt = worker[k].checkedAt
         /\ s.heartbeat # "off" => s.pc \notin {"idle", "scan"}
         /\ s.pc \notin {"idle", "scan"} => s.run = r /\ s.left > 0
  <2>1. worker[k].pc = "publishing"
    BY DEF CommitPublish
  <2>2. worker[k].left > 0
    BY <2>1 DEF FenceInvariant, LocalState
  <2>3. CASE acknowledged
    BY <1>1, <2>2, <2>3, NextIterationState DEF CommitPublish
  <2>4. CASE ~acknowledged
    <3>. DEFINE s == [worker[k] EXCEPT !.pc = "failing"]
    <3>1. s \in WorkerState /\ s.checkedAt = worker[k].checkedAt /\ s.pc = "failing"
          /\ s.run = worker[k].run /\ s.left = worker[k].left
      BY <1>1 DEF WorkerState
    <3>2. worker' = [worker EXCEPT ![k] = s]
      BY <1>1, <2>4 DEF CommitPublish
    <3>. HIDE DEF s
    <3>. QED
      BY <2>2, <3>1, <3>2
  <2>. QED
    BY <2>3, <2>4
<1>. QED
  BY <1>1, <1>2, <1>3, <1>4, WorkerAfterRows DEF FenceInvariant

(* A failure is recorded behind the same fence or not at all. *)
LEMMA RecordFailureStep ==
    ASSUME FenceInvariant, NEW k \in Workers, RecordFailure(k)
    PROVE  FenceInvariant'
<1>. DEFINE r == worker[k].run
            w == run[r].workflow
<1>1. /\ worker[k] \in WorkerState /\ worker[k].checkedAt <= now /\ worker[k].left > 0
      /\ r \in Runs /\ run[r].status # "unused" /\ w \in Workflows
  BY DEF RecordFailure, FenceInvariant, LocalState, RunRows, TypeOK
<1>2. PICK s \in WorkerState :
         /\ worker' = [worker EXCEPT ![k] = s] /\ s.checkedAt = worker[k].checkedAt
         /\ s.heartbeat = "off" /\ s.pc = "scan"
  BY <1>1, NextIterationState DEF RecordFailure
<1>3. UNCHANGED <<now, caller, editor, published>>
  BY DEF RecordFailure
<1>4. CASE Live(r, worker[k].version)
  <2>1. run[r].status = "started" /\ wf[w].token = r
    BY <1>4 DEF Live
  <2>2. /\ run' = [run EXCEPT ![r] = Finished(r, "failed")]
        /\ wf' = [wf EXCEPT ![w] = [Released(w) EXCEPT !.next = NextRunAt(ConfigOf(w))]]
    BY <1>4 DEF RecordFailure
  <2>3. /\ wf' \in [Workflows -> WorkflowRow] /\ run' \in [Runs -> RunRow]
        /\ published' \subseteq Workflows \X Nat
        /\ \A q \in Runs : /\ run'[q].slot = run[q].slot
                           /\ run[q].status # "unused" => run'[q].status # "unused"
        /\ RunShape' /\ RunRows' /\ ClaimRowsAgree' /\ SlotsOrdered'
        /\ SlotPublishedOnce' /\ PublishedIffSucceeded'
    BY <1>1, <1>3, <2>1, <2>2, FinalizeRows DEF Terminal
  <2>. QED
    BY <1>1, <1>2, <1>3, <2>3, WorkerAfterRows DEF FenceInvariant
<1>5. CASE ~Live(r, worker[k].version)
  <2>1. UNCHANGED <<run, wf>>
    BY <1>5 DEF RecordFailure
  <2>. QED
    BY <1>1, <1>2, <1>3, <2>1, WorkerOnly
<1>. QED
  BY <1>4, <1>5

(* A renewal moves the lease end of both rows together, or of neither. *)
LEMMA RenewClaimStep ==
    ASSUME FenceInvariant, NEW k \in Workers, NEW connected \in BOOLEAN,
           RenewClaim(k, connected)
    PROVE  FenceInvariant'
<1>. DEFINE r == worker[k].run
            w == run[r].workflow
            t == worker[k].renewTo
            renewed == connected /\ Live(r, worker[k].version)
            s == [worker[k] EXCEPT
                    !.heartbeat = IF renewed /\ worker[k].pc = "execute" THEN "waiting" ELSE "off",
                    !.fenceLost = @ \/ ~renewed]
<1>1. /\ worker \in [Workers -> WorkerState] /\ worker[k] \in WorkerState
      /\ wf \in [Workflows -> WorkflowRow] /\ run \in [Runs -> RunRow]
      /\ worker[k].pc \notin {"idle", "scan"} /\ worker[k].left > 0 /\ worker[k].checkedAt <= now
      /\ r \in Runs /\ run[r].status # "unused" /\ run[r].slot # None /\ w \in Workflows
      /\ t \in Nat
  BY DEF RenewClaim, FenceInvariant, LocalState, RunRows, TypeOK, WorkerState
<1>2. UNCHANGED <<now, caller, editor, published>> /\ worker' = [worker EXCEPT ![k] = s]
  BY <1>1 DEF RenewClaim
<1>3. s \in WorkerState /\ s.checkedAt = worker[k].checkedAt /\ s.pc = worker[k].pc
      /\ s.run = r /\ s.left = worker[k].left
  BY <1>1 DEF WorkerState
<1>. HIDE DEF s
<1>4. CASE renewed
  <2>. DEFINE W == [wf[w] EXCEPT !.expires = t]
              R == [run[r] EXCEPT !.expires = t]
  <2>1. run[r].status = "started" /\ run[r].token = r /\ wf[w].token = r
    BY <1>4 DEF Live
  <2>2. run' = [run EXCEPT ![r] = R] /\ wf' = [wf EXCEPT ![w] = W]
    BY <1>1, <1>4 DEF RenewClaim
  <2>3. W \in WorkflowRow /\ W.token = r /\ W.version = wf[w].version /\ W.expires = t
        /\ W.next = wf[w].next
    BY <1>1, <2>1 DEF WorkflowRow
  <2>4. R \in RunRow /\ R.status = "started" /\ R.token = run[r].token /\ R.expires = t
        /\ R.version = run[r].version /\ R.slot = run[r].slot /\ R.workflow = w
    BY <1>1, <2>1 DEF RunRow
  <2>. HIDE DEF W, R
  <2>5. /\ run'[r] = R /\ \A q \in Runs : q # r => run'[q] = run[q]
        /\ wf'[w] = W /\ \A v \in Workflows : v # w => wf'[v] = wf[v]
    BY <1>1, <2>2
  <2>6. wf' \in [Workflows -> WorkflowRow] /\ run' \in [Runs -> RunRow]
    BY <1>1, <2>2, <2>3, <2>4
  <2>7. \A q \in Runs : /\ run'[q].status = run[q].status /\ run'[q].slot = run[q].slot
                        /\ run'[q].workflow = run[q].workflow /\ run'[q].token = run[q].token
                        /\ run'[q].version = run[q].version
                        /\ run'[q].expires = IF q = r THEN t ELSE run[q].expires
    BY <2>1, <2>4, <2>5
  <2>8. \A v \in Workflows : /\ wf'[v].token = wf[v].token /\ wf'[v].next = wf[v].next
                             /\ wf'[v].version = wf[v].version
                             /\ wf'[v].expires = IF v = w THEN t ELSE wf[v].expires
    BY <2>1, <2>3, <2>5
  <2>9. \A v \in Workflows : wf[v].token # None => wf[v].token \in Runs
    BY <1>1 DEF WorkflowRow
  <2>10. TypeOK' /\ LocalState'
    <3>1. published' \subseteq Workflows \X Nat
      BY <1>2 DEF FenceInvariant, TypeOK
    <3>2. \A q \in Runs : /\ run'[q].slot = run[q].slot
                         /\ run[q].status # "unused" => run'[q].status # "unused"
      BY <2>7
    <3>. QED
      <4>1. /\ s \in WorkerState /\ s.checkedAt <= now /\ s.left > 0
            /\ s.pc \notin {"idle", "scan"}
            /\ s.run \in Runs /\ run[s.run].status # "unused" /\ run[s.run].slot # None
        BY <1>1, <1>3
      <4>2. worker' = [worker EXCEPT ![k] = s] /\ UNCHANGED <<now, caller, editor>>
        BY <1>2
      <4>3. TypeOK'
        <5>1. RunShape'
          BY <1>1, <2>1, <2>4, <2>5, NoneAssumption DEF FenceInvariant, TypeOK, RunShape
        <5>. QED
          BY <2>6, <3>1, <4>1, <4>2, <5>1 DEF FenceInvariant, TypeOK
      <4>4. LocalState'
        <5>1. worker'[k] = s /\ \A j \in Workers : j # k => worker'[j] = worker[j]
          BY <1>1, <4>2
        <5>2. \A q \in Runs : run'[q].slot = run[q].slot /\ run'[q].status = run[q].status
          BY <2>7
        <5>. HIDE DEF r, w, t, renewed
        <5>3. \A j \in Workers :
                 /\ worker'[j].checkedAt <= now'
                 /\ worker'[j].heartbeat # "off" => worker'[j].pc \notin {"idle", "scan"}
                 /\ worker'[j].pc \notin {"idle", "scan"} =>
                      /\ worker'[j].run \in Runs
                      /\ run'[worker'[j].run].status # "unused"
                      /\ run'[worker'[j].run].slot # None
                      /\ worker'[j].left > 0
          BY <4>1, <4>2, <5>1, <5>2 DEF FenceInvariant, LocalState
        <5>. QED
          BY <4>2, <5>2, <5>3 DEF FenceInvariant, LocalState
      <4>. QED
        BY <4>3, <4>4
  <2>11. RunRows'
    BY <2>7 DEF FenceInvariant, RunRows
  <2>12. ClaimRowsAgree'
    <3>1. \A v \in Workflows : wf[v].token # None =>
             (wf[v].token = r <=> v = w) /\ t # None
      BY <1>1, <2>1, NoneAssumption DEF FenceInvariant, ClaimRowsAgree
    <3>. QED
      BY <2>7, <2>8, <2>9, <3>1 DEF FenceInvariant, ClaimRowsAgree
  <2>13. SlotsOrdered'
    <3>1. \A q \in Runs : run[q].status # "unused" => run[q].workflow \in Workflows
      BY DEF FenceInvariant, RunRows
    <3>. QED
      BY <1>2, <2>7, <2>8, <2>9, <3>1 DEF FenceInvariant, SlotsOrdered
  <2>14. SlotPublishedOnce' /\ PublishedIffSucceeded'
    BY <1>2, <2>7 DEF FenceInvariant, SlotPublishedOnce, PublishedIffSucceeded
  <2>. QED
    BY <2>10, <2>11, <2>12, <2>13, <2>14 DEF FenceInvariant
<1>5. CASE ~renewed
  <2>1. UNCHANGED <<run, wf>>
    BY <1>5 DEF RenewClaim
  <2>. QED
    BY <1>1, <1>2, <1>3, <2>1, WorkerOnly
<1>. QED
  BY <1>4, <1>5

-----------------------------------------------------------------------------
(* Manual runs and edits. *)

(* A manual run begins without a claim and without a slot. *)
LEMMA BeginManualStep ==
    ASSUME FenceInvariant, NEW c \in Callers, NEW w \in Workflows, NEW r \in Runs,
           BeginManual(c, w, r)
    PROVE  FenceInvariant'
<1>. DEFINE R == [UnusedRun EXCEPT !.status = "started", !.workflow = w]
            C == [pc |-> "prepare", workflow |-> w, run |-> r, config |-> ConfigOf(w)]
<1>1. /\ wf \in [Workflows -> WorkflowRow] /\ run \in [Runs -> RunRow]
      /\ caller \in [Callers -> CallerState] /\ ConfigOf(w) \in Config
      /\ run[r].status = "unused" /\ run[r].slot = None
  BY ConfigOfType DEF BeginManual, Fresh, FenceInvariant, TypeOK, RunRows
<1>2. /\ run' = [run EXCEPT ![r] = R] /\ caller' = [caller EXCEPT ![c] = C]
      /\ UNCHANGED <<now, wf, worker, editor, published>>
  BY DEF BeginManual
<1>3. R \in RunRow /\ R.status = "started" /\ R.workflow = w /\ R.token = None /\ R.slot = None
      /\ R.expires = None
  BY DEF UnusedRun, RunRow, Statuses
<1>4. C \in CallerState
  BY <1>1 DEF CallerState
<1>. HIDE DEF R
<1>5. run'[r] = R /\ \A q \in Runs : q # r => run'[q] = run[q]
  BY <1>1, <1>2
<1>6. TypeOK'
  <2>1. RunShape'
    BY <1>3, <1>5 DEF FenceInvariant, TypeOK, RunShape
  <2>. QED
    BY <1>1, <1>2, <1>3, <1>4, <2>1 DEF FenceInvariant, TypeOK
<1>7. RunRows'
  BY <1>3, <1>5 DEF FenceInvariant, RunRows
<1>8. \A v \in Workflows : wf[v].token # None => wf[v].token \in Runs /\ wf[v].token # r
  BY <1>1 DEF WorkflowRow, FenceInvariant, ClaimRowsAgree
<1>9. ClaimRowsAgree'
  BY <1>2, <1>5, <1>8 DEF FenceInvariant, ClaimRowsAgree
<1>10. LocalState'
  <2>1. \A q \in Runs : run'[q].slot = run[q].slot
                        /\ (run[q].status # "unused" => run'[q].status # "unused")
    BY <1>1, <1>3, <1>5
  <2>2. \A d \in Callers : caller'[d] = IF d = c THEN C ELSE caller[d]
    BY <1>1, <1>2
  <2>3. run'[r].status # "unused"
    BY <1>3, <1>5
  <2>. QED
    BY <1>1, <1>2, <2>1, <2>2, <2>3 DEF FenceInvariant, LocalState
<1>11. SlotsOrdered'
  <2>1. \A q \in Runs : (run'[q].status = "succeeded" /\ run'[q].slot # None) =>
           q # r /\ run'[q] = run[q] /\ run[q].workflow \in Workflows
    BY <1>3, <1>5 DEF FenceInvariant, RunRows
  <2>2. \A v \in Workflows : wf[v].token # None => run'[wf[v].token] = run[wf[v].token]
    BY <1>5, <1>8
  <2>. QED
    BY <1>2, <2>1, <2>2 DEF FenceInvariant, SlotsOrdered
<1>12. SlotPublishedOnce' /\ PublishedIffSucceeded'
  BY <1>1, <1>2, <1>3, <1>5 DEF FenceInvariant, SlotPublishedOnce, PublishedIffSucceeded
<1>. QED
  BY <1>6, <1>7, <1>9, <1>10, <1>11, <1>12 DEF FenceInvariant

(* The result of a manual run moves next_run_at to a later slot, or to none,  *)
(* and leaves every claim alone.                                             *)
LEMMA RecordManualStep ==
    ASSUME FenceInvariant, NEW c \in Callers, NEW status \in Terminal, NEW C \in CallerState,
           caller[c].pc # "idle", RecordManual(c, status),
           caller' = [caller EXCEPT ![c] = C],
           C.pc # "idle" => /\ C.run = caller[c].run /\ C.workflow = caller[c].workflow
                            /\ C.config = caller[c].config,
           UNCHANGED <<now, worker, editor, published>>
    PROVE  FenceInvariant'
<1>. DEFINE r == caller[c].run
            w == caller[c].workflow
            next == NextRunAt(caller[c].config)
            R == [run[r] EXCEPT !.status = status, !.artifact = @ \/ status = "succeeded"]
            W == [wf[w] EXCEPT !.next = next]
<1>1. /\ wf \in [Workflows -> WorkflowRow] /\ run \in [Runs -> RunRow]
      /\ caller \in [Callers -> CallerState] /\ now \in 0 .. MaxTime /\ now \in Nat
      /\ r \in Runs /\ w \in Workflows /\ caller[c].config \in Config
      /\ run[r].status # "unused" /\ run[r].slot = None /\ run[r].token = None
  BY BoundsAssumption DEF FenceInvariant, TypeOK, LocalState, RunRows
<1>2. next \in Nat \cup {None} /\ (next # None => next > now)
  BY <1>1, NextRunAtLater
<1>3. run' = [run EXCEPT ![r] = R] /\ wf' = [wf EXCEPT ![w] = W]
  BY <1>1 DEF RecordManual
<1>. HIDE DEF next
<1>4. R \in RunRow /\ R.status = status /\ R.workflow = run[r].workflow /\ R.token = None
      /\ R.slot = None /\ R.expires = run[r].expires
  BY <1>1 DEF RunRow, Terminal, Statuses
<1>5. W \in WorkflowRow /\ W.token = wf[w].token /\ W.version = wf[w].version
      /\ W.expires = wf[w].expires /\ W.next = next
  BY <1>1, <1>2 DEF WorkflowRow
<1>. HIDE DEF R, W
<1>6. /\ run'[r] = R /\ \A q \in Runs : q # r => run'[q] = run[q]
      /\ wf'[w] = W /\ \A v \in Workflows : v # w => wf'[v] = wf[v]
  BY <1>1, <1>3
<1>7. TypeOK'
  <2>1. RunShape'
    BY <1>1, <1>4, <1>6 DEF FenceInvariant, TypeOK, RunShape
  <2>. QED
    BY <1>1, <1>3, <1>4, <1>5, <2>1 DEF FenceInvariant, TypeOK
<1>8. RunRows'
  BY <1>1, <1>4, <1>6 DEF FenceInvariant, RunRows, Terminal
<1>9. \A v \in Workflows :
         /\ wf'[v].token = wf[v].token /\ wf'[v].version = wf[v].version
         /\ wf'[v].expires = wf[v].expires
         /\ wf'[v].next = IF v = w THEN next ELSE wf[v].next
         /\ wf[v].token # None => /\ wf[v].token \in Runs
                                  /\ run'[wf[v].token] = run[wf[v].token]
  <2>1. \A v \in Workflows : wf[v].token # None => wf[v].token \in Runs /\ wf[v].token # r
    BY <1>1 DEF WorkflowRow, FenceInvariant, ClaimRowsAgree
  <2>. QED
    BY <1>5, <1>6, <2>1
<1>10. ClaimRowsAgree'
  BY <1>9 DEF FenceInvariant, ClaimRowsAgree
<1>11. LocalState'
  <2>1. \A q \in Runs : run'[q].slot = run[q].slot
                        /\ (run[q].status # "unused" => run'[q].status # "unused")
    BY <1>1, <1>4, <1>6 DEF Terminal
  <2>2. \A d \in Callers : caller'[d] = IF d = c THEN C ELSE caller[d]
    BY <1>1
  <2>3. C.pc # "idle" => /\ C.run = r /\ C.workflow \in Workflows /\ C.config \in Config
                         /\ run'[r].status # "unused" /\ run'[r].slot = None
    BY <1>1, <2>1
  <2>. QED
    BY <1>1, <2>1, <2>2, <2>3 DEF FenceInvariant, LocalState
<1>12. SlotsOrdered'
  <2>1. SUFFICES ASSUME NEW q \in Runs, run'[q].status = "succeeded", run'[q].slot # None
                 PROVE  LET v == run'[q].workflow IN
                        /\ run'[q].slot <= now
                        /\ wf'[v].next # None => run'[q].slot < wf'[v].next
                        /\ wf'[v].token # None => run'[q].slot < run'[wf'[v].token].slot
    BY <1>9 DEF FenceInvariant, SlotsOrdered
  <2>2. /\ run'[q] = run[q] /\ run[q].workflow \in Workflows /\ run[q].slot \in Nat
        /\ run[q].slot <= now
    BY <1>1, <1>4, <1>6, <2>1 DEF FenceInvariant, RunRows, RunRow, SlotsOrdered
  <2>3. next # None => run[q].slot < next
    BY <1>1, <1>2, <2>2
  <2>. QED
    BY <1>9, <2>1, <2>2, <2>3 DEF FenceInvariant, SlotsOrdered
<1>13. \A q \in Runs : (run'[q].status = "succeeded" /\ run'[q].slot # None)
                       <=> (run[q].status = "succeeded" /\ run[q].slot # None)
  BY <1>1, <1>4, <1>6
<1>14. \A q \in Runs : run'[q].slot = run[q].slot /\ run'[q].workflow = run[q].workflow
  BY <1>1, <1>4, <1>6
<1>15. SlotPublishedOnce'
  BY <1>13, <1>14 DEF FenceInvariant, SlotPublishedOnce
<1>16. PublishedIffSucceeded'
  BY <1>13, <1>14 DEF FenceInvariant, PublishedIffSucceeded
<1>. QED
  BY <1>7, <1>8, <1>10, <1>11, <1>12, <1>15, <1>16 DEF FenceInvariant

(* An edit revokes the claim of the workflow and starts a later slot. *)
LEMMA WriteConfigStep ==
    ASSUME FenceInvariant, NEW e \in Editors, WriteConfig(e)
    PROVE  FenceInvariant'
<1>. DEFINE w == editor[e].workflow
            g == Merged(editor[e].config, editor[e].change)
            next == NextRunAt(g)
            W == Reconfigured(w, g)
<1>1. /\ wf \in [Workflows -> WorkflowRow] /\ run \in [Runs -> RunRow]
      /\ editor \in [Editors -> EditorState] /\ now \in 0 .. MaxTime /\ now \in Nat
      /\ w \in Workflows /\ editor[e].config \in Config /\ editor[e].change \in Changes
  BY BoundsAssumption DEF WriteConfig, FenceInvariant, TypeOK, LocalState
<1>2. g \in Config
  BY <1>1, MergedType
<1>. HIDE DEF g
<1>3. next \in Nat \cup {None} /\ (next # None => next > now)
  BY <1>1, <1>2, NextRunAtLater
<1>4. W.token = None /\ W.next = next /\ W \in WorkflowRow
  <2>1. wf[w].version + 1 \in Nat
    BY <1>1 DEF WorkflowRow
  <2>2. g.enabled \in BOOLEAN /\ g.paused \in BOOLEAN /\ g.schedule \in Schedules \cup {ManualOnly}
    BY <1>2 DEF Config
  <2>. HIDE DEF next
  <2>3. W = [enabled |-> g.enabled, paused |-> g.paused, schedule |-> g.schedule,
             next |-> next, token |-> None, version |-> wf[w].version + 1, expires |-> None]
    BY DEF Reconfigured, next
  <2>. QED
    BY <1>3, <2>1, <2>2, <2>3 DEF WorkflowRow
<1>5. /\ wf' = [wf EXCEPT ![w] = W] /\ editor' = [editor EXCEPT ![e] = IdleEditor]
      /\ UNCHANGED <<now, run, worker, caller, published>>
  BY DEF WriteConfig, g
<1>. HIDE DEF W, next
<1>7. wf'[w] = W /\ \A v \in Workflows : v # w => wf'[v] = wf[v]
  BY <1>1, <1>5
<1>8. IdleEditor \in EditorState /\ IdleEditor.pc = "idle"
  BY DEF IdleEditor, EditorState
<1>9. TypeOK'
  BY <1>1, <1>4, <1>5, <1>8 DEF FenceInvariant, TypeOK, RunShape
<1>10. RunRows' /\ SlotPublishedOnce' /\ PublishedIffSucceeded'
  BY <1>5 DEF FenceInvariant, RunRows, SlotPublishedOnce, PublishedIffSucceeded
<1>11. ClaimRowsAgree'
  BY <1>4, <1>5, <1>7 DEF FenceInvariant, ClaimRowsAgree
<1>12. LocalState'
  BY <1>1, <1>5, <1>8 DEF FenceInvariant, LocalState
<1>13. SlotsOrdered'
  <2>1. SUFFICES ASSUME NEW q \in Runs, run[q].status = "succeeded", run[q].slot # None
                 PROVE  LET v == run[q].workflow IN
                        /\ run[q].slot <= now
                        /\ wf'[v].next # None => run[q].slot < wf'[v].next
                        /\ wf'[v].token # None => run[q].slot < run[wf'[v].token].slot
    BY <1>4, <1>5, <1>7 DEF FenceInvariant, SlotsOrdered
  <2>2. run[q].workflow \in Workflows /\ run[q].slot \in Nat /\ run[q].slot <= now
    BY <1>1, <2>1 DEF FenceInvariant, RunRows, RunRow, SlotsOrdered
  <2>3. next # None => run[q].slot < next
    BY <1>1, <1>3, <2>2
  <2>. QED
    BY <1>4, <1>7, <2>1, <2>2, <2>3 DEF FenceInvariant, SlotsOrdered
<1>. QED
  BY <1>9, <1>10, <1>11, <1>12, <1>13 DEF FenceInvariant

-----------------------------------------------------------------------------
(* The initial state has no claim, no run and no publication. *)
LEMMA InitFence == Init => FenceInvariant
<1>. SUFFICES ASSUME Init PROVE FenceInvariant
  OBVIOUS
<1>1. PICK s \in Schedules :
         wf = [w \in Workflows |->
                 [enabled |-> TRUE, paused |-> FALSE, schedule |-> s,
                  next |-> SlotAfter(s, 0), token |-> None, version |-> 0, expires |-> None]]
  BY DEF Init
<1>2. SlotAfter(s, 0) \in Nat
  <2>1. 0 \in 0 .. MaxTime
    BY BoundsAssumption
  <2>. QED
    BY <2>1, SlotAssumption
<1>3. UnusedRun \in RunRow /\ UnusedRun.status = "unused" /\ UnusedRun.slot = None
      /\ UnusedRun.token = None /\ UnusedRun.expires = None
  BY DEF UnusedRun, RunRow, Statuses
<1>4. IdleWorker \in WorkerState /\ IdleWorker.pc = "idle" /\ IdleWorker.heartbeat = "off"
      /\ IdleWorker.checkedAt = 0
  BY DEF IdleWorker, WorkerState
<1>5. IdleCaller \in CallerState /\ IdleCaller.pc = "idle"
  BY DEF IdleCaller, CallerState
<1>6. IdleEditor \in EditorState /\ IdleEditor.pc = "idle"
  BY DEF IdleEditor, EditorState
<1>7. TypeOK
  <2>1. wf \in [Workflows -> WorkflowRow]
    BY <1>1, <1>2 DEF WorkflowRow
  <2>2. now \in 0 .. MaxTime
    BY BoundsAssumption DEF Init
  <2>. QED
    BY <1>3, <1>4, <1>5, <1>6, <2>1, <2>2 DEF Init, TypeOK, RunShape
<1>8. RunRows /\ ClaimRowsAgree /\ LocalState /\ SlotsOrdered
  BY <1>1, <1>3, <1>4, <1>5, <1>6 DEF Init, RunRows, ClaimRowsAgree, LocalState, SlotsOrdered
<1>9. SlotPublishedOnce /\ PublishedIffSucceeded
  BY <1>3 DEF Init, SlotPublishedOnce, PublishedIffSucceeded
<1>. QED
  BY <1>7, <1>8, <1>9 DEF FenceInvariant

(* Every step keeps the invariant. *)
LEMMA NextFence == FenceInvariant /\ [Next]_vars => FenceInvariant'
<1>. SUFFICES ASSUME FenceInvariant, [Next]_vars PROVE FenceInvariant'
  OBVIOUS
<1>1. CASE UNCHANGED vars
  BY <1>1 DEF vars, FenceInvariant, TypeOK, RunShape, RunRows, ClaimRowsAgree, LocalState, SlotsOrdered,
              SlotPublishedOnce, PublishedIffSucceeded
<1>2. CASE Tick
  BY <1>2, TickStep
<1>3. ASSUME NEW k \in Workers, WorkerStep(k) \/ HeartbeatStep(k) \/ Crash(k)
      PROVE  FenceInvariant'
  BY <1>3, StartScanStep, ClaimStep, WorkerLocalSteps, CommitPublishStep, RecordFailureStep,
     RenewClaimStep DEF WorkerStep, HeartbeatStep
<1>4. ASSUME NEW c \in Callers, CallerStep(c)
      PROVE  FenceInvariant'
  <2>1. CASE \E w \in Workflows, r \in Runs : BeginManual(c, w, r)
    BY <2>1, BeginManualStep
  <2>2. CASE \/ \E raises \in BOOLEAN : PrepareManual(c, raises)
             \/ AbortManual(c) \/ CrashManual(c)
    BY <2>2, CallerLocalSteps
  <2>. USE DEF CallerState, IdleCaller
  <2>3. caller \in [Callers -> CallerState] /\ caller[c] \in CallerState
        /\ IdleCaller \in CallerState
    BY DEF FenceInvariant, TypeOK
  <2>4. ASSUME NEW acknowledged \in BOOLEAN, PublishManual(c, acknowledged)
        PROVE  FenceInvariant'
    <3>1. CASE acknowledged
      <4>1. caller' = [caller EXCEPT ![c] = IdleCaller] /\ IdleCaller.pc = "idle"
        BY <2>4, <3>1 DEF PublishManual
      <4>. QED
        BY <2>3, <2>4, <4>1, RecordManualStep DEF PublishManual, Terminal
    <3>2. CASE ~acknowledged
      <4>. DEFINE C == [caller[c] EXCEPT !.pc = "fail"]
      <4>1. C \in CallerState /\ C.run = caller[c].run /\ C.workflow = caller[c].workflow
            /\ C.config = caller[c].config
        BY <2>3
      <4>2. caller' = [caller EXCEPT ![c] = C]
        BY <2>3, <2>4, <3>2 DEF PublishManual
      <4>. HIDE DEF C
      <4>. QED
        BY <2>4, <4>1, <4>2, RecordManualStep DEF PublishManual, Terminal
    <3>. QED
      BY <3>1, <3>2
  <2>5. CASE FailManual(c)
    <3>1. caller' = [caller EXCEPT ![c] = IdleCaller] /\ IdleCaller.pc = "idle"
      BY <2>5 DEF FailManual
    <3>. QED
      BY <2>3, <2>5, <3>1, RecordManualStep DEF FailManual, Terminal
  <2>. QED
    BY <1>4, <2>1, <2>2, <2>4, <2>5 DEF CallerStep
<1>5. ASSUME NEW e \in Editors, EditorStep(e)
      PROVE  FenceInvariant'
  BY <1>5, EditorRead, WriteConfigStep DEF EditorStep
<1>. QED
  BY <1>1, <1>2, <1>3, <1>4, <1>5 DEF Next

(* The fence invariant holds in every reachable state. *)
THEOREM FenceHolds == Spec => []FenceInvariant
<1>. QED
  BY InitFence, NextFence, PTL DEF Spec

(* Every row and every local variable always has its type. *)
THEOREM TypeCorrect == Spec => []TypeOK
<1>1. FenceInvariant => TypeOK
  BY DEF FenceInvariant
<1>. QED
  BY <1>1, FenceHolds, PTL

(* The two rows of a claim never disagree. *)
THEOREM ClaimRowsCorrect == Spec => []ClaimRowsAgree
<1>1. FenceInvariant => ClaimRowsAgree
  BY DEF FenceInvariant
<1>. QED
  BY <1>1, FenceHolds, PTL

(* The result of one scheduled slot is published by at most one run. *)
THEOREM FencedPublication == Spec => []SlotPublishedOnce
<1>1. FenceInvariant => SlotPublishedOnce
  BY DEF FenceInvariant
<1>. QED
  BY <1>1, FenceHolds, PTL

(* The published slots are those of the succeeded claimed runs. *)
THEOREM PublicationAtomic == Spec => []PublishedIffSucceeded
<1>1. FenceInvariant => PublishedIffSucceeded
  BY DEF FenceInvariant
<1>. QED
  BY <1>1, FenceHolds, PTL

-----------------------------------------------------------------------------
(* What a step may never do. *)

(* A worker past its scan works for a claimed run; behind the fence that run  *)
(* is started and holds its workflow.                                        *)
LEMMA HeldRun ==
    ASSUME FenceInvariant, NEW k \in Workers, worker[k].pc \notin {"idle", "scan"}
    PROVE  LET r == worker[k].run
               w == run[r].workflow
           IN  /\ r \in Runs /\ w \in Workflows
               /\ run[r].status # "unused" /\ run[r].slot # None
               /\ Live(r, worker[k].version) =>
                     run[r].status = "started" /\ wf[w].token = r
BY DEF FenceInvariant, LocalState, RunRows, Live

(* No step touches the row of a claimed run that has ended.                  *)
LEMMA EndedRunKept ==
    ASSUME FenceInvariant, Next, NEW r \in Runs, run[r].status \in Terminal, run[r].slot # None
    PROVE  run'[r] = run[r]
<1>0. run \in [Runs -> RunRow] /\ run[r].status \notin {"unused", "started"}
  BY DEF FenceInvariant, TypeOK, Terminal
<1>1. CASE UNCHANGED run
  BY <1>1
<1>2. ASSUME NEW k \in Workers, StartScan(k) PROVE run'[r] = run[r]
  BY <1>0, <1>2 DEF StartScan, Reapable
<1>3. ASSUME NEW k \in Workers, NEW w \in Workflows, NEW q \in Runs, Claim(k, w, q)
      PROVE  run'[r] = run[r]
  BY <1>0, <1>3 DEF Claim, Fresh
<1>4. ASSUME NEW k \in Workers,
             \/ \E connected \in BOOLEAN : RenewClaim(k, connected)
             \/ \E acknowledged \in BOOLEAN : CommitPublish(k, acknowledged)
             \/ RecordFailure(k)
      PROVE  run'[r] = run[r]
  <2>1. worker[k].pc \notin {"idle", "scan"}
    BY <1>4 DEF RenewClaim, CommitPublish, RecordFailure, FenceInvariant, LocalState
  <2>2. Live(worker[k].run, worker[k].version) => worker[k].run # r
    BY <1>0, <2>1, HeldRun
  <2>3. PICK row :
          \/ UNCHANGED run
          \/ Live(worker[k].run, worker[k].version) /\ run' = [run EXCEPT ![worker[k].run] = row]
    <3>1. CASE \E connected \in BOOLEAN : RenewClaim(k, connected)
      BY <3>1 DEF RenewClaim
    <3>2. CASE \E acknowledged \in BOOLEAN : CommitPublish(k, acknowledged)
      BY <3>2 DEF CommitPublish
    <3>3. CASE RecordFailure(k)
      BY <3>3 DEF RecordFailure
    <3>. QED
      BY <1>4, <3>1, <3>2, <3>3
  <2>. QED
    BY <1>0, <2>2, <2>3
<1>5. ASSUME NEW c \in Callers, NEW w \in Workflows, NEW q \in Runs, BeginManual(c, w, q)
      PROVE  run'[r] = run[r]
  BY <1>0, <1>5 DEF BeginManual, Fresh
<1>6. ASSUME NEW c \in Callers,
             (\E acknowledged \in BOOLEAN : PublishManual(c, acknowledged)) \/ FailManual(c)
      PROVE  run'[r] = run[r]
  <2>1. caller[c].run # r
    BY <1>6 DEF PublishManual, FailManual, FenceInvariant, LocalState
  <2>. QED
    BY <1>0, <1>6, <2>1 DEF PublishManual, FailManual, RecordManual
<1>7. CASE Tick \/ \E e \in Editors : EditorStep(e)
  BY <1>1, <1>7 DEF Tick, EditorStep, ReadConfig, WriteConfig
<1>8. ASSUME NEW k \in Workers, WorkerStep(k) \/ HeartbeatStep(k) \/ Crash(k)
      PROVE  run'[r] = run[r]
  BY <1>1, <1>2, <1>3, <1>4, <1>8
     DEF WorkerStep, HeartbeatStep, EndScan, Execute, SendHeartbeat, BeginPublish, SkipPublish,
         AbortPublish, Crash
<1>9. ASSUME NEW c \in Callers, CallerStep(c) PROVE run'[r] = run[r]
  BY <1>1, <1>5, <1>6, <1>9 DEF CallerStep, PrepareManual, AbortManual, CrashManual
<1>. QED
  BY <1>7, <1>8, <1>9 DEF Next

(* A claimed run that has ended keeps its outcome, in every execution.       *)
THEOREM OutcomesFinal == Spec => OutcomeFinal
<1>. DEFINE Kept == \A r \in Runs : (run[r].status \in Terminal /\ run[r].slot # None)
                                      => run'[r] = run[r]
<1>1. FenceInvariant /\ [Next]_vars => [Kept]_vars
  BY EndedRunKept
<1>. QED
  BY <1>1, FenceHolds, PTL DEF Spec, OutcomeFinal

(* What happens to the claim of a workflow, step by step.                    *)
LEMMA ClaimKept ==
    ASSUME FenceInvariant, Next, NEW w \in Workflows, wf[w].token # None,
           wf'[w].token # wf[w].token
    PROVE  \/ run'[wf[w].token].status \in Terminal
           \/ Expired(wf[w].expires, now)
           \/ \E e \in Editors : WriteConfig(e)
<1>. DEFINE Goal == \/ run'[wf[w].token].status \in Terminal
                    \/ Expired(wf[w].expires, now)
                    \/ \E e \in Editors : WriteConfig(e)
<1>0. /\ wf \in [Workflows -> WorkflowRow] /\ run \in [Runs -> RunRow] /\ now \in Nat
      /\ worker \in [Workers -> WorkerState] /\ wf[w] \in WorkflowRow
      /\ wf[w].expires \in Nat /\ wf[w].expires # None /\ wf[w].token \in Runs
  BY NoneAssumption, BoundsAssumption
     DEF FenceInvariant, TypeOK, ClaimRowsAgree, WorkflowRow
<1>1. CASE UNCHANGED wf
  BY <1>1
<1>2. ASSUME NEW k \in Workers, StartScan(k) PROVE Goal
  <2>1. PICK r \in Reapable(now) : wf[w].token = r
    BY <1>0, <1>2 DEF StartScan
  <2>2. r \in Runs /\ run'[r] = Finished(r, "failed")
    BY <1>2, <2>1 DEF StartScan, Reapable
  <2>3. run'[r].status = "failed"
    BY <1>0, <2>2, FinishedRow DEF Terminal
  <2>. QED
    BY <2>1, <2>3 DEF Terminal
<1>3. ASSUME NEW k \in Workers, NEW v \in Workflows, NEW r \in Runs, Claim(k, v, r)
      PROVE  Goal
  <2>1. v = w
    BY <1>0, <1>3 DEF Claim
  <2>2. wf[w].expires <= worker[k].checkedAt
    BY <1>0, <1>3, <2>1 DEF Claim, Claimable, Due
  <2>3. worker[k].checkedAt \in Nat /\ worker[k].checkedAt <= now
    BY <1>0 DEF FenceInvariant, LocalState, WorkerState
  <2>. QED
    BY <1>0, <2>2, <2>3 DEF Expired
<1>4. ASSUME NEW k \in Workers, \E connected \in BOOLEAN : RenewClaim(k, connected)
      PROVE  Goal
  <2>1. wf'[w].token = wf[w].token
    BY <1>0, <1>4 DEF RenewClaim, WorkflowRow
  <2>. QED
    BY <2>1
<1>5. ASSUME NEW k \in Workers,
             (\E acknowledged \in BOOLEAN : CommitPublish(k, acknowledged)) \/ RecordFailure(k)
      PROVE  Goal
  <2>. DEFINE r == worker[k].run
              v == run[r].workflow
  <2>1. worker[k].pc \notin {"idle", "scan"}
    BY <1>5 DEF CommitPublish, RecordFailure
  <2>2. PICK status \in Terminal :
          \/ UNCHANGED wf
          \/ /\ Live(r, worker[k].version)
             /\ run' = [run EXCEPT ![r] = Finished(r, status)]
             /\ wf' = [wf EXCEPT ![v] = [Released(v) EXCEPT !.next = NextRunAt(ConfigOf(v))]]
    BY <1>5 DEF CommitPublish, RecordFailure, Terminal
  <2>3. CASE Live(r, worker[k].version) /\ run' = [run EXCEPT ![r] = Finished(r, status)]
             /\ wf' = [wf EXCEPT ![v] = [Released(v) EXCEPT !.next = NextRunAt(ConfigOf(v))]]
    <3>1. v = w
      BY <1>0, <2>3
    <3>2. wf[w].token = r /\ r \in Runs
      BY <2>1, <2>3, <3>1, HeldRun
    <3>3. run'[r].status = status
      BY <1>0, <2>3, <3>2, FinishedRow
    <3>. QED
      BY <3>2, <3>3
  <2>. QED
    BY <1>1, <2>2, <2>3
<1>6. ASSUME NEW c \in Callers,
             (\E acknowledged \in BOOLEAN : PublishManual(c, acknowledged)) \/ FailManual(c)
      PROVE  Goal
  <2>1. wf'[w].token = wf[w].token
    BY <1>0, <1>6 DEF PublishManual, FailManual, RecordManual, WorkflowRow
  <2>. QED
    BY <2>1
<1>7. ASSUME NEW e \in Editors, EditorStep(e) PROVE Goal
  BY <1>1, <1>7 DEF EditorStep, ReadConfig
<1>8. ASSUME NEW k \in Workers, WorkerStep(k) \/ HeartbeatStep(k) \/ Crash(k)
      PROVE  Goal
  BY <1>1, <1>2, <1>3, <1>4, <1>5, <1>8
     DEF WorkerStep, HeartbeatStep, EndScan, Execute, SendHeartbeat, BeginPublish, SkipPublish,
         AbortPublish, Crash
<1>9. ASSUME NEW c \in Callers, CallerStep(c) PROVE Goal
  BY <1>1, <1>6, <1>9 DEF CallerStep, BeginManual, PrepareManual, AbortManual, CrashManual
<1>10. CASE Tick
  BY <1>1, <1>10 DEF Tick
<1>. QED
  BY <1>7, <1>8, <1>9, <1>10 DEF Next

(* A live claim is left alone by everything but its own run's end and edits.  *)
THEOREM ClaimsRevoked == Spec => ClaimRevocation
<1>. DEFINE Justified ==
       \A w \in Workflows :
         (wf[w].token # None /\ wf'[w].token # wf[w].token) =>
            \/ run'[wf[w].token].status \in Terminal
            \/ Expired(wf[w].expires, now)
            \/ \E e \in Editors : WriteConfig(e)
<1>1. FenceInvariant /\ [Next]_vars => [Justified]_vars
  BY ClaimKept
<1>. QED
  BY <1>1, FenceHolds, PTL DEF Spec, ClaimRevocation

-----------------------------------------------------------------------------
(* The configuration a live claim works for. *)

(* A worker that kept its run, or dropped it, still agrees with the workflow  *)
(* if every claim that is left, or new, is one it knows nothing of or one     *)
(* whose configuration did not change.                                       *)
LEMMA ConfigKept ==
    ASSUME ClaimInvariant, NEW k \in Workers,
           worker'[k].run # None =>
              /\ worker[k].pc \notin {"idle", "scan"}
              /\ worker'[k].run = worker[k].run /\ worker'[k].config = worker[k].config,
           \A r \in Runs : run[r].status # "unused" => run'[r].workflow = run[r].workflow,
           \A w \in Workflows : wf'[w].token # None =>
              \/ wf'[w].token \in Fresh
              \/ /\ wf'[w].token = wf[w].token /\ wf'[w].enabled = wf[w].enabled
                 /\ wf'[w].paused = wf[w].paused /\ wf'[w].schedule = wf[w].schedule
    PROVE  LET r == worker'[k].run
               w == run'[r].workflow
           IN  (r # None /\ wf'[w].token = r) =>
                   /\ worker'[k].config = [enabled |-> wf'[w].enabled, paused |-> wf'[w].paused,
                                           schedule |-> wf'[w].schedule]
                   /\ wf'[w].enabled /\ ~wf'[w].paused
<1>. SUFFICES ASSUME worker'[k].run # None,
                     wf'[run'[worker'[k].run].workflow].token = worker'[k].run
              PROVE  LET w == run'[worker'[k].run].workflow IN
                     /\ worker'[k].config = [enabled |-> wf'[w].enabled, paused |-> wf'[w].paused,
                                             schedule |-> wf'[w].schedule]
                     /\ wf'[w].enabled /\ ~wf'[w].paused
  OBVIOUS
<1>. DEFINE r == worker[k].run
            w == run[r].workflow
<1>1. /\ r \in Runs /\ w \in Workflows /\ run[r].status # "unused" /\ r \notin Fresh
      /\ worker'[k].run = r /\ worker'[k].config = worker[k].config
      /\ run'[r].workflow = w
  BY HeldRun DEF ClaimInvariant, Fresh
<1>2. wf'[w].token = r /\ wf[w].token = r /\ r # None
      /\ wf'[w].enabled = wf[w].enabled /\ wf'[w].paused = wf[w].paused
      /\ wf'[w].schedule = wf[w].schedule
  BY <1>1
<1>3. worker[k].config = ConfigOf(w) /\ wf[w].enabled /\ ~wf[w].paused
  BY <1>1, <1>2 DEF ClaimInvariant, LiveClaimHasCurrentConfig
<1>. QED
  BY <1>1, <1>2, <1>3 DEF ConfigOf

(* A renewal moves the lease ends and nothing else of the rows.              *)
LEMMA RenewalKeeps ==
    ASSUME FenceInvariant, NEW k \in Workers, NEW connected \in BOOLEAN, RenewClaim(k, connected)
    PROVE  /\ \A r \in Runs : /\ run'[r].workflow = run[r].workflow
                              /\ run'[r].status = run[r].status /\ run'[r].slot = run[r].slot
           /\ \A w \in Workflows :
                /\ wf'[w].token = wf[w].token /\ wf'[w].enabled = wf[w].enabled
                /\ wf'[w].paused = wf[w].paused /\ wf'[w].schedule = wf[w].schedule
           /\ \A j \in Workers :
                /\ worker'[j].run = worker[j].run /\ worker'[j].config = worker[j].config
                /\ worker'[j].pc = worker[j].pc
<1>. DEFINE r == worker[k].run
            w == run[r].workflow
            t == worker[k].renewTo
<1>0. /\ wf \in [Workflows -> WorkflowRow] /\ run \in [Runs -> RunRow]
      /\ worker \in [Workers -> WorkerState]
  BY DEF FenceInvariant, TypeOK
<1>1. \/ UNCHANGED <<run, wf>>
      \/ run' = [run EXCEPT ![r].expires = t] /\ wf' = [wf EXCEPT ![w].expires = t]
  BY DEF RenewClaim
<1>2. PICK heartbeat, lost :
         worker' = [worker EXCEPT ![k].heartbeat = heartbeat, ![k].fenceLost = lost]
  BY <1>0 DEF RenewClaim
<1>3. \A q \in Runs : /\ run'[q].workflow = run[q].workflow
                      /\ run'[q].status = run[q].status /\ run'[q].slot = run[q].slot
  BY <1>0, <1>1 DEF RunRow
<1>4. \A v \in Workflows :
         /\ wf'[v].token = wf[v].token /\ wf'[v].enabled = wf[v].enabled
         /\ wf'[v].paused = wf[v].paused /\ wf'[v].schedule = wf[v].schedule
  BY <1>0, <1>1 DEF WorkflowRow
<1>5. \A j \in Workers :
         /\ worker'[j].run = worker[j].run /\ worker'[j].config = worker[j].config
         /\ worker'[j].pc = worker[j].pc
  BY <1>0, <1>2 DEF WorkerState
<1>. QED
  BY <1>3, <1>4, <1>5

(* Steps without a row of their own: local steps of workers, manual runs and  *)
(* edits.                                                                    *)
LEMMA ConfigAfterOthers ==
    ASSUME ClaimInvariant,
           \/ Tick
           \/ \E k \in Workers :
                \/ EndScan(k) \/ (\E raises \in BOOLEAN : Execute(k, raises)) \/ SendHeartbeat(k)
                \/ BeginPublish(k) \/ SkipPublish(k) \/ AbortPublish(k) \/ Crash(k)
           \/ \E c \in Callers : CallerStep(c)
           \/ \E e \in Editors : EditorStep(e)
    PROVE  IdleWithoutRun' /\ LiveClaimHasCurrentConfig'
<1>0. /\ wf \in [Workflows -> WorkflowRow] /\ run \in [Runs -> RunRow]
      /\ worker \in [Workers -> WorkerState]
      /\ \A k \in Workers : worker[k] \in WorkerState
      /\ \A k \in Workers : worker[k].pc \in {"idle", "scan"} => worker[k].run = None
  BY DEF ClaimInvariant, FenceInvariant, TypeOK, IdleWithoutRun
<1>1. ASSUME NEW j \in Workers
      PROVE  /\ worker'[j].pc \in {"idle", "scan"} => worker'[j].run = None
             /\ worker'[j].run # None =>
                   /\ worker[j].pc \notin {"idle", "scan"}
                   /\ worker'[j].run = worker[j].run /\ worker'[j].config = worker[j].config
  <2>1. CASE UNCHANGED worker
    BY <1>0, <2>1
  <2>2. ASSUME NEW k \in Workers, EndScan(k) \/ Crash(k)
        PROVE  worker'[j] \in {IdleWorker, worker[j]}
    BY <1>0, <2>2 DEF EndScan, Crash
  <2>3. ASSUME NEW k \in Workers,
               \/ \E raises \in BOOLEAN : Execute(k, raises)
               \/ SendHeartbeat(k) \/ BeginPublish(k) \/ SkipPublish(k) \/ AbortPublish(k)
        PROVE  /\ worker'[j].run = worker[j].run /\ worker'[j].config = worker[j].config
               /\ worker'[j].pc \in {"idle", "scan"} <=> worker[j].pc \in {"idle", "scan"}
    <3>1. CASE \E raises \in BOOLEAN : Execute(k, raises)
      <4>1. PICK failed, heartbeat :
               worker' = [worker EXCEPT ![k].pc = "finish", ![k].failed = failed,
                                        ![k].heartbeat = heartbeat]
        BY <1>0, <3>1 DEF Execute
      <4>2. worker[k].pc = "execute"
        BY <3>1 DEF Execute
      <4>. QED
        BY <1>0, <4>1, <4>2 DEF WorkerState
    <3>2. CASE SendHeartbeat(k)
      BY <1>0, <3>2 DEF SendHeartbeat, WorkerState
    <3>3. CASE BeginPublish(k) \/ SkipPublish(k) \/ AbortPublish(k)
      <4>1. PICK pc \in {"publishing", "failing"} : worker' = [worker EXCEPT ![k].pc = pc]
        BY <3>3 DEF BeginPublish, SkipPublish, AbortPublish
      <4>2. worker[k].pc \in {"finish", "publishing"}
        BY <3>3 DEF BeginPublish, SkipPublish, AbortPublish
      <4>. QED
        BY <1>0, <4>1, <4>2 DEF WorkerState
    <3>. QED
      BY <2>3, <3>1, <3>2, <3>3
  <2>4. IdleWorker.run = None
    BY DEF IdleWorker
  <2>5. CASE Tick \/ (\E c \in Callers : CallerStep(c)) \/ (\E e \in Editors : EditorStep(e))
    BY <2>1, <2>5 DEF Tick, CallerStep, BeginManual, PrepareManual, PublishManual, AbortManual,
                      FailManual, CrashManual, EditorStep, ReadConfig, WriteConfig
  <2>. QED
    BY <1>0, <2>2, <2>3, <2>4, <2>5
<1>2. \A r \in Runs : run[r].status # "unused" => run'[r].workflow = run[r].workflow
  <2>1. CASE UNCHANGED run
    BY <2>1
  <2>2. ASSUME NEW c \in Callers, NEW w \in Workflows, NEW q \in Runs, BeginManual(c, w, q)
        PROVE  \A r \in Runs : run[r].status # "unused" => run'[r] = run[r]
    BY <1>0, <2>2 DEF BeginManual, Fresh
  <2>3. ASSUME NEW c \in Callers,
               (\E acknowledged \in BOOLEAN : PublishManual(c, acknowledged)) \/ FailManual(c)
        PROVE  \A r \in Runs : run'[r].workflow = run[r].workflow
    BY <1>0, <2>3 DEF PublishManual, FailManual, RecordManual, RunRow
  <2>. QED
    BY <2>1, <2>2, <2>3
       DEF Tick, EndScan, Execute, SendHeartbeat, BeginPublish, SkipPublish, AbortPublish, Crash,
           CallerStep, PrepareManual, AbortManual, CrashManual, EditorStep, ReadConfig, WriteConfig
<1>3. \A w \in Workflows : wf'[w].token # None =>
         /\ wf'[w].token = wf[w].token /\ wf'[w].enabled = wf[w].enabled
         /\ wf'[w].paused = wf[w].paused /\ wf'[w].schedule = wf[w].schedule
  <2>1. CASE UNCHANGED wf
    BY <2>1
  <2>2. ASSUME NEW c \in Callers,
               (\E acknowledged \in BOOLEAN : PublishManual(c, acknowledged)) \/ FailManual(c)
        PROVE  \A w \in Workflows :
                 /\ wf'[w].token = wf[w].token /\ wf'[w].enabled = wf[w].enabled
                 /\ wf'[w].paused = wf[w].paused /\ wf'[w].schedule = wf[w].schedule
    BY <1>0, <2>2 DEF PublishManual, FailManual, RecordManual, WorkflowRow
  <2>3. ASSUME NEW e \in Editors, WriteConfig(e)
        PROVE  \A w \in Workflows : wf'[w] = wf[w] \/ wf'[w].token = None
    BY <1>0, <2>3 DEF WriteConfig, Reconfigured
  <2>. QED
    BY <2>1, <2>2, <2>3
       DEF Tick, EndScan, Execute, SendHeartbeat, BeginPublish, SkipPublish, AbortPublish, Crash,
           CallerStep, BeginManual, PrepareManual, AbortManual, CrashManual, EditorStep, ReadConfig
<1>4. IdleWithoutRun'
  BY <1>1 DEF IdleWithoutRun
<1>. QED
  BY <1>1, <1>2, <1>3, <1>4, ConfigKept DEF LiveClaimHasCurrentConfig, ConfigOf

(* Steps of a worker that write the rows of a claim.                         *)
LEMMA ConfigAfterClaims ==
    ASSUME ClaimInvariant, NEW k \in Workers,
           \/ StartScan(k)
           \/ \E connected \in BOOLEAN : RenewClaim(k, connected)
           \/ \E acknowledged \in BOOLEAN : CommitPublish(k, acknowledged)
           \/ RecordFailure(k)
    PROVE  IdleWithoutRun' /\ LiveClaimHasCurrentConfig'
<1>0. /\ wf \in [Workflows -> WorkflowRow] /\ run \in [Runs -> RunRow]
      /\ worker \in [Workers -> WorkerState]
      /\ \A j \in Workers : worker[j] \in WorkerState
      /\ \A j \in Workers : worker[j].pc \in {"idle", "scan"} => worker[j].run = None
  BY DEF ClaimInvariant, FenceInvariant, TypeOK, IdleWithoutRun
<1>1. ASSUME NEW j \in Workers
      PROVE  /\ worker'[j].pc \in {"idle", "scan"} => worker'[j].run = None
             /\ worker'[j].run # None =>
                   /\ worker[j].pc \notin {"idle", "scan"}
                   /\ worker'[j].run = worker[j].run /\ worker'[j].config = worker[j].config
  <2>1. CASE j # k
    BY <1>0, <2>1 DEF StartScan, RenewClaim, CommitPublish, RecordFailure, NextIteration
  <2>2. CASE j = k
    <3>1. CASE worker'[k].run = None
      <4>. QED
        BY <2>2, <3>1
    <3>2. CASE worker'[k].run # None
      <4>1. ~StartScan(k) /\ ~NextIteration(k)
        BY <1>0, <3>2 DEF StartScan, NextIteration, IdleWorker
      <4>2. /\ worker'[k].run = worker[k].run /\ worker'[k].config = worker[k].config
            /\ worker'[k].pc \in {worker[k].pc, "failing"}
        <5>1. CASE \E acknowledged \in BOOLEAN : CommitPublish(k, acknowledged)
          BY <1>0, <4>1, <5>1 DEF CommitPublish, WorkerState
        <5>. QED
          BY <4>1, <5>1, RenewalKeeps DEF ClaimInvariant, RecordFailure
      <4>. QED
        BY <1>0, <2>2, <3>2, <4>2
    <3>. QED
      BY <3>1, <3>2
  <2>. QED
    BY <2>1, <2>2
<1>2. \A r \in Runs : run'[r].workflow = run[r].workflow
  <2>1. \A r \in Runs, status \in Terminal : Finished(r, status).workflow = run[r].workflow
    BY <1>0, FinishedRow
  <2>2. CASE StartScan(k)
    BY <2>1, <2>2 DEF StartScan, Terminal
  <2>3. CASE \E connected \in BOOLEAN : RenewClaim(k, connected)
    BY <2>3, RenewalKeeps DEF ClaimInvariant
  <2>4. CASE (\E acknowledged \in BOOLEAN : CommitPublish(k, acknowledged)) \/ RecordFailure(k)
    BY <1>0, <2>1, <2>4 DEF CommitPublish, RecordFailure, Terminal
  <2>. QED
    BY <2>2, <2>3, <2>4
<1>3. \A w \in Workflows : wf'[w].token # None =>
         /\ wf'[w].token = wf[w].token /\ wf'[w].enabled = wf[w].enabled
         /\ wf'[w].paused = wf[w].paused /\ wf'[w].schedule = wf[w].schedule
  <2>1. \A w \in Workflows : Released(w) \in WorkflowRow /\ Released(w).token = None
    BY <1>0, ReleasedRow
  <2>2. CASE StartScan(k)
    BY <2>1, <2>2 DEF StartScan
  <2>3. CASE \E connected \in BOOLEAN : RenewClaim(k, connected)
    BY <2>3, RenewalKeeps DEF ClaimInvariant
  <2>4. CASE (\E acknowledged \in BOOLEAN : CommitPublish(k, acknowledged)) \/ RecordFailure(k)
    <3>1. PICK v, next :
            \/ UNCHANGED wf
            \/ wf' = [wf EXCEPT ![v] = [Released(v) EXCEPT !.next = next]]
      BY <2>4 DEF CommitPublish, RecordFailure
    <3>2. v \in Workflows => [Released(v) EXCEPT !.next = next].token = None
      BY <2>1 DEF WorkflowRow
    <3>. QED
      BY <1>0, <3>1, <3>2
  <2>. QED
    BY <2>2, <2>3, <2>4
<1>4. IdleWithoutRun'
  BY <1>1 DEF IdleWithoutRun
<1>. QED
  BY <1>1, <1>2, <1>3, <1>4, ConfigKept DEF LiveClaimHasCurrentConfig, ConfigOf

(* A claim reads the configuration of the row it claims, which is enabled and *)
(* not paused.                                                               *)
LEMMA ConfigAfterClaim ==
    ASSUME ClaimInvariant, NEW k \in Workers, NEW w \in Workflows, NEW r \in Runs, Claim(k, w, r)
    PROVE  IdleWithoutRun' /\ LiveClaimHasCurrentConfig'
<1>0. /\ wf \in [Workflows -> WorkflowRow] /\ run \in [Runs -> RunRow]
      /\ worker \in [Workers -> WorkerState] /\ worker[k] \in WorkerState
      /\ wf[w] \in WorkflowRow /\ r \in Fresh
  BY DEF ClaimInvariant, FenceInvariant, TypeOK, Claim
<1>1. /\ worker'[k].run = r /\ worker'[k].config = ConfigOf(w) /\ worker'[k].pc = "execute"
      /\ \A j \in Workers : j # k => worker'[j] = worker[j]
  BY <1>0 DEF Claim, WorkerState
<1>2. run'[r].workflow = w /\ \A q \in Runs : q # r => run'[q] = run[q]
  BY <1>0 DEF Claim
<1>3. /\ wf'[w].token = r /\ wf'[w].enabled = wf[w].enabled
      /\ wf'[w].paused = wf[w].paused /\ wf'[w].schedule = wf[w].schedule
      /\ \A v \in Workflows : v # w => wf'[v] = wf[v]
  BY <1>0 DEF Claim, WorkflowRow
<1>4. wf[w].enabled /\ ~wf[w].paused
  BY DEF Claim, Claimable, Due
<1>5. ASSUME NEW j \in Workers, j # k
      PROVE  LET q == worker'[j].run
                 v == run'[q].workflow
             IN  (q # None /\ wf'[v].token = q) =>
                     /\ worker'[j].config = [enabled |-> wf'[v].enabled, paused |-> wf'[v].paused,
                                             schedule |-> wf'[v].schedule]
                     /\ wf'[v].enabled /\ ~wf'[v].paused
  <2>1. worker'[j] = worker[j]
    BY <1>1, <1>5
  <2>2. worker'[j].run # None =>
           /\ worker[j].pc \notin {"idle", "scan"}
           /\ worker'[j].run = worker[j].run /\ worker'[j].config = worker[j].config
    BY <2>1 DEF ClaimInvariant, IdleWithoutRun
  <2>3. \A q \in Runs : run[q].status # "unused" => run'[q].workflow = run[q].workflow
    BY <1>0, <1>2 DEF Fresh
  <2>4. \A v \in Workflows : wf'[v].token # None =>
           \/ wf'[v].token \in Fresh
           \/ /\ wf'[v].token = wf[v].token /\ wf'[v].enabled = wf[v].enabled
              /\ wf'[v].paused = wf[v].paused /\ wf'[v].schedule = wf[v].schedule
    BY <1>0, <1>3
  <2>. QED
    BY <2>2, <2>3, <2>4, ConfigKept
<1>6. IdleWithoutRun'
  BY <1>1 DEF IdleWithoutRun, ClaimInvariant
<1>. QED
  BY <1>1, <1>2, <1>3, <1>4, <1>5, <1>6 DEF LiveClaimHasCurrentConfig, ConfigOf

(* Every step keeps claims and configurations together.                      *)
LEMMA NextClaims == ClaimInvariant /\ [Next]_vars => ClaimInvariant'
<1>. SUFFICES ASSUME ClaimInvariant, [Next]_vars PROVE ClaimInvariant'
  OBVIOUS
<1>1. FenceInvariant'
  BY NextFence DEF ClaimInvariant
<1>2. CASE UNCHANGED vars
  BY <1>1, <1>2 DEF vars, ClaimInvariant, IdleWithoutRun, LiveClaimHasCurrentConfig, ConfigOf
<1>3. ASSUME NEW k \in Workers, WorkerStep(k) \/ HeartbeatStep(k) \/ Crash(k)
      PROVE  ClaimInvariant'
  BY <1>1, <1>3, ConfigAfterClaim, ConfigAfterClaims, ConfigAfterOthers
     DEF WorkerStep, HeartbeatStep, ClaimInvariant
<1>4. CASE Tick \/ (\E c \in Callers : CallerStep(c)) \/ (\E e \in Editors : EditorStep(e))
  BY <1>1, <1>4, ConfigAfterOthers DEF ClaimInvariant
<1>. QED
  BY <1>2, <1>3, <1>4 DEF Next

(* A worker that still holds its claim works for the current configuration,   *)
(* which is enabled and not paused.                                          *)
THEOREM LiveClaimsCurrent == Spec => []LiveClaimHasCurrentConfig
<1>1. Init => ClaimInvariant
  <2>. SUFFICES ASSUME Init PROVE ClaimInvariant
    OBVIOUS
  <2>1. \A k \in Workers : worker[k].run = None
    BY DEF Init, IdleWorker
  <2>. QED
    BY <2>1, InitFence DEF ClaimInvariant, IdleWithoutRun, LiveClaimHasCurrentConfig
<1>2. ClaimInvariant /\ [Next]_vars => ClaimInvariant'
  BY NextClaims
<1>3. ClaimInvariant => LiveClaimHasCurrentConfig
  BY DEF ClaimInvariant
<1>. QED
  BY <1>1, <1>2, <1>3, PTL DEF Spec

-----------------------------------------------------------------------------
(* The claim ledger. *)

Holders == [w \in Workflows |-> wf[w].token]
Outcome(r) == IF run[r].slot = None THEN "unused" ELSE run[r].status
Outcomes == [r \in Runs |-> Outcome(r)]

LEMMA LedgerInit == Init => Ledger!Init
<1>. SUFFICES ASSUME Init PROVE Ledger!Init
  OBVIOUS
<1>1. [w \in Workflows |-> wf[w].token] = [w \in Workflows |-> None]
  BY DEF Init
<1>2. \A r \in Runs : run[r].slot = None
  BY DEF Init, UnusedRun
<1>. QED
  BY <1>1, <1>2 DEF Init, Ledger!Init

(* A step that keeps tokens, the outcomes of claimed runs and the publications *)
(* is invisible to the ledger.                                               *)
LEMMA LedgerStutter ==
    ASSUME \A w \in Workflows : wf'[w].token = wf[w].token,
           \A r \in Runs : Outcome(r)' = Outcome(r),
           published' = published
    PROVE  UNCHANGED Ledger!vars
BY DEF Ledger!vars, Outcome

(* The reaper fails the runs it finds, and they give up what they hold.       *)
LEMMA ReapFails ==
    ASSUME FenceInvariant, NEW k \in Workers, StartScan(k)
    PROVE  Ledger!Next
<1>. PICK reaped \in SUBSET Runs : reaped = Reapable(now)
  BY DEF Reapable
<1>1. wf \in [Workflows -> WorkflowRow] /\ run \in [Runs -> RunRow]
  BY DEF FenceInvariant, TypeOK
<1>2. \A r \in reaped : run[r].status = "started" /\ run[r].slot # None
  BY DEF Reapable, FenceInvariant, RunRows
<1>3. \A w \in Workflows : wf'[w].token = IF wf[w].token \in reaped THEN None ELSE wf[w].token
  <2>1. \A w \in Workflows, r \in reaped :
           (wf[w].token = r) => (run[r].workflow = w /\ wf[w].version = run[r].version)
    BY NoneAssumption DEF FenceInvariant, ClaimRowsAgree
  <2>2. \A w \in Workflows : Released(w).token = None
    BY <1>1, ReleasedRow
  <2>. QED
    BY <2>1, <2>2 DEF StartScan
<1>4. \A r \in Runs : Outcome(r)' = IF r \in reaped THEN "failed" ELSE Outcome(r)
  <2>1. \A r \in Runs : Finished(r, "failed").status = "failed"
                        /\ Finished(r, "failed").slot = run[r].slot
    BY <1>1, FinishedRow DEF Terminal
  <2>. QED
    BY <1>2, <2>1 DEF StartScan, Outcome
<1>5. Holders' = [w \in Workflows |-> IF Holders[w] \in reaped THEN None ELSE Holders[w]]
  BY <1>3 DEF Holders
<1>6. Outcomes' = [r \in Runs |-> IF r \in reaped THEN "failed" ELSE Outcomes[r]]
  BY <1>4 DEF Outcomes
<1>7. \A r \in reaped : Outcomes[r] = "started"
  BY <1>2 DEF Outcomes, Outcome
<1>8. Ledger!Fail(reaped)
  BY <1>5, <1>6, <1>7 DEF Ledger!Fail, Holders, Outcomes, Outcome, StartScan
<1>. QED
  BY <1>8 DEF Ledger!Next

(* A claim takes the workflow, also from a holder whose lease has run out.    *)
LEMMA ClaimTakes ==
    ASSUME FenceInvariant, NEW k \in Workers, NEW w \in Workflows, NEW r \in Runs, Claim(k, w, r)
    PROVE  Ledger!Next
<1>1. wf \in [Workflows -> WorkflowRow] /\ run \in [Runs -> RunRow] /\ wf[w] \in WorkflowRow
      /\ run[r].slot = None /\ wf[w].next # None
  BY DEF FenceInvariant, TypeOK, RunRows, Claim, Fresh, Claimable, Due
<1>2. /\ wf'[w].token = r /\ \A v \in Workflows : v # w => wf'[v] = wf[v]
      /\ run'[r].status = "started" /\ run'[r].slot = wf[w].next
      /\ \A q \in Runs : q # r => run'[q] = run[q]
      /\ published' = published
  BY <1>1 DEF Claim, WorkflowRow
<1>3. Holders' = [Holders EXCEPT ![w] = r]
  BY <1>2 DEF Holders
<1>4. Outcomes' = [Outcomes EXCEPT ![r] = "started"] /\ Outcomes[r] = "unused"
  BY <1>1, <1>2 DEF Outcomes, Outcome
<1>5. Ledger!Take(w, r)
  BY <1>2, <1>3, <1>4 DEF Ledger!Take, Holders, Outcomes, Outcome
<1>. QED
  BY <1>5 DEF Ledger!Next

(* The rows after a run ended behind its fence.                              *)
LEMMA EndedRows ==
    ASSUME FenceInvariant, NEW r \in Runs, NEW w \in Workflows, NEW status \in Terminal, NEW next,
           wf[w].token = r,
           run' = [run EXCEPT ![r] = Finished(r, status)],
           wf' = [wf EXCEPT ![w] = [Released(w) EXCEPT !.next = next]]
    PROVE  /\ Holders' = [Holders EXCEPT ![w] = None]
           /\ \A v \in Workflows : Holders[v] = r => v = w
           /\ Outcomes' = [Outcomes EXCEPT ![r] = status] /\ Outcomes[r] = "started"
           /\ run[r].slot \in 0 .. MaxTime /\ run[r].workflow = w
           /\ <<w, run[r].slot>> \notin published
<1>1. wf \in [Workflows -> WorkflowRow] /\ run \in [Runs -> RunRow] /\ now \in 0 .. MaxTime
      /\ MaxTime \in Nat
  BY BoundsAssumption DEF FenceInvariant, TypeOK
<1>2. /\ run[r].status = "started" /\ run[r].workflow = w /\ run[r].slot # None
      /\ \A v \in Workflows : wf[v].token = r => v = w
  BY NoneAssumption DEF FenceInvariant, ClaimRowsAgree, RunRows
<1>3. run[r].slot \in 0 .. MaxTime
  <2>1. run[r].slot \in Nat /\ run[r].slot <= now
    BY <1>1, <1>2, NoneAssumption DEF RunRow, FenceInvariant, SlotsOrdered
  <2>. QED
    BY <1>1, <2>1
<1>4. [Released(w) EXCEPT !.next = next].token = None
  BY <1>1, ReleasedRow DEF WorkflowRow
<1>5. wf'[w].token = None /\ \A v \in Workflows : v # w => wf'[v] = wf[v]
  BY <1>1, <1>4
<1>6. run'[r].status = status /\ run'[r].slot # None
      /\ \A q \in Runs : q # r => run'[q] = run[q]
  BY <1>1, <1>2, FinishedRow
<1>7. <<w, run[r].slot>> \notin published
  <2>1. SUFFICES ASSUME NEW q \in Runs, run[q].status = "succeeded", run[q].slot # None,
                        run[q].workflow = w, run[q].slot = run[r].slot
                 PROVE  FALSE
    BY DEF FenceInvariant, PublishedIffSucceeded
  <2>2. run[q].slot < run[r].slot
    BY <2>1, NoneAssumption DEF FenceInvariant, SlotsOrdered
  <2>. QED
    BY <1>3, <2>1, <2>2
<1>8. Holders' = [Holders EXCEPT ![w] = None] /\ \A v \in Workflows : Holders[v] = r => v = w
  <2>1. \A v \in Workflows : wf'[v].token = IF v = w THEN None ELSE wf[v].token
    BY <1>5
  <2>2. Holders' = [v \in Workflows |-> IF v = w THEN None ELSE Holders[v]]
    BY <2>1 DEF Holders
  <2>3. \A v \in Workflows : Holders[v] = wf[v].token
    BY DEF Holders
  <2>4. DOMAIN Holders = Workflows
    BY DEF Holders
  <2>. HIDE DEF Holders
  <2>. QED
    BY <1>2, <2>2, <2>3, <2>4
<1>9. Outcomes[r] = "started"
  BY <1>2 DEF Outcomes, Outcome
<1>10. Outcomes' = [Outcomes EXCEPT ![r] = status]
  <2>1. \A q \in Runs : Outcome(q)' = IF q = r THEN status ELSE Outcome(q)
    BY <1>6 DEF Outcome
  <2>2. Outcomes' = [q \in Runs |-> IF q = r THEN status ELSE Outcomes[q]]
    BY <2>1 DEF Outcomes
  <2>3. DOMAIN Outcomes = Runs
    BY DEF Outcomes
  <2>. QED
    BY <2>2, <2>3
<1>. QED
  BY <1>2, <1>3, <1>7, <1>8, <1>9, <1>10

(* A publication is the ledger's, of a slot that was not in it.              *)
LEMMA CommitPublishes ==
    ASSUME FenceInvariant, NEW k \in Workers, NEW acknowledged \in BOOLEAN,
           CommitPublish(k, acknowledged)
    PROVE  Ledger!Next
<1>. PICK r \in Runs : r = worker[k].run
  BY HeldRun DEF CommitPublish
<1>. PICK w \in Workflows : w = run[r].workflow
  BY HeldRun DEF CommitPublish
<1>1. wf[w].token = r
  BY HeldRun DEF CommitPublish
<1>2. /\ run' = [run EXCEPT ![r] = Finished(r, "succeeded")]
      /\ wf' = [wf EXCEPT ![w] = [Released(w) EXCEPT !.next = NextRunAt(ConfigOf(w))]]
      /\ published' = published \cup {<<w, run[r].slot>>}
  BY DEF CommitPublish
<1>3. PICK slot \in 0 .. MaxTime : slot = run[r].slot
  BY <1>1, <1>2, EndedRows DEF Terminal
<1>4. /\ Holders' = [Holders EXCEPT ![w] = None] /\ Holders[w] = r /\ r # None
      /\ Outcomes' = [Outcomes EXCEPT ![r] = "succeeded"] /\ Outcomes[r] = "started"
      /\ <<w, slot>> \notin published
  BY <1>1, <1>2, <1>3, EndedRows, NoneAssumption DEF Terminal, Holders
<1>5. Ledger!Publish(w, slot)
  BY <1>2, <1>3, <1>4 DEF Ledger!Publish, Holders, Outcomes, Outcome
<1>. QED
  BY <1>3, <1>5 DEF Ledger!Next

(* A recorded failure fails the one run and gives up its workflow.           *)
LEMMA FailureFails ==
    ASSUME FenceInvariant, NEW k \in Workers, RecordFailure(k)
    PROVE  Ledger!Next \/ UNCHANGED Ledger!vars
<1>. PICK r \in Runs : r = worker[k].run
  BY HeldRun DEF RecordFailure
<1>. PICK w \in Workflows : w = run[r].workflow
  BY HeldRun DEF RecordFailure
<1>1. CASE Live(r, worker[k].version)
  <2>1. wf[w].token = r
    BY <1>1, HeldRun DEF RecordFailure
  <2>2. /\ run' = [run EXCEPT ![r] = Finished(r, "failed")]
        /\ wf' = [wf EXCEPT ![w] = [Released(w) EXCEPT !.next = NextRunAt(ConfigOf(w))]]
        /\ published' = published
    BY <1>1 DEF RecordFailure
  <2>3. /\ Holders' = [Holders EXCEPT ![w] = None] /\ Holders[w] = r
        /\ \A v \in Workflows : Holders[v] = r => v = w
        /\ Outcomes' = [Outcomes EXCEPT ![r] = "failed"] /\ Outcomes[r] = "started"
    BY <2>1, <2>2, EndedRows DEF Terminal, Holders
  <2>4. Holders' = [v \in Workflows |-> IF Holders[v] \in {r} THEN None ELSE Holders[v]]
    BY <2>3 DEF Holders
  <2>5. Outcomes' = [q \in Runs |-> IF q \in {r} THEN "failed" ELSE Outcomes[q]]
    BY <2>3 DEF Outcomes
  <2>6. Ledger!Fail({r})
    BY <2>2, <2>3, <2>4, <2>5 DEF Ledger!Fail, Holders, Outcomes, Outcome
  <2>. QED
    BY <2>6 DEF Ledger!Next
<1>2. CASE ~Live(r, worker[k].version)
  BY <1>2, LedgerStutter DEF RecordFailure, Outcome
<1>. QED
  BY <1>1, <1>2

(* An edit revokes the claim of its workflow.                                *)
LEMMA EditRevokes ==
    ASSUME FenceInvariant, NEW e \in Editors, WriteConfig(e)
    PROVE  Ledger!Next
<1>. PICK w \in Workflows : w = editor[e].workflow
  BY DEF WriteConfig, FenceInvariant, LocalState
<1>1. wf \in [Workflows -> WorkflowRow]
  BY DEF FenceInvariant, TypeOK
<1>2. wf'[w].token = None /\ (\A v \in Workflows : v # w => wf'[v] = wf[v])
      /\ UNCHANGED <<run, published>>
  BY <1>1 DEF WriteConfig, Reconfigured
<1>3. Holders' = [Holders EXCEPT ![w] = None] /\ Outcomes' = Outcomes
  BY <1>2 DEF Holders, Outcomes, Outcome
<1>4. Ledger!Revoke(w)
  BY <1>2, <1>3 DEF Ledger!Revoke, Holders, Outcomes, Outcome
<1>. QED
  BY <1>4 DEF Ledger!Next

(* Renewals and manual runs are no business of the ledger.                   *)
LEMMA OutsideLedger ==
    ASSUME FenceInvariant,
           \/ \E k \in Workers : \E connected \in BOOLEAN : RenewClaim(k, connected)
           \/ \E c \in Callers :
                \/ \E w \in Workflows, r \in Runs : BeginManual(c, w, r)
                \/ \E acknowledged \in BOOLEAN : PublishManual(c, acknowledged)
                \/ FailManual(c)
    PROVE  UNCHANGED Ledger!vars
<1>0. wf \in [Workflows -> WorkflowRow] /\ run \in [Runs -> RunRow]
  BY DEF FenceInvariant, TypeOK
<1>1. ASSUME NEW k \in Workers, NEW connected \in BOOLEAN, RenewClaim(k, connected)
      PROVE  UNCHANGED Ledger!vars
  <2>1. /\ \A q \in Runs : run'[q].status = run[q].status /\ run'[q].slot = run[q].slot
        /\ \A v \in Workflows : wf'[v].token = wf[v].token
    BY <1>1, RenewalKeeps
  <2>. QED
    BY <1>1, <2>1, LedgerStutter DEF RenewClaim, Outcome
<1>2. ASSUME NEW c \in Callers, NEW w \in Workflows, NEW r \in Runs, BeginManual(c, w, r)
      PROVE  UNCHANGED Ledger!vars
  <2>1. run[r].slot = None
    BY <1>2 DEF BeginManual, Fresh, FenceInvariant, RunRows
  <2>2. run'[r].slot = None /\ \A q \in Runs : q # r => run'[q] = run[q]
    BY <1>0, <1>2 DEF BeginManual, UnusedRun
  <2>3. \A q \in Runs : Outcome(q)' = Outcome(q)
    BY <2>1, <2>2 DEF Outcome
  <2>4. wf' = wf /\ published' = published
    BY <1>2 DEF BeginManual
  <2>. QED
    BY <2>3, <2>4, LedgerStutter
<1>3. ASSUME NEW c \in Callers,
             (\E acknowledged \in BOOLEAN : PublishManual(c, acknowledged)) \/ FailManual(c)
      PROVE  UNCHANGED Ledger!vars
  <2>1. caller[c].run \in Runs /\ run[caller[c].run].slot = None
    BY <1>3 DEF PublishManual, FailManual, FenceInvariant, LocalState
  <2>2. PICK status : RecordManual(c, status)
    BY <1>3 DEF PublishManual, FailManual
  <2>3. \A q \in Runs : run'[q].slot = run[q].slot
                        /\ (q # caller[c].run => run'[q] = run[q])
    BY <1>0, <2>2 DEF RecordManual, RunRow
  <2>4. \A v \in Workflows : wf'[v].token = wf[v].token
    BY <1>0, <2>2 DEF RecordManual, WorkflowRow
  <2>5. \A q \in Runs : Outcome(q)' = Outcome(q)
    BY <2>1, <2>3 DEF Outcome
  <2>. QED
    BY <1>3, <2>4, <2>5, LedgerStutter DEF PublishManual, FailManual
<1>. QED
  BY <1>1, <1>2, <1>3

(* Every step is a step of the ledger, or invisible to it.                   *)
LEMMA LedgerStep == FenceInvariant /\ [Next]_vars => [Ledger!Next]_(Ledger!vars)
<1>. SUFFICES ASSUME FenceInvariant, [Next]_vars PROVE Ledger!Next \/ UNCHANGED Ledger!vars
  OBVIOUS
<1>1. ASSUME UNCHANGED <<wf, run, published>> PROVE UNCHANGED Ledger!vars
  BY <1>1, LedgerStutter DEF Outcome
<1>2. CASE UNCHANGED vars \/ Tick
  BY <1>1, <1>2 DEF vars, Tick
<1>3. ASSUME NEW k \in Workers, WorkerStep(k) \/ HeartbeatStep(k) \/ Crash(k)
      PROVE  Ledger!Next \/ UNCHANGED Ledger!vars
  <2>1. CASE \/ EndScan(k) \/ (\E raises \in BOOLEAN : Execute(k, raises)) \/ SendHeartbeat(k)
             \/ BeginPublish(k) \/ SkipPublish(k) \/ AbortPublish(k) \/ Crash(k)
    BY <1>1, <2>1 DEF EndScan, Execute, SendHeartbeat, BeginPublish, SkipPublish, AbortPublish,
                      Crash
  <2>. QED
    BY <1>3, <2>1, ReapFails, ClaimTakes, CommitPublishes, FailureFails, OutsideLedger
       DEF WorkerStep, HeartbeatStep
<1>4. ASSUME NEW c \in Callers, CallerStep(c) PROVE UNCHANGED Ledger!vars
  BY <1>1, <1>4, OutsideLedger DEF CallerStep, PrepareManual, AbortManual, CrashManual
<1>5. ASSUME NEW e \in Editors, EditorStep(e) PROVE Ledger!Next \/ UNCHANGED Ledger!vars
  BY <1>1, <1>5, EditRevokes DEF EditorStep, ReadConfig
<1>. QED
  BY <1>2, <1>3, <1>4, <1>5 DEF Next

(* Rows, leases, heartbeats, reaper and edits implement ClaimLedger: one      *)
(* holder per workflow, and every slot published once, by its holder.        *)
THEOREM LedgerImplemented == Spec => ImplementsLedger
<1>1. Init => Ledger!Init
  BY LedgerInit
<1>2. FenceInvariant /\ [Next]_vars => [Ledger!Next]_(Ledger!vars)
  BY LedgerStep
<1>. QED
  BY <1>1, <1>2, FenceHolds, PTL DEF Spec, ImplementsLedger, Ledger!Spec
=============================================================================
