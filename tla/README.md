# Verification of Alice

This directory is a TLA+ development beside the Alice repository.  It models the parts of the
program whose correctness depends on what several actors do in what order, checks them with TLC on
small instances, and proves their safety properties with TLAPS for every number of workers,
workflows, runs, requests and memories.  `A/` below stands for `apps/api/src/alicebot_api/`.

1. The system
2. The plan
3. The modules and the code
4. The runs
5. Where the documents and the code disagree
6. The proofs
7. What is not modelled

## 1. The system

Alice is a local-first memory for agents.  Captured sources become candidate memories; a policy
decides whether a candidate is committed, kept for review or rejected; committed memories are
corrected, undone, superseded, expired and merged; retrieval reads the live ones.  Around that core
run scheduled workflows, connectors, a governed tool-execution layer and a model gateway.  The
state is one PostgreSQL database (row-level security per user) or one SQLite file; every operation
is one transaction except where a model, a provider or a long workflow is called between two
transactions.  Those gaps, row locks, advisory locks, leases and unlocked reads are where the
difficulty lies.

| Part | State | Operations | What is hard | What makes it correct |
|---|---|---|---|---|
| Scheduled workflows (`A/vnext_scheduler.py`, `A/vnext_scheduler_runtime.py`, claims in `A/vnext_store.py`) | `scheduler_workflows`, `scheduler_runs`; the staged plan and heartbeat thread of a worker | due scan (reap, claim, execute, publish, fail), heartbeat, manual run, configuration | leases that run out while a worker is busy, late heartbeats, crashes, unacknowledged commits, edits during a run | one publication per slot, outcome final, publication atomic, the two rows of a claim agree, everything claimed ends |
| Model gateway (`A/response_jobs.py`, `A/routers/providers.py`, `A/response_generation.py`) | `response_generation_jobs`, thread events | reserve, claim, call, record, replay, abandon | the provider call lies between transactions; retries, crashes, leases | at most one call per key, one final answer, conversation agrees with the job |
| Memory lifecycle (`A/vnext_memory_commit.py`, `A/vnext_lifecycle.py`, `A/mcp/review.py`, `A/routers/vnext_memories.py`, `A/vnext_stores/*/memory_lifecycle.py`) | `memories`, revisions, nested confirmations, supersession pointers, derived candidates; plans staged by jobs | commit, confirm, undo, correct, forget, expire, unexpire, accept, approve, reject, replace; the jobs that propose and sweep | jobs read long before they write, candidates built from members that change, late answers, cycles | supersession is acyclic, no row is live and refused at once, a candidate is accepted only over the rows it was built from |
| Commit idempotency, embeddings, redaction (`A/vnext_memory_commit.py`, `A/vnext_embeddings.py`, `A/vnext_stores/*/embedding_cas.py`) | idempotency keys and fingerprints, vectors and their signatures, copies of a text in revisions and snapshots | commit, replay, embed, backfill, redact | two commits with one key, text that changes while its vector is computed, a redaction between two steps of somebody else | a key stands for one request and one row, a row is found by what it says now, nothing redacted comes back |
| Scheduler daemon (`A/vnext_scheduler_runtime.py`) | owner, lock, pid and status files | start in the foreground or background, hand over, heartbeat, stop, reclaim a stale owner | pid reuse, processes that die between two writes, late writes of the launcher | one daemon, a serving daemon is found, nobody takes its lease |
| Governed execution (`A/task_runs.py`, `A/approvals.py`, `A/proxy_execution.py`, `A/tasks.py`, `A/execution_budgets.py`, `workers/alicebot_worker`) | `task_runs`, `tasks`, approvals, executions, budgets | request, create, tick, pause, resume, cancel, approve, reject, execute | unlocked reads before updates by id, retries, two lock orders | an approval is decided once, only approved requests are executed, a keyed tool runs once, every transaction ends |
| Reports and projects (`A/vnext_projects.py`, `A/vnext_queue.py`, `A/vnext_contradictions.py`, ...) | artifacts, candidate memories, events, review revisions | propose, plan, decide, promote, redact | proposals of one digest overlap each other, a review and a redaction; the memory has a life of its own | a decision stays provable, a pending proposal can be decided, a promoted report stays promoted, with one memory |
| Agent identity and browser clips (`A/vnext_agent_keys.py`, `A/browser_clip_capabilities.py`) | keys, single-use capabilities | issue, rotate, revoke, consume | two consumers | used once |
| Capture, connectors (`A/vnext_capture.py`, `A/vnext_connectors.py`) | sources, cursors | capture, sync | partial failure of a batch | no item is skipped silently |
| Retrieval (`A/vnext_retrieval.py`, ...) | none | ranking, filters | scoring | reads only |
| Connections (`A/db.py`) | pools by URL | borrow, evict, close | eviction of a pool in use | borrowers keep their pool |

How the parts meet.  The daemon calls the due scan in a loop; a scan claims a workflow and executes
it, and the workflow (consolidation, roll-ups, staleness sweep, project updates, reports) reads
memories and stages writes that are published in the transaction that ends the run.  Commit service,
review surfaces and jobs all write the `memories` table; the first two serialise on one advisory
lock per user, the jobs do not take it.  A memory's text is copied into revisions, snapshots and
vectors, which embedding and backfill compute outside any transaction.  A project update couples an
artifact to a memory; the review of the one decides the other.  An invocation of the worker of
governed execution picks one task run; task runs wait for approvals that API callers decide and
execute.  The model gateway writes conversation events next to its job rows.  Everything relies on `db.py` for one transaction
per `with user_connection(...)`.

The hazards of the code, line by line, are listed under `hazards` in `PROJECT.json` with the
properties that would catch each, or the reason why there is none.

## 2. The plan

| Order | Module | Abstract specification | Status |
|---|---|---|---|
| 1 | `SchedulerClaims`: claims, leases, publication, manual runs, edits | `ClaimLedger` | checked; safety and the refinement proved |
| 2 | `ResponseJobs`: idempotent provider calls | `IdempotentCall` | checked; safety and the refinement proved |
| 3 | `MemoryLifecycle`: rows, reviews, derived candidates, staged jobs | the transition table of `vnext_lifecycle` | checked; safety proved |
| 4 | `TaskRuns`, `GovernedExecution`: ticks, cancellation, approvals, executions, row locks | - | checked; safety proved |
| 5 | `MemoryIndex`: idempotent commit, embedding, backfill, redaction | - | checked; safety proved |
| 6 | `SchedulerDaemon`: owner file, hand-over, stale reclaim | one daemon | checked; safety proved |
| 7 | `ScheduleTimes`: `compute_next_run_at` around a change of the clocks | the next slot after now | checked; proved outside the repeated hour |
| 8 | `ArtifactReview`: project updates and reports under review | a decision stays provable | checked; safety proved |
| 9 | agent keys, browser clip capabilities | a capability is used once | planned |
| 10 | connectors: cursor and deduplication of a batch | no item is skipped | planned |

Composition.  `SchedulerClaims` is tied to `ClaimLedger`, and `ResponseJobs` to `IdempotentCall`, by
a refinement mapping.  `GovernedExecution` extends `TaskRuns`, which says what becomes of a row that
was read; the extending module says when it is read and written.  `MemoryLifecycle`, `MemoryIndex`
and `ArtifactReview` describe the same rows from three sides: the first their statuses, the second
only whether they are deleted, the third the statuses that matter to a review and leaves a decided
memory's later life open.  All three take a job's two transactions from the scheduler: `Discard`
(and `Abort`) is the scheduler's `AbortPublish`, `SkipPublish` or a crash.  `ScheduleTimes` stands
behind the assumption `SlotAssumption` of `SchedulerClaims`.

Theorems planned next: the refinement of an abstract daemon lease by `SchedulerDaemon` and of an
abstract approval by `GovernedExecution`, once those specifications are written.

## 3. The modules and the code

`PROJECT.json` ("map") names, for every definition, the lines it stands for.

### SchedulerClaims

One row of `wf` is a row of `scheduler_workflows`: configuration, `next_run_at` (`next`) and the
claim (`token`, `version`, `expires`).  One row of `run` is a row of `scheduler_runs`; run
identifiers are a pool of which each is used once, and a claim token is named after its run, since
both are fresh at the same moment.  `worker`, `caller` and `editor` are the local variables of
`run_due_workflows_durable`, `run_now_durable` and `configure_workflow`.  `now` is the clock of the
database, which its clients share.  One history variable serves the properties: `published`, the
artifacts.

A due scan is `StartScan` (reap expired claims, read the time), then per iteration `Claim`,
`Execute` outside any transaction, and one of: `BeginPublish` and `CommitPublish`, `SkipPublish`
when the heartbeat thread has reported the claim lost, `AbortPublish`, `RecordFailure`.  Publication
is two steps because it checks the fence, does the long work of the staged plan while it holds the
rows' locks, and checks the clock again at the end; a lease may run out in between, and the commit
may go unacknowledged (`acknowledged`).  `SendHeartbeat` and `RenewClaim` are two steps because the
heartbeat takes the new expiry from its own clock before the statement runs, so a delayed heartbeat
meets rows that were reaped or claimed again.  `Crash` may strike in every state of a worker.
Manual runs (`BeginManual` to `CrashManual`) take no claim; `RecordManual` is the unconditional
`update_scheduler_run` together with the workflow columns they write from the row read at the
beginning.  `ReadConfig` and `WriteConfig` are `configure_workflow`, whose read takes no lock.

`ClaimLedger` has no time, leases, processes or rows: a workflow has at most one holder, only the
holder publishes, once, a slot nobody has published, and a run that is not the holder can only fail.

### ResponseJobs

One row of `jobs` is a row of `response_generation_jobs` for one idempotency key, one sequence of
`thread` the events of a conversation, `request` the handlers of `invoke_v1_runtime`.  The three
transactions are `Reserve`, `Claim` (with the user's turn) and `Record` (with the assistant's turn);
`Invoke` is the provider call between the last two.  A repeated request meets the row in `Replay`,
`RejectReusedKey`, `AnswerInProgress` or, when the lease has run out, `FailAbandoned`, which turns
the job into `provider_outcome_unknown` and never back.  `Expire` lets a lease run out at any
moment, `Crash` takes a handler at any step, `OtherTurn` is other activity in the conversation.
`Record` checks the fence last, as the code does; when it is lost the assistant's turn is rolled
back with it (`LoseFence`).  The tail check (`IsTail`) decides between reply and conflict.

`IdempotentCall` is what an Idempotency-Key promises a client: at most one call per key, an outcome
decided once, and nobody told anything else.

### MemoryLifecycle

One row of `rows` is a row of `memories`: `status`, the state of the nested confirmation (`conf`;
`lapsed` is a pending confirmation whose `expires_at` has passed), the two pointers of a
supersession, whether the validity window is closed (`bounded`), the derived proposal, and `rev`,
which stands for `updated_at`.  `Transitions` is the table `_OPERATIONS`; an operation is legal on
the statuses in the domain of its entry.

Every operation of `VNextMemoryCommitService` and of the two review surfaces takes the advisory
lock `lock_supersession_graph` of its user before it reads the row and holds it to the end of its
transaction.  Each is therefore one action, with everything it writes: `Undo`, `Correct`, `Forget`
and `Accept` also mark the candidates derived from the row (`WriteInvalidating`); `Approve`,
`Reject`, `KeepPrivate`, `AssignProject` and `Replace` do not.

Scheduled jobs read rows in one transaction and write in another, later one.  `ReadSweep` and
`PublishSweep` are the staleness sweep: the update names neither the status nor the version it
expects and carries the metadata as read, hence the old confirmation and proposal.  `ReadMembers`
and `PublishProposal` are consolidation and roll-ups; a proposal carries a snapshot of every input,
which `Accept` compares (`AsReviewed`).  For duplicates the code proposes to retire every member,
the survivor too, whose text the candidate takes over.

Left out: texts, scope, the policy decision (the write mode is an input), revisions and events, and
what makes a row due for the sweep (any active rows may be).  The topic of a roll-up is left open.
`OnChain` walks chains of any length; the code gives up after 64 hops and refuses.

### TaskRuns and GovernedExecution

One row of `run` is a row of `task_runs`; a task has its request, one approval and any number of
`executions`, kept in commit order.  `TaskRuns` holds the transitions of a row that was read:
`Ticked` (the exits of `tick_task_run_record` in their order), `Paused`, `Resumed`, `Cancelled`, `Failed`,
`AfterResolution`, `AfterExecution`.  Each operation is a READ COMMITTED transaction in `tx`: a
`...Read` step takes what the handler read before its first lock, `TakeTurn` waits for the advisory
lock of the task, `LinkTick`, `ResolveDecide` and the three `Execute...` steps are what happens under
it, `Write` writes whole rows and commits.  `AcquireRun` is the worker's
`FOR UPDATE SKIP LOCKED` pick of any runnable run: the order `updated_at ASC` is left open.  An
invocation of the worker (`workers/alicebot_worker/main.py`) takes one run and exits, or does nothing
where the legacy surfaces are off or no user is set.  Nothing in the repository launches it again;
in the model somebody may do so at any time and nobody has to.  `Blockers` names the processes that hold what the next statement needs, and `DeadlockAbort` is PostgreSQL's abort of one
transaction of a cycle of waits (the worker locks a run and then the task, an execution of the API
the task and then the run).

Abstractions: the reads of a handler before its lock are one instant; the rows of `task_steps`
mirror the task and are left out; one lifetime budget per tool stands for the budget rules, without
windows and profiles; the policy's verdict is open; traces are left out.  The unique index
`tool_executions_task_run_idempotency_idx` is left out too: what the code promises must come from
the lock and the lookup.  The key of an execution names its run, so the same approval can be
executed for two runs; `KeyedOnce` says so.

### MemoryIndex

A row of `memories` here is its text, the copies of earlier texts (`revisions`), the idempotency key
with the text it was asked for (the request fingerprint), and the vector with its signature.
`Commit`, `Insert`, `Conflict` and `Reject` are the service's `commit` with the unique-key insert
that a second request loses; `Embed` and `Store` the deferred vector with its compare-and-set; `Stage`, `Publish`
and `Discard` the staleness sweep, which writes back metadata (the signature among it) that it read
earlier; `StartFill` to `AbandonFill` the backfill command, page by page, with its report; `Redact`
the removal of everything said.  An embedding made inside the commit's transaction is an `Insert`
directly followed by its `Store`.  Of the statuses only `deleted` matters.  The vector's signature
names endpoint and text, so a text that comes back is the same text.

### SchedulerDaemon

`proc[p]` is a process at a place of the start, the loop or the end; `owner`, `pidFile` and `status`
are the files, `guard` the flock of the lock file.  `Check` to `Write` are the acquisition of the
lease with the judgement `Stale`, `Spawn` to `WriteStatus` the launcher's hand-over to its child,
`Inherit` to `Release` the daemon, `StopDaemon` the signal of `stop_daemon`.  `Die` may strike
anywhere; between `Create` and `Write` it leaves the file `Torn`.  `Start` gives a new process any
number that is free, hence reuse of pids.  `daemon_status` reads its three files at one instant; a
zombie still answers `os.kill`; verification and signal of `stop_daemon` are one step.  An identity
that cannot be determined is modelled where it decides a reclaim (`Stale(rec, known)`).

### ScheduleTimes

`NextRun` is `compute_next_run_at` with Python's arithmetic of aware datetimes: comparison of two
times of one zone by the wall clock (`LaterDays`), `fold = 0` in the conversion back (`ToUTC`).  The
zone has one change of its offset, at any instant and in either direction.  `Scan` and `Configure`
are the writers of `next_run_at`, and the history variable `stored` says which of them wrote last and
when.

### ArtifactReview

`artifact` and `memory` are the two tables, `created` and `decided` the events and review revisions
that `_validate_terminal_project_update` demands; a revision and the event of its transaction are
one record.  A generator (`gen`) is `Begin`, for the scheduler also `Plan`, which fixes identifiers
before its transaction starts, then `UpsertMemory`, `UpsertArtifact` and `Commit`; `Waits` is the
wait of an insert for the transaction that holds the same unique key.  `Decide` is
`review_project_update` in one locked transaction, `Redact` the redaction with everything it scrubs,
`LiveOn` the later life of a decided memory, `Report`, `ReviewReport` and `Promote` the review of
other artifacts, `EmptyScan` the scan that found no project.  `promotions` are the events
`artifact.promoted_to_memory`, from which a repeated promotion is answered; redaction rewrites their
payload and keeps both ids.  What a digest covers is left open: any
generator may meet any digest.  Texts and the project's own row are left out.  The history variable
`disturbed` marks digests whose memory was redacted while one of their generators was at work; of
these two properties claim less (section 5).

## 4. The runs

Nine runs must find nothing and three must find the violation section 5 describes.

| Run | Instance | Question |
|---|---|---|
| `scheduler_race` | 1 workflow, 3 runs, 2 workers, 1 caller, 1 editor, lease 1, clock to 3; 1,013,526 states | workers whose leases run out, a manual run and an edit meet: `TypeOK`, `ClaimRowsAgree`, `SlotPublishedOnce`, `PublishedIffSucceeded`, `LiveClaimHasCurrentConfig`, `OutcomeFinal`, `ClaimRevocation`, refinement of the ledger |
| `scheduler_live` | 1 worker that may crash, 1 editor, 4 runs, lease 1, clock to 5; 253,845 states | claims end (`ClaimedRunsEnd`), slots move on (`DueSlotsAdvance`) |
| `response_race` | 1 key, 2 bodies, 3 handlers, 1 conversation; 64,900 states | `InvokedOnce`, `OneCallInFlight`, `ToldIsFinal`, `ReplyFollowsItsTurn`, `ConversationMatchesJob`, refinement of the contract, a claimed job gets an outcome (`RunningEnds`) |
| `memory_sweep` | 2 rows, 4 updates each, the sweep | `SupersessionAcyclic`, `RefusedIsOut` against staged writes |
| `memory_merge` | 3 rows, 2 updates each, merges, duplicates, roll-ups | `HeadIsLive`, `AcceptedAsReviewed`, `SupersedesAnswered`, `MergedLeadsToCard`, `RetiredStaysRetired` |
| `governed_calls` | 2 tasks, 1 run, 2 callers, 1 worker, 3 calls; 404,560 states | `DecisionIsFinal`, `ExecutionWasApproved`, `KeyedOnce`, `TaskFollowsItsRecords`, `ExecutionBelongsToItsRun`; every transaction ends in spite of two lock orders (`EveryTransactionEnds`) |
| `index_races` | 2 rows, 2 clients, 1 key, 2 texts, 2 endpoints, pages of 1, 2 corrections; about 1.1 million states | `KeyNamesOneMemory`, `FoundByItsOwnText`, `ReportedRowsAreCurrent`, `RedactionIsFinal` |
| `daemon_start` | 4 processes, 3 pids; 174,232 states | `OneDaemon`, `ServingDaemonIsFound`, `LeaseIsNotTaken` |
| `artifact_review` | 3 artifacts, 3 memories, 2 generators, 2 digests; 161,604 states | `DecisionsProvable`, `PendingIsReviewable`, `PromotionStands` |
| `memory_resurrect`, `governed_reopen`, `schedule_back` | small | the three disagreements of section 5 |

`TypeOK` is a property of `scheduler_race` alone.  The type invariants of the other modules are
conjuncts of the inductive invariants of section 6 and proved with them; that of the memory lifecycle
is stated for the reader, and what the proofs need of it is in `RowsInvariant` and `ProposalsFit`.

Deadlock is checked in the scheduler and response runs, which never rest.  The others switch the
check off: rows are all retired or have used their updates, ids or calls, every process is dead.
The deadlocks of the code itself, cycles of row and advisory locks, are not states without a
successor: `DeadlockAbort` resolves them as PostgreSQL does, and `EveryTransactionEnds` says
that nobody waits for ever.

Bounds, and why they are enough.

- `MaxTime` stops the clock and `Horizon` the crashes, edits and manual runs.  Slots lie at
  multiples of 2.  In `scheduler_race` a clock of 3 holds a slot, a lease that runs out one tick
  after its claim, a reclaim of that slot by the other worker, and a late publication or heartbeat of
  the first.  In `scheduler_live` a clock of 5 holds two slots, and the gap after `Horizon` is the
  time in which liveness has to come true.
- Three runs are the first holder, the one that takes over, and the one of a manual run; the
  liveness run has four, and `DueSlotsAdvance` excuses the state in which none is left.
- `ScanLimit` is the scan's `limit`.  `MaxVersion` bounds the edits.  The reaper's own limit (at
  least 20 rows) is not reached.
- Three requests over one key and two bodies give a claimant, a repetition and a reuse with another
  body; `MaxEvents` bounds the foreign turns.
- `MaxRev` bounds the updates of a row.  Four allow, on two rows, the longest story found: retire,
  resurrect by the sweep, review, and retire in favour of the other row.  Two, on three rows, allow
  each member to be changed or to be retired after a change, and the candidate to be accepted and
  then retired itself.  A revision of a roll-up card needs a fourth row: it can be staged in
  `memory_merge`, its publication is beyond that run and covered by the proofs only.
- `MaxCalls` bounds the requests that read an existing row in `governed_calls`: an approval, an
  execution and one more, next to the worker.  `TargetSteps`, `MaxTicks` and `RetryCap` are 1, so
  each limit is met at once; `BudgetLimit` is 1.  Two tasks are needed for a run of another task.
- Two rows and two clients in `index_races` allow a second row after a redaction, and a correction
  and a late vector to cross; `MaxEdits` of 2 lets a text come back.
- Four processes are a launcher, its child, a rival and an unrelated process; three pids make a
  fourth process reuse one.
- Three artifacts are two overlapping proposals and a report.
- `schedule_back` counts quarters of an hour over two days around one change.

Symmetry is used in runs without liveness, over runs, workers, callers, tasks, rows, texts,
endpoints, processes, pids, artifacts and digests: the specifications treat them alike.  Where an
operator takes the least of some ids (the backfill's pages) the ids are numbers and not symmetric.

Fairness.  `scheduler_live` assumes weak fairness of the clock and of each worker's steps: the daemon
polls in a loop, and a crashed worker is one that polls again after a restart.  Nothing is assumed
of heartbeats, callers or editors.  `response_race` assumes weak fairness of a handler's steps (the
provider call has a timeout) and of the lease running out, and strong fairness of the client: the
202 answer carries `Retry-After`, and a client that stops asking leaves the job as it is, because no
background process ends abandoned jobs.  `governed_calls` assumes weak fairness of every open
transaction and nothing else: its next statement is executed once nobody holds what it needs, or it is
aborted while it is part of a cycle of waits.  No caller has to call and nobody has to launch the
worker, so the run says nothing about when a runnable run is picked; the code does not promise that.
Weak fairness is enough for a transaction that waits for a run's row because `MaxCalls`, `MaxTicks`
and `RetryCap` bound how often others can get ahead of it; in the database its place in the queue of
the lock does.

Each property of a passing run has a mutant in `PROJECT.json`: a plausible fault in one definition
(marked "Faulty variant" or "A bug" in the modules) under which that run finds it violated.

## 5. Where the documents and the code disagree

- `memory_resurrect` - a staged sweep brings back a row that was retired after the sweep read it
  (`vnext_lifecycle.py`: "retirement is terminal and must not be reversible").
- `governed_reopen` - the resolution of an approval writes back the whole run it read; a cancel that
  commits in between is overwritten, and the cancelled run is queued (`approvals.py`, against
  `test_approval_resolution_does_not_reopen_cancelled_linked_task_run`).
- `schedule_back` - a due scan that serves a slot late, in the hour that the clocks repeat, finds the
  same slot later by the wall clock and stores it again: it lies in the past, and the workflow that
  has just run is due again at once
  (`docs/vnext/architecture.md`: due scans "then advance the next run timestamp").

Seen on the way, allowed by the models and given no run of their own:

- a manual run writes the `next_run_at` of the configuration it began with; a workflow enabled
  meanwhile is left with none and no due scan finds it;
- of two overlapping configuration requests the one that changes the schedule writes back the
  `paused` it read, and a pause is lost;
- the commit of a manual publication succeeds without an acknowledgement, and the failure branch
  then marks the published run as failed;
- a pending candidate that is expired, then marked stale because a member changed, then unexpired is
  active although nobody accepted it;
- the review surfaces retire a member without marking its candidates, although
  `docs/vnext/consolidation.md` says the marking is part of every retirement (`AcceptedAsReviewed`
  shows that such a candidate cannot be accepted all the same); the same page has duplicates keep
  their survivor, whereas `_build_proposal` and acceptance retire it too;
- a tick that read its approval as pending writes `waiting_approval` after the approval was
  resolved, and the run waits for a signal that has gone by;
- executions of two tasks are counted against one budget under two locks, so both may find room;
- a generator that found a memory before its redaction commits an event that names it in the
  unredacted form (`CHANGELOG.md` speaks of a true redaction); such a decision can no longer be
  proved, which is why `DecisionsProvable` and `PendingIsReviewable` exclude disturbed digests;
- a scan that finds no project leaves a `needs_review` artifact that neither review accepts;
- an older pending proposal is accepted over a newer state of its project: nothing compares them;
- a daemon that dies between creating and writing its owner file leaves a file that every later
  start takes for an owner of unknown identity.

## 6. The proofs

The eight proof modules hold for every value of the constants that meets the named assumptions,
which TLC evaluates in the runs.  Two hypotheses are on theorems and no ASSUME:
`"sweep" \notin Jobs`, because `memory_resurrect` is about the opposite case, and `ZoneTyped`, the
types of the constants of `ScheduleTimes`, which only a run with a violation instantiates.  Every proof has one shape: an inductive invariant, stated at the end of the
component's module or at the head of its proofs; a lemma per action, or per kind of action; the
properties as consequences.

The assumptions say that bounds are natural numbers, that `None` is none of the values it is
compared with, that inputs are of the kinds the code accepts, and:

- `SlotAssumption`: the next slot lies after the present.  The code does not give this in the hour
  that a zone repeats when its clocks are put back (`schedule_back`): a slot of that hour that is
  served late is stored again, claimed again and published again.  `SlotPublishedOnce`, the ordering
  of the slots in `FenceInvariant` and the refinement of `ClaimLedger` hold outside that hour, which
  by `NextRunAhead` is the only exception.
- `ThreadAssumption`: the body of a request names its conversation.
- `Callers \cap Workers = {}`: an API request is not handled by the worker process.
- `Memories \subseteq Nat \ {0}` in `MemoryIndex`: the backfill pages by an order of the ids, and its
  cursor starts before all of them.
- `Digests` differ from ids: a digest keys a project update, an id names a row.

| Proof module | Inductive invariant | What follows from it |
|---|---|---|
| `SchedulerClaimsProofs` | `FenceInvariant`, `ClaimInvariant` | types, `ClaimRowsAgree`, `SlotPublishedOnce`, `PublishedIffSucceeded`, `OutcomeFinal`, `ClaimRevocation`, `LiveClaimHasCurrentConfig`, the refinement of `ClaimLedger` |
| `ResponseJobsProofs` | `CallInvariant` | types, `InvokedOnce`, `ToldIsFinal`, `OneCallInFlight`, `ReplyFollowsItsTurn`, `ConversationMatchesJob`, the refinement of `IdempotentCall` |
| `MemoryLifecycleProofs` | `LifecycleInvariant`, `DerivationInvariant` | `SupersessionAcyclic`, `RefusedIsOut`, `HeadIsLive`, `AcceptedAsReviewed`; without the sweep `RetiredStaysRetired`, `SupersedesAnswered`, `MergedLeadsToCard` |
| `GovernedExecutionProofs` | `GovernedInvariant` | types, `ExecutionWasApproved`, `KeyedOnce`, `TaskFollowsItsRecords`, `ExecutionBelongsToItsRun`, `DecisionIsFinal` |
| `MemoryIndexProofs` | `IndexInvariant` | `KeyNamesOneMemory`, `FoundByItsOwnText`, `ReportedRowsAreCurrent`, `RedactionIsFinal` |
| `SchedulerDaemonProofs` | `DaemonInvariant` | `OneDaemon`, `ServingDaemonIsFound`, `LeaseIsNotTaken` |
| `ArtifactReviewProofs` | `ReviewInvariant` | `DecisionsProvable`, `PendingIsReviewable`, `PromotionStands` |
| `ScheduleTimesProofs` | `Ahead` | `AheadOutsideRepeatedHour`, for every zone |

**Scheduler.**  `SlotPublishedOnce` alone is not inductive: a step that publishes must know that no
earlier run published this slot.  `SlotsOrdered` says why: published slots lie before the workflow's
next slot and before the slot of the run that holds the claim, because the next slot is computed
from a clock that has passed the published one.  `ClaimRowsAgree` and `RunRows` tie the token the
fence checks to the run that carries it, and `LocalState` ties a worker's variables to the rows.
Actions that change only a worker's variables share `WorkerOnly`, those that end a claim share
`FinalizeRows`.  `ClaimInvariant` adds the configuration: an edit moves the version and takes the
claim away in the same transaction, so a worker that still holds the claim has the present one.  The
refinement needs `FenceInvariant` only: claiming, publication, failure, reaping and an edit are steps
of the ledger (`ClaimTakes`, `CommitPublishes`, `FailureFails`, `ReapFails`, `EditRevokes`),
everything else stutters (`OutsideLedger`).

**Gateway.**  `ConversationMatchesJob` counts events; `TurnsMatchJob` says the same with `Once` and
`Nowhere`, which an append changes in a way the provers can follow, and `CountedTurns` leads back
to the count.  `OneCallInFlight` (one handler between claim and answer, with the row's token) is
what makes `InvokedOnce` inductive, and `TurnRemembered` what makes a late reply find its turn after
foreign events were written.  Reserving, claiming and waiting are stutters of the contract; the call,
the end of the job and the answer are its steps.

**Memory lifecycle.**  The graph argument is `GraphExtended`: pointing rows at `s` is harmless when
none of them lies on the chain from `s`, also for several rows at once, which is what acceptance
does.  It does not rest on statuses, which is why it survives rows that the sweep brings back.
`RefusedIsOut` needs `SweepInvariant`: whatever confirmation a staged sweep would write back was not
refused when it was read, and since the sweep writes the confirmation it read together with the
status, a refusal and a live status never meet.  The other properties are proved from what a step
can do at all: `NextShape` shows that each operation and each step of a job leaves
pointers and proposals alone, or inserts a row (`Created`), or is one of `Succeeded`, `Merged` and
`Replaced`, and that no row becomes a candidate again.  That a published sweep leaves proposals alone
is itself an invariant, `SweepsStand`: it writes back the proposal it read, and the rows it has read
are past the only status in which a proposal still changes.  Without the sweep `PointersFinal` holds:
a row with a successor stays superseded, a chain only grows at its end (`ChainKept`), and since a
candidate is accepted only while its inputs are readable, all it would retire are retired
(`AllRetire`).  With the sweep the statements are false.

**Governed execution.**  A transaction writes whole rows it has read earlier, so the invariant is about
open transactions.  `ReadsStand`: before its lock a transaction's view of the approval is pending or
still true.  `WritesFit`: the approval it will write is the present one or decides a pending one.
`OutcomeFits`: from the task's lock on, what it will write over the task and append to the log is what
the records say at the moment it commits.  `OneHolder` makes that stable: nobody else has the lock, and
a tick, which takes no part in it, writes neither task nor execution, and of an approval only the run
it is linked to, with the row locked.

**Index.**  `KeysUnique` and `AnswersMatchRows` carry the keys, `VectorsMatchTexts` the search: a
vector is stored only over the text it was computed from, and a change of text drops it.  The
backfill's report rests on `FillProgress`: every listed row that nobody touched is current or on the
page at work once the cursor has passed it; `FirstRows` shows that a page leaves no row of the
listing out, by least and greatest elements of finite sets of numbers.

**Daemon.**  `Leases` says who may touch the owner file and what it holds meanwhile, `ChildWaits` that
the child does not serve while its launcher still writes files, `OwnFiles` that the files of a
serving daemon are its own.  The step that is easy to get wrong is the reclaim: the guard and
`Exists` make `Unlink` remove only the record of a process that is gone (`StaleIsGone`), also when
its number is in use again.

**Reports and projects.**  `ProposalFits` and `ProposalsApart` are about generators that have found or
will insert a row: what one has found still has its digest, unless a redaction came between, and two
never insert the same key.  `RowsCoupled` and `DigestsCoupled` tie an artifact to its memory,
`DecisionsKept` and `CreationsKept` the records to the rows.  `disturbed` stands in exactly those
places where a redaction between two steps of a generator breaks the tie (section 5).
`PromotionStands` is inductive beside them: no review leads out of `promoted_to_memory`, a promotion
takes a report that has no event and a memory that has no key (`PromotionAdded`), and what else is
done to a memory keeps a report's key or redacts the row (`PromotionsKept`).

**Times.**  A schedule of at least one weekday has a candidate within the next seven days
(`WithinAWeek`), so the first candidate exists (`FirstIsADay`) and is later by the wall clock
(`LaterByTheWall`).  Back in UTC it is later still (`NextRunIsLater`) unless `Wall` read the offset
after the change and `ToUTC` uses the larger one before it; then the present lies in the hour that
follows the change, and the candidate misses it by less than the difference of the offsets.  Clocks
that are put forward have no such hour.  `schedule_back` shows that the exception happens.

Only model-checked: liveness, which is out of the prover's reach (`ClaimedRunsEnd`,
`DueSlotsAdvance`, `RunningEnds`, `EveryTransactionEnds`), and the violations of section 5.

## 7. What is not modelled

The components marked `not_modelled` in `PROJECT.json`, each with its reason: some are planned
(section 2), the others are reads, parsing, external I/O or clients.  Within the modelled parts:

- what a workflow computes, and the SQLite path of the scheduler, which has no claims;
- default workflows being created while one is configured;
- the order of row and advisory locks outside governed execution: elsewhere a transaction is one
  step, except publication, the provider call and the generators of project updates;
- calls to the gateway without an idempotency key, and provider configuration;
- the promotion policy (the write mode is an input) and the quarantine sweep;
- the manual operations on task steps, rolling windows and profiles of budgets, task workspaces;
- the states of a queued task, the detectors of contradictions, currency and entities, open loops;
- the eviction of a connection pool in use;
- who launches the worker of governed execution, and so when a runnable run is picked;
- most of the repository's lines: retrieval, ranking, briefing, legacy continuity, importers,
  providers, evaluation and the interfaces compute a result from rows or translate requests, and
  their correctness is a matter of values and texts which a state machine does not express.
