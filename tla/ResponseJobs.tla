---------------------------- MODULE ResponseJobs ----------------------------
(***************************************************************************)
(* POST /v1/runtime/invoke: a model provider is called outside any         *)
(* transaction on behalf of a request with an Idempotency-Key.  Three      *)
(* transactions surround the call: reserve the key, claim the job together *)
(* with the user's turn in the thread, and record the outcome together     *)
(* with the assistant's turn.  Requests with one key race, crash, lose the *)
(* acknowledgement of a commit, and return after another request has       *)
(* declared their call abandoned.                                          *)
(***************************************************************************)
EXTENDS Naturals, Sequences, FiniteSets

CONSTANTS
    Keys,           \* idempotency keys of one user and endpoint
    Fingerprints,   \* digests of request bodies
    Requests,       \* request handlers
    Threads,        \* conversation threads
    ThreadOf,       \* the thread a request body names
    MaxEvents,      \* bound: no foreign turn once a thread has this many events
    None

ASSUME ThreadAssumption == ThreadOf \in [Fingerprints -> Threads]

Outcomes == {"reply", "upstream_failure", "conflict", "provider_outcome_unknown"}

ASSUME NoneAssumption == None \notin Requests \cup Fingerprints \cup Keys \cup Outcomes

VARIABLES
    jobs,       \* rows of response_generation_jobs by key
    thread,     \* events of each thread, oldest first
    request,    \* local state of the handlers
    calls,      \* history: provider calls made for each key
    told        \* history: <<key, outcome>> answers that state a final outcome

vars == <<jobs, thread, request, calls, told>>

NoJob == [state |-> "absent", fingerprint |-> None, lease |-> None, expired |-> FALSE,
          outcome |-> None]

IdleRequest == [pc |-> "idle", key |-> None, fingerprint |-> None, turn |-> 0,
                reply |-> FALSE]

UserTurn(k) == [kind |-> "message.user", key |-> k]
AssistantTurn(k) == [kind |-> "message.assistant", key |-> k]
ForeignTurn == [kind |-> "foreign", key |-> None]

Key(q) == request[q].key
Job(q) == jobs[Key(q)]
Thread(q) == ThreadOf[request[q].fingerprint]

Matches(q) == Job(q).fingerprint = request[q].fingerprint
Decided(job) == job.state \in {"succeeded", "failed"}

Terminated(job, outcome) ==
    [job EXCEPT !.state = IF outcome = "reply" THEN "succeeded" ELSE "failed",
                !.outcome = outcome]

Answer(q) == request' = [request EXCEPT ![q] = IdleRequest]

-----------------------------------------------------------------------------
Init ==
    /\ jobs = [k \in Keys |-> NoJob]
    /\ thread = [t \in Threads |-> <<>>]
    /\ request = [q \in Requests |-> IdleRequest]
    /\ calls = [k \in Keys |-> 0]
    /\ told = {}

Arrive(q, k, f) ==
    /\ request[q].pc = "idle"
    /\ request' = [request EXCEPT ![q] =
                     [IdleRequest EXCEPT !.pc = "reserve", !.key = k, !.fingerprint = f]]
    /\ UNCHANGED <<jobs, thread, calls, told>>

-----------------------------------------------------------------------------
(* _response_job_replay_or_in_progress, under the row lock of either of the *)
(* first two transactions: every way to answer without calling the provider. *)

LooksUp(q) == request[q].pc \in {"reserve", "claim"} /\ Job(q).state # "absent"

RejectReusedKey(q) ==
    /\ LooksUp(q) /\ ~Matches(q)
    /\ Answer(q)
    /\ UNCHANGED <<jobs, thread, calls, told>>

Replay(q) ==
    /\ LooksUp(q) /\ Matches(q) /\ Decided(Job(q))
    /\ told' = told \cup {<<Key(q), Job(q).outcome>>}
    /\ Answer(q)
    /\ UNCHANGED <<jobs, thread, calls>>

(* Faulty variant: an abandoned job may be tried again. *)
ReopenAbandoned(q) ==
    /\ LooksUp(q) /\ Matches(q) /\ Job(q).state = "running" /\ Job(q).expired
    /\ jobs' = [jobs EXCEPT ![Key(q)].state = "pending", ![Key(q)].expired = FALSE]
    /\ Answer(q)
    /\ UNCHANGED <<thread, calls, told>>

(* Faulty variant: the abandonment is answered and not written. *)
AnswerAbandonedOnly(q) ==
    /\ LooksUp(q) /\ Matches(q) /\ Job(q).state = "running" /\ Job(q).expired
    /\ told' = told \cup {<<Key(q), "provider_outcome_unknown">>}
    /\ Answer(q)
    /\ UNCHANGED <<jobs, thread, calls>>

(* fail_if_abandoned: the call did not finish within its lease, and it is    *)
(* never repeated.  The commit may go unacknowledged.                        *)
FailAbandoned(q) ==
    /\ LooksUp(q) /\ Matches(q) /\ Job(q).state = "running" /\ Job(q).expired
    /\ jobs' = [jobs EXCEPT ![Key(q)] = Terminated(Job(q), "provider_outcome_unknown")]
    /\ told' \in {told, told \cup {<<Key(q), "provider_outcome_unknown">>}}
    /\ Answer(q)
    /\ UNCHANGED <<thread, calls>>

AnswerInProgress(q) ==
    /\ LooksUp(q) /\ Matches(q) /\ Job(q).state = "running" /\ ~Job(q).expired
    /\ Answer(q)
    /\ UNCHANGED <<jobs, thread, calls, told>>

-----------------------------------------------------------------------------
(* First transaction: the row is created unless it exists. *)
Reserve(q) ==
    /\ request[q].pc = "reserve"
    /\ \/ /\ Job(q).state = "absent"
          /\ jobs' = [jobs EXCEPT ![Key(q)] =
                        [NoJob EXCEPT !.state = "pending",
                                      !.fingerprint = request[q].fingerprint]]
       \/ /\ Job(q).state = "pending" /\ Matches(q)
          /\ UNCHANGED jobs
    /\ request' = [request EXCEPT ![q].pc = "resolve"]
    /\ UNCHANGED <<thread, calls, told>>

(* Provider row, secrets and adapter are resolved between transactions; an  *)
(* error is answered and leaves the job pending.                            *)
Resolve(q) ==
    /\ request[q].pc = "resolve"
    /\ \/ request' = [request EXCEPT ![q].pc = "claim"]
       \/ Answer(q)
    /\ UNCHANGED <<jobs, thread, calls, told>>

(* Faulty variant: neither the lookup of the second transaction nor          *)
(* claim_pending asks for the pending state.                                *)
CanClaimAnything(q) == request[q].pc = "claim" /\ Matches(q) /\ ~Decided(Job(q))

CanClaim(q) == request[q].pc = "claim" /\ Matches(q) /\ Job(q).state = "pending"

(* Second transaction: the user's turn and the claim, or neither.  When the *)
(* commit is not acknowledged the handler stops before the call.            *)
Claim(q) ==
    /\ CanClaim(q)
    /\ thread' = [thread EXCEPT ![Thread(q)] = Append(@, UserTurn(Key(q)))]
    /\ jobs' = [jobs EXCEPT ![Key(q)].state = "running", ![Key(q)].lease = q]
    /\ \/ request' = [request EXCEPT ![q].pc = "invoke", ![q].turn = Len(thread[Thread(q)]) + 1]
       \/ Answer(q)
    /\ UNCHANGED <<calls, told>>

(* prepare_response_generation raises: the turn is rolled back, the job      *)
(* stays pending.                                                            *)
RejectPrepare(q) ==
    /\ CanClaim(q)
    /\ Answer(q)
    /\ UNCHANGED <<jobs, thread, calls, told>>

(* The provider call, outside any transaction; it replies or fails. *)
Invoke(q, reply) ==
    /\ request[q].pc = "invoke"
    /\ calls' = [calls EXCEPT ![Key(q)] = @ + 1]
    /\ request' = [request EXCEPT ![q].pc = "record", ![q].reply = reply]
    /\ UNCHANGED <<jobs, thread, told>>

(* Faulty variant: finalization trusts the lease token alone. *)
HoldsToken(q) == Job(q).lease = q

(* finalize: the fence is state and token; the lease end is not asked for. *)
HoldsFence(q) == Job(q).state = "running" /\ Job(q).lease = q

(* Faulty variant: the assistant's turn is appended wherever the thread ends. *)
AnyTail(q) == TRUE

(* append_event_if_tail: the user's turn is still the last event. *)
IsTail(q) == Len(thread[Thread(q)]) = request[q].turn

(* Third transaction: assistant's turn, outcome and answer.  The commit may  *)
(* go unacknowledged.                                                        *)
Record(q) ==
    LET outcome == IF ~request[q].reply THEN "upstream_failure"
                   ELSE IF IsTail(q) THEN "reply" ELSE "conflict"
    IN
    /\ request[q].pc = "record" /\ HoldsFence(q)
    /\ thread' = IF outcome = "reply"
                 THEN [thread EXCEPT ![Thread(q)] = Append(@, AssistantTurn(Key(q)))]
                 ELSE thread
    /\ jobs' = [jobs EXCEPT ![Key(q)] = Terminated(Job(q), outcome)]
    /\ told' \in {told, told \cup {<<Key(q), outcome>>}}
    /\ Answer(q)
    /\ UNCHANGED calls

(* Faulty variant: the assistant's turn survives a lost fence. *)
KeepTurnOfLostFence(q) ==
    /\ request[q].pc = "record" /\ ~HoldsFence(q)
    /\ thread' = IF request[q].reply /\ IsTail(q)
                 THEN [thread EXCEPT ![Thread(q)] = Append(@, AssistantTurn(Key(q)))]
                 ELSE thread
    /\ Answer(q)
    /\ UNCHANGED <<jobs, calls, told>>

(* The fence was lost: everything is rolled back and the client gets 409. *)
LoseFence(q) ==
    /\ request[q].pc = "record" /\ ~HoldsFence(q)
    /\ Answer(q)
    /\ UNCHANGED <<jobs, thread, calls, told>>

Crash(q) ==
    /\ request[q].pc # "idle"
    /\ Answer(q)
    /\ UNCHANGED <<jobs, thread, calls, told>>

-----------------------------------------------------------------------------
(* The lease of a running job runs out. *)
Expire(k) ==
    /\ jobs[k].state = "running" /\ ~jobs[k].expired
    /\ jobs' = [jobs EXCEPT ![k].expired = TRUE]
    /\ UNCHANGED <<thread, request, calls, told>>

(* Any other activity in the conversation. *)
OtherTurn(t) ==
    /\ Len(thread[t]) < MaxEvents
    /\ thread' = [thread EXCEPT ![t] = Append(@, ForeignTurn)]
    /\ UNCHANGED <<jobs, request, calls, told>>

Handle(q) ==
    \/ RejectReusedKey(q) \/ Replay(q) \/ FailAbandoned(q) \/ AnswerInProgress(q)
    \/ Reserve(q) \/ Resolve(q) \/ Claim(q) \/ RejectPrepare(q)
    \/ \E reply \in BOOLEAN : Invoke(q, reply)
    \/ Record(q) \/ LoseFence(q)

Next ==
    \/ \E q \in Requests :
         \/ \E k \in Keys, f \in Fingerprints : Arrive(q, k, f)
         \/ Handle(q)
         \/ Crash(q)
    \/ \E k \in Keys : Expire(k)
    \/ \E t \in Threads : OtherTurn(t)

Spec == Init /\ [][Next]_vars

(* Code-scheduling fairness: handlers run to their answer (the provider call *)
(* has a timeout) and leases run out.  Client fairness: the 202 answer       *)
(* carries Retry-After, and the client of a running job keeps repeating its  *)
(* request; not every repetition crashes before it looks at the job.         *)
Retry(k) ==
    /\ jobs[k].state = "running"
    /\ \E q \in Requests : Arrive(q, k, jobs[k].fingerprint)

LookAt(k) == \E q \in Requests : Key(q) = k /\ FailAbandoned(q)

Fairness ==
    /\ \A q \in Requests : WF_vars(Handle(q))
    /\ \A k \in Keys : WF_vars(Expire(k)) /\ SF_vars(Retry(k)) /\ SF_vars(LookAt(k))

FairSpec == Spec /\ Fairness

-----------------------------------------------------------------------------
States == {"absent", "pending", "running", "succeeded", "failed"}

JobRows ==
    [state : States, fingerprint : Fingerprints \cup {None}, lease : Requests \cup {None},
     expired : BOOLEAN, outcome : Outcomes \cup {None}]

Turns == [kind : {"message.user", "message.assistant", "foreign"}, key : Keys \cup {None}]

RequestStates ==
    [pc : {"idle", "reserve", "resolve", "claim", "invoke", "record"},
     key : Keys \cup {None}, fingerprint : Fingerprints \cup {None}, turn : Nat,
     reply : BOOLEAN]

(* The CHECK constraints of response_generation_jobs: a lease from the claim  *)
(* on, an outcome from the end on, and a response only for a success.         *)
RowShape(job) ==
    /\ job.fingerprint = None <=> job.state = "absent"
    /\ job.lease = None <=> job.state \in {"absent", "pending"}
    /\ job.outcome = None <=> ~Decided(job)
    /\ job.outcome = "reply" <=> job.state = "succeeded"

(* Every variable has its type and every job row the shape the table's CHECK *)
(* constraints ask for.                                                      *)
TypeOK ==
    /\ jobs \in [Keys -> JobRows]
    /\ \A k \in Keys : RowShape(jobs[k])
    /\ thread \in [Threads -> Seq(Turns)]
    /\ request \in [Requests -> RequestStates]
    /\ calls \in [Keys -> Nat]
    /\ told \subseteq Keys \X Outcomes

(* Retries, crashes and abandoned leases never charge a key twice: the       *)
(* provider is called at most once for each Idempotency-Key (the claim is the *)
(* only way to the call, and it leaves pending for good).                    *)
InvokedOnce == \A k \in Keys : calls[k] <= 1

(* Whatever final outcome any request with the key was ever answered, live    *)
(* or replayed, is what the row still says: a late finalization never         *)
(* contradicts "provider_outcome_unknown", nor the other way round.           *)
ToldIsFinal == \A answer \in told : jobs[answer[1]].outcome = answer[2]

(* A reply is in the conversation directly after the user's turn it answers,  *)
(* however much other activity raced with the call.                          *)
ReplyFollowsItsTurn ==
    \A t \in Threads : \A i \in 1..Len(thread[t]) :
        thread[t][i].kind = "message.assistant" =>
            i > 1 /\ thread[t][i - 1] = UserTurn(thread[t][i].key)

Places == UNION {{t} \X (1..Len(thread[t])) : t \in Threads}

Occurrences(turn) == Cardinality({p \in Places : thread[p[1]][p[2]] = turn})

(* Conversation and job agree across the three transactions: a key has one    *)
(* user's turn once it was claimed and none before, and an assistant's turn   *)
(* exactly when its job succeeded.                                            *)
ConversationMatchesJob ==
    \A k \in Keys :
        /\ Occurrences(UserTurn(k)) =
              (IF jobs[k].state \in {"absent", "pending"} THEN 0 ELSE 1)
        /\ Occurrences(AssistantTurn(k)) = (IF jobs[k].state = "succeeded" THEN 1 ELSE 0)

(* A request that is about to call, or has called, was the one that claimed    *)
(* the job; so no two of them are between claim and answer for one key.       *)
OneCallInFlight ==
    \A q \in Requests :
        request[q].pc \in {"invoke", "record"} =>
            /\ Job(q).lease = q /\ Job(q).state \in {"running", "failed"} /\ Matches(q)
            /\ calls[Key(q)] = IF request[q].pc = "invoke" THEN 0 ELSE 1

(* A claimed job gets an outcome: by its handler, or, after a crash, by the   *)
(* first repetition of the request that comes after the lease.                *)
RunningEnds ==
    \A k \in Keys : jobs[k].state = "running" ~> Decided(jobs[k])

Call == INSTANCE IdempotentCall WITH
    Reply <- "reply", Undecided <- None,
    called <- {k \in Keys : calls[k] > 0},
    outcome <- [k \in Keys |-> jobs[k].outcome]

(* The handlers, transactions and leases implement the contract of an         *)
(* Idempotency-Key.                                                           *)
ImplementsIdempotentCall == Call!Spec

-----------------------------------------------------------------------------
(* What makes the properties inductive. *)

(* A request at work has a key and a body. *)
RequestsNamed ==
    \A q \in Requests : request[q].pc # "idle" =>
        /\ request[q].key \in Keys /\ request[q].fingerprint \in Fingerprints

(* The provider is called for claimed jobs only, and before a reply. *)
CallsFollowClaims ==
    \A k \in Keys :
        /\ jobs[k].state \in {"absent", "pending"} => calls[k] = 0
        /\ jobs[k].state = "succeeded" => calls[k] = 1

Nowhere(turn) == \A t \in Threads : \A i \in 1..Len(thread[t]) : thread[t][i] # turn

Once(turn) ==
    \E t \in Threads : \E i \in 1..Len(thread[t]) :
        /\ thread[t][i] = turn
        /\ \A u \in Threads : \A j \in 1..Len(thread[u]) :
              thread[u][j] = turn => u = t /\ j = i

(* ConversationMatchesJob, without counting. *)
TurnsMatchJob ==
    \A k \in Keys :
        /\ IF jobs[k].state \in {"absent", "pending"}
           THEN Nowhere(UserTurn(k)) ELSE Once(UserTurn(k))
        /\ IF jobs[k].state = "succeeded"
           THEN Once(AssistantTurn(k)) ELSE Nowhere(AssistantTurn(k))

(* The handler of a call remembers where its user's turn is. *)
TurnRemembered ==
    \A q \in Requests : request[q].pc \in {"invoke", "record"} =>
        /\ request[q].turn \in 1..Len(thread[Thread(q)])
        /\ thread[Thread(q)][request[q].turn] = UserTurn(Key(q))

CallInvariant ==
    /\ TypeOK
    /\ RequestsNamed
    /\ CallsFollowClaims
    /\ InvokedOnce
    /\ OneCallInFlight
    /\ ToldIsFinal
    /\ TurnsMatchJob
    /\ TurnRemembered
    /\ ReplyFollowsItsTurn
=============================================================================
