-------------------------- MODULE ResponseJobsProofs --------------------------
(***************************************************************************)
(* Safety of the idempotent runtime call, for every number of keys, bodies,*)
(* handlers and conversations, and the refinement of IdempotentCall.       *)
(***************************************************************************)
EXTENDS ResponseJobs, FiniteSetTheorems, TLAPS

(* The two turns of a key are turns, and differ from each other and from     *)
(* those of every other key.                                                 *)
LEMMA TurnsDiffer ==
    ASSUME NEW k \in Keys
    PROVE  /\ UserTurn(k) \in Turns /\ AssistantTurn(k) \in Turns /\ ForeignTurn \in Turns
           /\ UserTurn(k).key = k /\ AssistantTurn(k).key = k
           /\ UserTurn(k).kind = "message.user"
           /\ AssistantTurn(k).kind = "message.assistant"
           /\ ForeignTurn.kind = "foreign"
BY DEF UserTurn, AssistantTurn, ForeignTurn, Turns

-----------------------------------------------------------------------------
(* Appending an event to a conversation. *)

(* The events that were there keep their places, the new one comes last.     *)
LEMMA AppendedThread ==
    ASSUME thread \in [Threads -> Seq(Turns)], NEW t \in Threads, NEW e \in Turns,
           thread' = [thread EXCEPT ![t] = Append(@, e)]
    PROVE  /\ thread' \in [Threads -> Seq(Turns)]
           /\ Len(thread[t]) \in Nat
           /\ Len(thread'[t]) = Len(thread[t]) + 1
           /\ thread'[t][Len(thread[t]) + 1] = e
           /\ \A i \in 1..Len(thread[t]) : thread'[t][i] = thread[t][i]
           /\ \A u \in Threads : u # t => thread'[u] = thread[u]
<1>1. thread[t] \in Seq(Turns) /\ Append(thread[t], e) \in Seq(Turns)
  OBVIOUS
<1>2. thread'[t] = Append(thread[t], e)
  OBVIOUS
<1>. QED
  BY <1>1, <1>2

(* An event that is nowhere stays away when another one is appended, and is   *)
(* there once when it is appended itself.                                    *)
LEMMA NowhereAfterAppend ==
    ASSUME thread \in [Threads -> Seq(Turns)], NEW t \in Threads, NEW e \in Turns,
           thread' = [thread EXCEPT ![t] = Append(@, e)],
           NEW CONSTANT turn, Nowhere(turn)
    PROVE  IF e = turn THEN Once(turn)' ELSE Nowhere(turn)'
<1>1. /\ Len(thread[t]) \in Nat
      /\ Len(thread'[t]) = Len(thread[t]) + 1
      /\ thread'[t][Len(thread[t]) + 1] = e
      /\ \A i \in 1..Len(thread[t]) : thread'[t][i] = thread[t][i]
      /\ \A u \in Threads : u # t => thread'[u] = thread[u]
  BY AppendedThread
<1>2. \A u \in Threads : \A i \in 1..Len(thread'[u]) :
         thread'[u][i] # turn \/ (u = t /\ i = Len(thread[t]) + 1 /\ e = turn)
  BY <1>1 DEF Nowhere
<1>3. Len(thread[t]) + 1 \in 1..Len(thread'[t])
  BY <1>1
<1>. QED
  BY <1>1, <1>2, <1>3 DEF Once, Nowhere

(* An event that is there once stays there once when another is appended.    *)
LEMMA OnceAfterAppend ==
    ASSUME thread \in [Threads -> Seq(Turns)], NEW t \in Threads, NEW e \in Turns,
           thread' = [thread EXCEPT ![t] = Append(@, e)],
           NEW CONSTANT turn, Once(turn), e # turn
    PROVE  Once(turn)'
<1>1. /\ Len(thread[t]) \in Nat
      /\ Len(thread'[t]) = Len(thread[t]) + 1
      /\ thread'[t][Len(thread[t]) + 1] = e
      /\ \A i \in 1..Len(thread[t]) : thread'[t][i] = thread[t][i]
      /\ \A u \in Threads : u # t => thread'[u] = thread[u]
  BY AppendedThread
<1>a. PICK u \in Threads : \E i \in 1..Len(thread[u]) :
        /\ thread[u][i] = turn
        /\ \A v \in Threads : \A j \in 1..Len(thread[v]) :
              thread[v][j] = turn => v = u /\ j = i
  BY DEF Once
<1>2. PICK i \in 1..Len(thread[u]) :
        /\ thread[u][i] = turn
        /\ \A v \in Threads : \A j \in 1..Len(thread[v]) :
              thread[v][j] = turn => v = u /\ j = i
  BY <1>a
<1>3. i \in 1..Len(thread'[u]) /\ thread'[u][i] = turn
  BY <1>1, <1>2
<1>4. \A v \in Threads : \A j \in 1..Len(thread'[v]) :
        thread'[v][j] = turn => v = u /\ j = i
  <2> SUFFICES ASSUME NEW v \in Threads, NEW j \in 1..Len(thread'[v]), thread'[v][j] = turn
               PROVE  v = u /\ j = i
    OBVIOUS
  <2>1. j \in 1..Len(thread[v]) /\ thread[v][j] = turn
    BY <1>1
  <2> QED
    BY <1>2, <2>1
<1>. QED
  BY <1>3, <1>4 DEF Once

-----------------------------------------------------------------------------
(* Steps that change no job and no conversation. *)

LEMMA InitHolds == Init => CallInvariant
<1>. SUFFICES ASSUME Init PROVE CallInvariant
  OBVIOUS
<1>. USE DEF Init
<1>1. NoJob \in JobRows /\ RowShape(NoJob)
  BY NoneAssumption DEF NoJob, JobRows, States, RowShape, Decided, Outcomes
<1>2. IdleRequest \in RequestStates
  BY DEF IdleRequest, RequestStates
<1>3. \A t \in Threads : thread[t] = <<>> /\ Len(thread[t]) = 0 /\ thread[t] \in Seq(Turns)
  OBVIOUS
<1>4. TypeOK
  BY <1>1, <1>2, <1>3 DEF TypeOK
<1>5. TurnsMatchJob
  BY <1>3 DEF TurnsMatchJob, Nowhere, NoJob
<1>6. ReplyFollowsItsTurn
  BY <1>3 DEF ReplyFollowsItsTurn
<1>7. OneCallInFlight /\ TurnRemembered /\ RequestsNamed
  BY DEF OneCallInFlight, TurnRemembered, RequestsNamed, IdleRequest
<1>8. CallsFollowClaims /\ InvokedOnce /\ ToldIsFinal
  BY DEF CallsFollowClaims, InvokedOnce, ToldIsFinal, NoJob
<1>. QED
  BY <1>4, <1>5, <1>6, <1>7, <1>8 DEF CallInvariant

(* A handler that is not about to call and has not called may move on, and    *)
(* what clients are told is what the rows say.                               *)
LEMMA RequestOnly ==
    ASSUME CallInvariant, NEW q \in Requests, NEW s \in RequestStates,
           request' = [request EXCEPT ![q] = s],
           s.pc \notin {"invoke", "record"},
           s.pc # "idle" => s.key \in Keys /\ s.fingerprint \in Fingerprints,
           UNCHANGED <<jobs, thread, calls>>,
           told' \subseteq Keys \X Outcomes,
           \A answer \in told' : jobs[answer[1]].outcome = answer[2]
    PROVE  CallInvariant'
<1>1. request \in [Requests -> RequestStates]
  BY DEF CallInvariant, TypeOK
<1>2. request'[q] = s /\ \A p \in Requests : p # q => request'[p] = request[p]
  BY <1>1
<1>3. TypeOK'
  BY <1>1 DEF CallInvariant, TypeOK
<1>4. RequestsNamed'
  BY <1>2 DEF CallInvariant, RequestsNamed
<1>5. OneCallInFlight' /\ TurnRemembered'
  BY <1>2 DEF CallInvariant, OneCallInFlight, TurnRemembered, Job, Key, Thread, Matches
<1>6. CallsFollowClaims' /\ InvokedOnce' /\ ToldIsFinal'
  BY DEF CallInvariant, CallsFollowClaims, InvokedOnce, ToldIsFinal
<1>7. TurnsMatchJob' /\ ReplyFollowsItsTurn'
  BY DEF CallInvariant, TurnsMatchJob, ReplyFollowsItsTurn, Nowhere, Once
<1>. QED
  BY <1>3, <1>4, <1>5, <1>6, <1>7 DEF CallInvariant

(* The outcome of a decided row is one.                                      *)
LEMMA DecidedOutcome ==
    ASSUME TypeOK, NEW k \in Keys, Decided(jobs[k])
    PROVE  jobs[k].outcome \in Outcomes
BY DEF TypeOK, RowShape, Decided, JobRows

(* Every way to answer without writing a row or a turn.                      *)
LEMMA AnswerSteps ==
    ASSUME CallInvariant, NEW q \in Requests,
           \/ RejectReusedKey(q) \/ Replay(q) \/ AnswerInProgress(q)
           \/ RejectPrepare(q) \/ LoseFence(q) \/ Crash(q)
    PROVE  CallInvariant'
<1>1. IdleRequest \in RequestStates /\ IdleRequest.pc = "idle"
  BY DEF IdleRequest, RequestStates
<1>2. request' = [request EXCEPT ![q] = IdleRequest] /\ UNCHANGED <<jobs, thread, calls>>
  BY DEF RejectReusedKey, Replay, AnswerInProgress, RejectPrepare, LoseFence, Crash, Answer
<1>3. told \subseteq Keys \X Outcomes /\ \A answer \in told : jobs[answer[1]].outcome = answer[2]
  BY DEF CallInvariant, TypeOK, ToldIsFinal
<1>4. CASE Replay(q)
  <2>1. Key(q) \in Keys /\ Decided(jobs[Key(q)])
    BY <1>4 DEF Replay, LooksUp, CallInvariant, RequestsNamed, Key, Job
  <2>2. jobs[Key(q)].outcome \in Outcomes
    BY <2>1, DecidedOutcome DEF CallInvariant
  <2>3. told' = told \cup {<<Key(q), jobs[Key(q)].outcome>>}
    BY <1>4 DEF Replay, Job
  <2>4. <<Key(q), jobs[Key(q)].outcome>> \in Keys \X Outcomes
    BY <2>1, <2>2
  <2>5. told' \subseteq Keys \X Outcomes
    BY <1>3, <2>3, <2>4
  <2>6. \A answer \in told' : jobs[answer[1]].outcome = answer[2]
    BY <1>3, <2>3
  <2>. QED
    BY <1>1, <1>2, <2>5, <2>6, RequestOnly
<1>5. CASE ~Replay(q)
  <2>1. told' = told
    BY <1>5 DEF RejectReusedKey, AnswerInProgress, RejectPrepare, LoseFence, Crash
  <2>. QED
    BY <1>1, <1>2, <1>3, <2>1, RequestOnly
<1>. QED
  BY <1>4, <1>5

(* A request arrives, or resolves the provider.                              *)
LEMMA RequestSteps ==
    ASSUME CallInvariant, NEW q \in Requests,
           (\E k \in Keys, f \in Fingerprints : Arrive(q, k, f)) \/ Resolve(q)
    PROVE  CallInvariant'
<1>1. told \subseteq Keys \X Outcomes /\ \A answer \in told : jobs[answer[1]].outcome = answer[2]
  BY DEF CallInvariant, TypeOK, ToldIsFinal
<1>2. request \in [Requests -> RequestStates] /\ request[q] \in RequestStates
  BY DEF CallInvariant, TypeOK
<1>3. IdleRequest \in RequestStates /\ IdleRequest.pc = "idle"
  BY DEF IdleRequest, RequestStates
<1>4. CASE \E k \in Keys, f \in Fingerprints : Arrive(q, k, f)
  <2>1. PICK k \in Keys, f \in Fingerprints : Arrive(q, k, f)
    BY <1>4
  <2>. DEFINE s == [IdleRequest EXCEPT !.pc = "reserve", !.key = k, !.fingerprint = f]
  <2>2. s \in RequestStates /\ s.pc = "reserve" /\ s.key = k /\ s.fingerprint = f
    BY DEF IdleRequest, RequestStates
  <2>3. request' = [request EXCEPT ![q] = s] /\ UNCHANGED <<jobs, thread, calls, told>>
    BY <2>1 DEF Arrive
  <2>. HIDE DEF s
  <2>. QED
    BY <1>1, <2>2, <2>3, RequestOnly
<1>5. CASE Resolve(q)
  <2>. DEFINE s == [request[q] EXCEPT !.pc = "claim"]
  <2>1. s \in RequestStates /\ s.pc = "claim"
        /\ s.key = request[q].key /\ s.fingerprint = request[q].fingerprint
    BY <1>2 DEF RequestStates
  <2>2. request[q].key \in Keys /\ request[q].fingerprint \in Fingerprints
    BY <1>5 DEF Resolve, CallInvariant, RequestsNamed
  <2>3. UNCHANGED <<jobs, thread, calls, told>>
    BY <1>5 DEF Resolve
  <2>4. request' = [request EXCEPT ![q] = s] \/ request' = [request EXCEPT ![q] = IdleRequest]
    BY <1>2, <1>5 DEF Resolve, Answer
  <2>. HIDE DEF s
  <2>. QED
    BY <1>1, <1>3, <2>1, <2>2, <2>3, <2>4, RequestOnly
<1>. QED
  BY <1>4, <1>5

-----------------------------------------------------------------------------
(* Steps that write a row and no turn. *)

(* A row may change if it stays on its side of the claim and of success, and   *)
(* a job under way keeps its lease and its body.                             *)
LEMMA RowOnly ==
    ASSUME CallInvariant, NEW k \in Keys, NEW j \in JobRows, RowShape(j),
           jobs' = [jobs EXCEPT ![k] = j],
           UNCHANGED <<thread, calls>>,
           j.state \in {"absent", "pending"} <=> jobs[k].state \in {"absent", "pending"},
           j.state = "succeeded" <=> jobs[k].state = "succeeded",
           jobs[k].state \in {"running", "failed"} =>
              /\ j.state \in {"running", "failed"}
              /\ j.lease = jobs[k].lease /\ j.fingerprint = jobs[k].fingerprint,
           request' \in [Requests -> RequestStates],
           \A p \in Requests : request'[p] # request[p] =>
              /\ request'[p].pc \notin {"invoke", "record"}
              /\ request'[p].pc # "idle" => /\ request'[p].key \in Keys
                                            /\ request'[p].fingerprint \in Fingerprints,
           told' \subseteq Keys \X Outcomes,
           \A answer \in told' : jobs'[answer[1]].outcome = answer[2]
    PROVE  CallInvariant'
<1>1. jobs \in [Keys -> JobRows]
  BY DEF CallInvariant, TypeOK
<1>2. jobs'[k] = j /\ \A l \in Keys : l # k => jobs'[l] = jobs[l]
  BY <1>1
<1>3. TypeOK'
  BY <1>1, <1>2 DEF CallInvariant, TypeOK
<1>4. RequestsNamed'
  BY DEF CallInvariant, RequestsNamed
<1>5. OneCallInFlight'
  <2> SUFFICES ASSUME NEW q \in Requests, request'[q].pc \in {"invoke", "record"}
               PROVE  (/\ Job(q).lease = q /\ Job(q).state \in {"running", "failed"}
                       /\ Matches(q)
                       /\ calls[Key(q)] = IF request[q].pc = "invoke" THEN 0 ELSE 1)'
    BY DEF OneCallInFlight
  <2>1. request'[q] = request[q] /\ request[q].key \in Keys
    BY DEF CallInvariant, RequestsNamed
  <2>2. /\ jobs[request[q].key].lease = q
        /\ jobs[request[q].key].state \in {"running", "failed"}
        /\ jobs[request[q].key].fingerprint = request[q].fingerprint
        /\ calls[request[q].key] = IF request[q].pc = "invoke" THEN 0 ELSE 1
    BY <2>1 DEF CallInvariant, OneCallInFlight, Job, Key, Matches
  <2> QED
    BY <1>2, <2>1, <2>2 DEF Job, Key, Matches
<1>6. TurnRemembered'
  BY DEF CallInvariant, TurnRemembered, Key, Thread
<1>7. CallsFollowClaims' /\ InvokedOnce' /\ ToldIsFinal'
  BY <1>2 DEF CallInvariant, CallsFollowClaims, InvokedOnce, ToldIsFinal
<1>8. TurnsMatchJob'
  BY <1>2 DEF CallInvariant, TurnsMatchJob, Nowhere, Once
<1>9. ReplyFollowsItsTurn'
  BY DEF CallInvariant, ReplyFollowsItsTurn
<1>. QED
  BY <1>3, <1>4, <1>5, <1>6, <1>7, <1>8, <1>9 DEF CallInvariant

(* The lease of a running job runs out.                                      *)
LEMMA ExpireStep ==
    ASSUME CallInvariant, NEW k \in Keys, Expire(k)
    PROVE  CallInvariant'
<1>. DEFINE j == [jobs[k] EXCEPT !.expired = TRUE]
<1>1. jobs \in [Keys -> JobRows] /\ jobs[k] \in JobRows /\ RowShape(jobs[k])
      /\ request \in [Requests -> RequestStates] /\ told \subseteq Keys \X Outcomes
  BY DEF CallInvariant, TypeOK
<1>2. j \in JobRows /\ j.state = jobs[k].state /\ j.lease = jobs[k].lease
      /\ j.fingerprint = jobs[k].fingerprint /\ j.outcome = jobs[k].outcome
  BY <1>1 DEF JobRows
<1>3. jobs' = [jobs EXCEPT ![k] = j] /\ UNCHANGED <<thread, request, calls, told>>
  BY <1>1 DEF Expire
<1>. HIDE DEF j
<1>4. RowShape(j)
  BY <1>1, <1>2 DEF RowShape, Decided
<1>5. \A answer \in told' : jobs'[answer[1]].outcome = answer[2]
  BY <1>1, <1>2, <1>3 DEF CallInvariant, ToldIsFinal
<1>. QED
  BY <1>1, <1>2, <1>3, <1>4, <1>5, RowOnly

(* A key nobody has used is reserved.                                        *)
LEMMA ReserveStep ==
    ASSUME CallInvariant, NEW q \in Requests, Reserve(q)
    PROVE  CallInvariant'
<1>. DEFINE k == Key(q)
            s == [request[q] EXCEPT !.pc = "resolve"]
<1>1. /\ request \in [Requests -> RequestStates] /\ request[q] \in RequestStates
      /\ request[q].pc = "reserve"
      /\ request[q].key \in Keys /\ request[q].fingerprint \in Fingerprints
      /\ UNCHANGED <<thread, calls, told>>
      /\ told \subseteq Keys \X Outcomes
      /\ \A answer \in told : jobs[answer[1]].outcome = answer[2]
  BY DEF Reserve, CallInvariant, TypeOK, RequestsNamed, ToldIsFinal
<1>2. s \in RequestStates /\ s.pc = "resolve"
      /\ s.key = request[q].key /\ s.fingerprint = request[q].fingerprint
  BY <1>1 DEF RequestStates
<1>3. request' = [request EXCEPT ![q] = s]
  BY <1>1 DEF Reserve
<1>4. CASE UNCHANGED jobs
  <2>. HIDE DEF s
  <2>. QED
    BY <1>1, <1>2, <1>3, <1>4, RequestOnly
<1>5. CASE /\ Job(q).state = "absent"
           /\ jobs' = [jobs EXCEPT ![k] =
                          [NoJob EXCEPT !.state = "pending",
                                        !.fingerprint = request[q].fingerprint]]
  <2>. DEFINE j == [NoJob EXCEPT !.state = "pending", !.fingerprint = request[q].fingerprint]
  <2>1. k \in Keys /\ jobs[k].state = "absent" /\ jobs' = [jobs EXCEPT ![k] = j]
        /\ jobs \in [Keys -> JobRows] /\ RowShape(jobs[k])
    BY <1>1, <1>5 DEF Key, Job, CallInvariant, TypeOK
  <2>2. j \in JobRows /\ j.state = "pending" /\ j.outcome = None
    BY <1>1, NoneAssumption DEF NoJob, JobRows, States
  <2>3. RowShape(j)
    BY <1>1, NoneAssumption DEF NoJob, RowShape, Decided, Outcomes
  <2>4. jobs[k].outcome = None
    BY <2>1 DEF RowShape, Decided
  <2>5. \A answer \in told' : jobs'[answer[1]].outcome = answer[2]
    BY <1>1, <2>1, <2>2, <2>4
  <2>6. /\ request' \in [Requests -> RequestStates]
        /\ \A p \in Requests : request'[p] # request[p] => request'[p] = s
    BY <1>1, <1>2, <1>3
  <2>. HIDE DEF j, k, s
  <2>. QED
    BY <1>1, <1>2, <2>1, <2>2, <2>3, <2>5, <2>6, RowOnly
<1>. QED
  BY <1>4, <1>5 DEF Reserve

(* The row a call leaves behind when its outcome is recorded.                *)
LEMMA TerminatedRow ==
    ASSUME NEW job \in JobRows, RowShape(job), job.state = "running", NEW outcome \in Outcomes
    PROVE  /\ Terminated(job, outcome) \in JobRows /\ RowShape(Terminated(job, outcome))
           /\ Terminated(job, outcome).state =
                 (IF outcome = "reply" THEN "succeeded" ELSE "failed")
           /\ Terminated(job, outcome).outcome = outcome
           /\ Terminated(job, outcome).lease = job.lease
           /\ Terminated(job, outcome).fingerprint = job.fingerprint
<1>1. /\ Terminated(job, outcome) \in JobRows
      /\ Terminated(job, outcome).state =
                 (IF outcome = "reply" THEN "succeeded" ELSE "failed")
      /\ Terminated(job, outcome).outcome = outcome
      /\ Terminated(job, outcome).lease = job.lease
      /\ Terminated(job, outcome).fingerprint = job.fingerprint
  BY DEF Terminated, JobRows, States
<1>. QED
  BY <1>1, NoneAssumption DEF RowShape, Decided

(* A repetition declares an abandoned job failed.                            *)
LEMMA FailAbandonedStep ==
    ASSUME CallInvariant, NEW q \in Requests, FailAbandoned(q)
    PROVE  CallInvariant'
<1>. DEFINE k == Key(q)
            j == Terminated(jobs[k], "provider_outcome_unknown")
<1>1. /\ k \in Keys /\ jobs \in [Keys -> JobRows] /\ jobs[k] \in JobRows /\ RowShape(jobs[k])
      /\ jobs[k].state = "running"
      /\ jobs' = [jobs EXCEPT ![k] = j]
      /\ request \in [Requests -> RequestStates]
      /\ request' = [request EXCEPT ![q] = IdleRequest]
      /\ UNCHANGED <<thread, calls>>
      /\ told \subseteq Keys \X Outcomes
      /\ \A answer \in told : jobs[answer[1]].outcome = answer[2]
      /\ told' \in {told, told \cup {<<k, "provider_outcome_unknown">>}}
  BY DEF FailAbandoned, LooksUp, Answer, CallInvariant, TypeOK, RequestsNamed, ToldIsFinal,
         Key, Job
<1>2. "provider_outcome_unknown" \in Outcomes
  BY DEF Outcomes
<1>3. /\ j \in JobRows /\ RowShape(j) /\ j.state = "failed"
      /\ j.outcome = "provider_outcome_unknown"
      /\ j.lease = jobs[k].lease /\ j.fingerprint = jobs[k].fingerprint
  BY <1>1, <1>2, TerminatedRow
<1>4. IdleRequest \in RequestStates /\ IdleRequest.pc = "idle"
  BY DEF IdleRequest, RequestStates
<1>5. jobs[k].outcome = None
  BY <1>1 DEF RowShape, Decided
<1>. HIDE DEF j, k
<1>6. \A answer \in told : answer[1] # k
  BY <1>1, <1>5, NoneAssumption
<1>7. told' \subseteq Keys \X Outcomes
  BY <1>1, <1>2
<1>8. \A answer \in told' : jobs'[answer[1]].outcome = answer[2]
  BY <1>1, <1>3, <1>6
<1>9. /\ request' \in [Requests -> RequestStates]
      /\ \A p \in Requests : request'[p] # request[p] => request'[p] = IdleRequest
  BY <1>1, <1>4
<1>. QED
  BY <1>1, <1>3, <1>4, <1>7, <1>8, <1>9, RowOnly

-----------------------------------------------------------------------------
(* Steps that append to a conversation, and the call. *)

(* Whoever remembers the place of its turn finds it there after an append.   *)
LEMMA RememberedAfterAppend ==
    ASSUME CallInvariant, NEW t \in Threads, NEW e \in Turns,
           thread' = [thread EXCEPT ![t] = Append(@, e)],
           NEW q \in Requests, request[q].pc \in {"invoke", "record"}
    PROVE  /\ request[q].turn \in 1..Len(thread'[Thread(q)])
           /\ thread'[Thread(q)][request[q].turn] = UserTurn(Key(q))
<1>1. /\ Len(thread[t]) \in Nat
      /\ Len(thread'[t]) = Len(thread[t]) + 1
      /\ \A i \in 1..Len(thread[t]) : thread'[t][i] = thread[t][i]
      /\ \A u \in Threads : u # t => thread'[u] = thread[u]
  BY AppendedThread DEF CallInvariant, TypeOK
<1>2. Thread(q) \in Threads
  BY ThreadAssumption DEF Thread, CallInvariant, RequestsNamed
<1>3. /\ request[q].turn \in 1..Len(thread[Thread(q)])
      /\ thread[Thread(q)][request[q].turn] = UserTurn(Key(q))
  BY DEF CallInvariant, TurnRemembered
<1>. QED
  BY <1>1, <1>2, <1>3

(* Replies stay behind their turns when an event is appended that is no reply *)
(* or follows its turn itself.                                               *)
LEMMA RepliesAfterAppend ==
    ASSUME CallInvariant, NEW t \in Threads, NEW e \in Turns,
           thread' = [thread EXCEPT ![t] = Append(@, e)],
           e.kind = "message.assistant" =>
              /\ Len(thread[t]) \in 1..Len(thread[t])
              /\ thread[t][Len(thread[t])] = UserTurn(e.key)
    PROVE  ReplyFollowsItsTurn'
<1>1. /\ Len(thread[t]) \in Nat
      /\ Len(thread'[t]) = Len(thread[t]) + 1
      /\ thread'[t][Len(thread[t]) + 1] = e
      /\ \A i \in 1..Len(thread[t]) : thread'[t][i] = thread[t][i]
      /\ \A u \in Threads : u # t => thread'[u] = thread[u]
  BY AppendedThread DEF CallInvariant, TypeOK
<1> SUFFICES ASSUME NEW u \in Threads, NEW i \in 1..Len(thread'[u]),
                    thread'[u][i].kind = "message.assistant"
             PROVE  i > 1 /\ thread'[u][i - 1] = UserTurn(thread'[u][i].key)
  BY DEF ReplyFollowsItsTurn
<1>2. CASE u = t /\ i = Len(thread[t]) + 1
  <2>1. e.kind = "message.assistant" /\ i > 1 /\ i - 1 = Len(thread[t])
    BY <1>1, <1>2
  <2>2. i - 1 \in 1..Len(thread[t]) /\ thread[t][i - 1] = UserTurn(e.key)
    BY <2>1
  <2>3. thread'[t][i - 1] = thread[t][i - 1]
    BY <1>1, <2>2
  <2>. QED
    BY <1>1, <1>2, <2>1, <2>2, <2>3
<1>3. CASE ~(u = t /\ i = Len(thread[t]) + 1)
  <2>1. i \in 1..Len(thread[u]) /\ thread'[u][i] = thread[u][i]
    BY <1>1, <1>3
  <2>2. i > 1 /\ thread[u][i - 1] = UserTurn(thread[u][i].key)
    BY <2>1 DEF CallInvariant, ReplyFollowsItsTurn
  <2>3. Len(thread[u]) \in Nat
    BY DEF CallInvariant, TypeOK
  <2>4. i - 1 \in 1..Len(thread[u])
    BY <2>1, <2>2, <2>3
  <2>5. thread'[u][i - 1] = thread[u][i - 1]
    BY <1>1, <2>4
  <2>. QED
    BY <2>1, <2>2, <2>5
<1>. QED
  BY <1>2, <1>3

(* Somebody else speaks.                                                     *)
LEMMA OtherTurnStep ==
    ASSUME CallInvariant, NEW t \in Threads, OtherTurn(t)
    PROVE  CallInvariant'
<1>1. /\ thread \in [Threads -> Seq(Turns)]
      /\ thread' = [thread EXCEPT ![t] = Append(@, ForeignTurn)]
      /\ UNCHANGED <<jobs, request, calls, told>>
  BY DEF OtherTurn, CallInvariant, TypeOK
<1>2. ForeignTurn \in Turns /\ ForeignTurn.kind = "foreign"
  BY DEF ForeignTurn, Turns
<1>3. TypeOK'
  <2>1. thread' \in [Threads -> Seq(Turns)]
    BY <1>1, <1>2, AppendedThread
  <2>. QED
    BY <1>1, <2>1 DEF CallInvariant, TypeOK
<1>4. RequestsNamed' /\ CallsFollowClaims' /\ InvokedOnce' /\ ToldIsFinal' /\ OneCallInFlight'
  BY <1>1 DEF CallInvariant, RequestsNamed, CallsFollowClaims, InvokedOnce, ToldIsFinal,
              OneCallInFlight, Job, Key, Matches
<1>5. TurnRemembered'
  BY <1>1, <1>2, RememberedAfterAppend DEF TurnRemembered, Thread, Key
<1>6. ReplyFollowsItsTurn'
  BY <1>1, <1>2, RepliesAfterAppend
<1>7. TurnsMatchJob'
  <2> SUFFICES ASSUME NEW k \in Keys
               PROVE  /\ IF jobs[k].state \in {"absent", "pending"}
                         THEN Nowhere(UserTurn(k))' ELSE Once(UserTurn(k))'
                      /\ IF jobs[k].state = "succeeded"
                         THEN Once(AssistantTurn(k))' ELSE Nowhere(AssistantTurn(k))'
    BY <1>1 DEF TurnsMatchJob
  <2>1. ForeignTurn # UserTurn(k) /\ ForeignTurn # AssistantTurn(k)
    BY <1>2, TurnsDiffer
  <2>2. Nowhere(UserTurn(k)) => Nowhere(UserTurn(k))'
    BY <1>1, <1>2, <2>1, NowhereAfterAppend
  <2>3. Nowhere(AssistantTurn(k)) => Nowhere(AssistantTurn(k))'
    BY <1>1, <1>2, <2>1, NowhereAfterAppend
  <2>4. Once(UserTurn(k)) => Once(UserTurn(k))'
    BY <1>1, <1>2, <2>1, OnceAfterAppend
  <2>5. Once(AssistantTurn(k)) => Once(AssistantTurn(k))'
    BY <1>1, <1>2, <2>1, OnceAfterAppend
  <2>. QED
    BY <2>2, <2>3, <2>4, <2>5 DEF CallInvariant, TurnsMatchJob
<1>. QED
  BY <1>3, <1>4, <1>5, <1>6, <1>7 DEF CallInvariant

(* The claim: the user's turn is the only one of its key, and no other        *)
(* handler has called or will call for the key.                              *)
LEMMA ClaimStep ==
    ASSUME CallInvariant, NEW q \in Requests, Claim(q)
    PROVE  CallInvariant'
<1>. DEFINE k == Key(q)
            t == Thread(q)
            j == [jobs[k] EXCEPT !.state = "running", !.lease = q]
            s == [request[q] EXCEPT !.pc = "invoke", !.turn = Len(thread[t]) + 1]
<1>1. /\ jobs \in [Keys -> JobRows] /\ thread \in [Threads -> Seq(Turns)]
      /\ request \in [Requests -> RequestStates]
      /\ request[q].pc = "claim" /\ jobs[k].state = "pending" /\ RowShape(jobs[k])
      /\ jobs[k].fingerprint = request[q].fingerprint
      /\ k = request[q].key /\ k \in Keys /\ request[q].fingerprint \in Fingerprints
      /\ t \in Threads
      /\ UNCHANGED <<calls, told>>
      /\ told \subseteq Keys \X Outcomes /\ calls \in [Keys -> Nat]
  BY ThreadAssumption DEF Claim, CanClaim, CallInvariant, TypeOK, RequestsNamed, Key, Thread,
                          Job, Matches
<1>2. Len(thread[t]) \in Nat
  BY <1>1
<1>3. /\ j \in JobRows /\ j.state = "running" /\ j.lease = q
      /\ j.fingerprint = jobs[k].fingerprint /\ j.outcome = jobs[k].outcome
  BY <1>1 DEF JobRows, States
<1>4. RowShape(j)
  BY <1>1, <1>3, NoneAssumption DEF RowShape, Decided
<1>5. s \in RequestStates /\ s.pc = "invoke" /\ s.turn = Len(thread[t]) + 1
      /\ s.key = k /\ s.fingerprint = request[q].fingerprint
  <2>1. request[q] \in RequestStates /\ Len(thread[t]) + 1 \in Nat
    BY <1>1, <1>2
  <2>. HIDE DEF k, t
  <2>. QED
    BY <1>1, <2>1 DEF RequestStates
<1>6. IdleRequest \in RequestStates /\ IdleRequest.pc = "idle"
  BY DEF IdleRequest, RequestStates
<1>7. /\ thread' = [thread EXCEPT ![t] = Append(@, UserTurn(k))]
      /\ jobs' = [jobs EXCEPT ![k] = j]
      /\ request' = [request EXCEPT ![q] = s] \/ request' = [request EXCEPT ![q] = IdleRequest]
  BY <1>1 DEF Claim, Answer
<1>8. UserTurn(k) \in Turns /\ UserTurn(k).kind = "message.user" /\ UserTurn(k).key = k
  BY <1>1, TurnsDiffer
<1>t. t = ThreadOf[request[q].fingerprint]
  BY DEF Thread
<1>. HIDE DEF j, s, k, t
<1>9. /\ jobs'[k] = j /\ \A l \in Keys : l # k => jobs'[l] = jobs[l]
      /\ request'[q] = s \/ request'[q] = IdleRequest
      /\ \A p \in Requests : p # q => request'[p] = request[p]
      /\ request' \in [Requests -> RequestStates]
  BY <1>1, <1>5, <1>6, <1>7
<1>10. TypeOK'
  <2>1. thread' \in [Threads -> Seq(Turns)]
    BY <1>1, <1>7, <1>8, AppendedThread
  <2>2. jobs' \in [Keys -> JobRows] /\ \A l \in Keys : RowShape(jobs'[l])
    BY <1>1, <1>3, <1>4, <1>7, <1>9 DEF CallInvariant, TypeOK
  <2>. QED
    BY <1>1, <1>9, <2>1, <2>2 DEF CallInvariant, TypeOK
<1>11. RequestsNamed'
  BY <1>1, <1>5, <1>6, <1>9 DEF CallInvariant, RequestsNamed
<1>12. CallsFollowClaims' /\ InvokedOnce'
  BY <1>1, <1>3, <1>9 DEF CallInvariant, CallsFollowClaims, InvokedOnce
<1>13. ToldIsFinal'
  <2>1. \A l \in Keys : jobs'[l].outcome = jobs[l].outcome
    BY <1>3, <1>9
  <2>. QED
    BY <1>1, <2>1 DEF CallInvariant, ToldIsFinal
<1>14. OneCallInFlight'
  <2> SUFFICES ASSUME NEW p \in Requests, request'[p].pc \in {"invoke", "record"}
               PROVE  (/\ Job(p).lease = p /\ Job(p).state \in {"running", "failed"}
                       /\ Matches(p)
                       /\ calls[Key(p)] = IF request[p].pc = "invoke" THEN 0 ELSE 1)'
    BY DEF OneCallInFlight
  <2>1. CASE p = q
    <3>1. request'[p] = s
      BY <1>6, <1>9, <2>1
    <3>2. calls[k] = 0
      BY <1>1 DEF CallInvariant, CallsFollowClaims
    <3>. QED
      BY <1>1, <1>3, <1>5, <1>9, <2>1, <3>1, <3>2 DEF Job, Key, Matches
  <2>2. CASE p # q
    <3>1. request'[p] = request[p] /\ request[p].key \in Keys
      BY <1>9, <2>2 DEF CallInvariant, RequestsNamed
    <3>2. /\ jobs[request[p].key].lease = p
          /\ jobs[request[p].key].state \in {"running", "failed"}
          /\ jobs[request[p].key].fingerprint = request[p].fingerprint
          /\ calls[request[p].key] = IF request[p].pc = "invoke" THEN 0 ELSE 1
      BY <3>1 DEF CallInvariant, OneCallInFlight, Job, Key, Matches
    <3>3. request[p].key # k
      BY <1>1, <3>2
    <3>. QED
      BY <1>1, <1>9, <3>1, <3>2, <3>3 DEF Job, Key, Matches
  <2>. QED
    BY <2>1, <2>2
<1>15. TurnRemembered'
  <2> SUFFICES ASSUME NEW p \in Requests, request'[p].pc \in {"invoke", "record"}
               PROVE  (/\ request[p].turn \in 1..Len(thread[Thread(p)])
                       /\ thread[Thread(p)][request[p].turn] = UserTurn(Key(p)))'
    BY DEF TurnRemembered
  <2>1. CASE p = q
    <3>1. request'[p] = s
      BY <1>6, <1>9, <2>1
    <3>2. Len(thread'[t]) = Len(thread[t]) + 1 /\ thread'[t][Len(thread[t]) + 1] = UserTurn(k)
      BY <1>1, <1>7, <1>8, AppendedThread
    <3>. QED
      BY <1>2, <1>5, <1>t, <3>1, <3>2 DEF Thread, Key
  <2>2. CASE p # q
    <3>1. request'[p] = request[p]
      BY <1>9, <2>2
    <3>. QED
      BY <1>1, <1>7, <1>8, <3>1, RememberedAfterAppend DEF Thread, Key
  <2>. QED
    BY <2>1, <2>2
<1>16. ReplyFollowsItsTurn'
  BY <1>1, <1>7, <1>8, RepliesAfterAppend
<1>17. TurnsMatchJob'
  <2> SUFFICES ASSUME NEW l \in Keys
               PROVE  /\ IF jobs'[l].state \in {"absent", "pending"}
                         THEN Nowhere(UserTurn(l))' ELSE Once(UserTurn(l))'
                      /\ IF jobs'[l].state = "succeeded"
                         THEN Once(AssistantTurn(l))' ELSE Nowhere(AssistantTurn(l))'
    BY DEF TurnsMatchJob
  <2>1. UserTurn(k) # AssistantTurn(l) /\ (l # k => UserTurn(k) # UserTurn(l))
    BY <1>8, TurnsDiffer
  <2>2. Nowhere(UserTurn(l)) => IF l = k THEN Once(UserTurn(l))' ELSE Nowhere(UserTurn(l))'
    BY <1>1, <1>7, <1>8, <2>1, NowhereAfterAppend
  <2>3. Nowhere(AssistantTurn(l)) => Nowhere(AssistantTurn(l))'
    BY <1>1, <1>7, <1>8, <2>1, NowhereAfterAppend
  <2>4. l # k /\ Once(UserTurn(l)) => Once(UserTurn(l))'
    BY <1>1, <1>7, <1>8, <2>1, OnceAfterAppend
  <2>5. Once(AssistantTurn(l)) => Once(AssistantTurn(l))'
    BY <1>1, <1>7, <1>8, <2>1, OnceAfterAppend
  <2>. QED
    BY <1>1, <1>3, <1>9, <2>2, <2>3, <2>4, <2>5 DEF CallInvariant, TurnsMatchJob
<1>. QED
  BY <1>10, <1>11, <1>12, <1>13, <1>14, <1>15, <1>16, <1>17 DEF CallInvariant

(* The call: its job was never called for.                                   *)
LEMMA InvokeStep ==
    ASSUME CallInvariant, NEW q \in Requests, NEW reply \in BOOLEAN, Invoke(q, reply)
    PROVE  CallInvariant'
<1>. DEFINE k == Key(q)
            s == [request[q] EXCEPT !.pc = "record", !.reply = reply]
<1>1. /\ request \in [Requests -> RequestStates] /\ calls \in [Keys -> Nat]
      /\ request[q].pc = "invoke" /\ k = request[q].key /\ k \in Keys
      /\ request[q].fingerprint \in Fingerprints
      /\ calls' = [calls EXCEPT ![k] = @ + 1]
      /\ UNCHANGED <<jobs, thread, told>>
  BY DEF Invoke, CallInvariant, TypeOK, RequestsNamed, Key
<1>2. s \in RequestStates /\ s.pc = "record" /\ s.key = k
      /\ s.fingerprint = request[q].fingerprint /\ s.turn = request[q].turn
  BY <1>1 DEF RequestStates
<1>3. request' = [request EXCEPT ![q] = s]
  BY <1>1 DEF Invoke
<1>4. calls[k] = 0 /\ jobs[k].lease = q /\ jobs[k].state \in {"running", "failed"}
      /\ jobs[k].fingerprint = request[q].fingerprint
  BY <1>1 DEF CallInvariant, OneCallInFlight, Job, Key, Matches
<1>. HIDE DEF s, k
<1>5. /\ calls'[k] = 1 /\ \A l \in Keys : l # k => calls'[l] = calls[l]
      /\ request'[q] = s /\ \A p \in Requests : p # q => request'[p] = request[p]
  BY <1>1, <1>3, <1>4
<1>6. TypeOK'
  <2>1. calls' \in [Keys -> Nat]
    BY <1>1
  <2>. QED
    BY <1>1, <1>2, <1>3, <2>1 DEF CallInvariant, TypeOK
<1>7. RequestsNamed'
  BY <1>1, <1>2, <1>5 DEF CallInvariant, RequestsNamed
<1>8. CallsFollowClaims' /\ InvokedOnce'
  BY <1>1, <1>4, <1>5 DEF CallInvariant, CallsFollowClaims, InvokedOnce
<1>9. ToldIsFinal' /\ TurnsMatchJob' /\ ReplyFollowsItsTurn'
  <2>1. ToldIsFinal'
    BY <1>1 DEF CallInvariant, ToldIsFinal
  <2>2. TurnsMatchJob'
    BY <1>1 DEF CallInvariant, TurnsMatchJob, Nowhere, Once
  <2>3. ReplyFollowsItsTurn'
    BY <1>1 DEF CallInvariant, ReplyFollowsItsTurn
  <2>. QED
    BY <2>1, <2>2, <2>3
<1>10. OneCallInFlight'
  <2> SUFFICES ASSUME NEW p \in Requests, request'[p].pc \in {"invoke", "record"}
               PROVE  (/\ Job(p).lease = p /\ Job(p).state \in {"running", "failed"}
                       /\ Matches(p)
                       /\ calls[Key(p)] = IF request[p].pc = "invoke" THEN 0 ELSE 1)'
    BY DEF OneCallInFlight
  <2>1. CASE p = q
    BY <1>1, <1>2, <1>4, <1>5, <2>1 DEF Job, Key, Matches
  <2>2. CASE p # q
    <3>1. request'[p] = request[p] /\ request[p].key \in Keys
      BY <1>5, <2>2 DEF CallInvariant, RequestsNamed
    <3>2. /\ jobs[request[p].key].lease = p
          /\ jobs[request[p].key].state \in {"running", "failed"}
          /\ jobs[request[p].key].fingerprint = request[p].fingerprint
          /\ calls[request[p].key] = IF request[p].pc = "invoke" THEN 0 ELSE 1
      BY <3>1 DEF CallInvariant, OneCallInFlight, Job, Key, Matches
    <3>3. request[p].key # k
      BY <1>4, <2>2, <3>2
    <3>. QED
      BY <1>1, <1>5, <3>1, <3>2, <3>3 DEF Job, Key, Matches
  <2>. QED
    BY <2>1, <2>2
<1>11. TurnRemembered'
  <2>1. \A p \in Requests : request'[p].pc \in {"invoke", "record"} =>
           /\ request[p].pc \in {"invoke", "record"}
           /\ request'[p].turn = request[p].turn /\ request'[p].key = request[p].key
           /\ request'[p].fingerprint = request[p].fingerprint
    BY <1>1, <1>2, <1>5 DEF Key
  <2>. QED
    BY <1>1, <2>1 DEF CallInvariant, TurnRemembered, Thread, Key
<1>. QED
  BY <1>6, <1>7, <1>8, <1>9, <1>10, <1>11 DEF CallInvariant

(* The outcome is recorded behind the fence; the reply follows its turn, which *)
(* is still the last event.                                                  *)
LEMMA RecordStep ==
    ASSUME CallInvariant, NEW q \in Requests, Record(q)
    PROVE  CallInvariant'
<1>. DEFINE k == Key(q)
            t == Thread(q)
            outcome == IF ~request[q].reply THEN "upstream_failure"
                       ELSE IF IsTail(q) THEN "reply" ELSE "conflict"
            j == Terminated(jobs[k], outcome)
<1>1. /\ jobs \in [Keys -> JobRows] /\ thread \in [Threads -> Seq(Turns)]
      /\ request \in [Requests -> RequestStates] /\ calls \in [Keys -> Nat]
      /\ told \subseteq Keys \X Outcomes
      /\ request[q].pc = "record" /\ jobs[k].state = "running" /\ jobs[k].lease = q
      /\ RowShape(jobs[k]) /\ jobs[k] \in JobRows
      /\ k = request[q].key /\ k \in Keys /\ request[q].fingerprint \in Fingerprints
      /\ t \in Threads
      /\ UNCHANGED calls
  BY ThreadAssumption DEF Record, HoldsFence, CallInvariant, TypeOK, RequestsNamed, Key, Thread,
                          Job
<1>2. outcome \in Outcomes /\ (outcome = "reply" => Len(thread[t]) = request[q].turn)
  BY DEF Outcomes, IsTail
<1>3. /\ jobs' = [jobs EXCEPT ![k] = j]
      /\ thread' = IF outcome = "reply"
                   THEN [thread EXCEPT ![t] = Append(@, AssistantTurn(k))] ELSE thread
      /\ told' \in {told, told \cup {<<k, outcome>>}}
      /\ request' = [request EXCEPT ![q] = IdleRequest]
  BY DEF Record, Answer, Job
<1>4. /\ j \in JobRows /\ RowShape(j) /\ j.outcome = outcome
      /\ j.state = IF outcome = "reply" THEN "succeeded" ELSE "failed"
      /\ j.lease = q /\ j.fingerprint = jobs[k].fingerprint
  BY <1>1, <1>2, TerminatedRow
<1>5. IdleRequest \in RequestStates /\ IdleRequest.pc = "idle"
  BY DEF IdleRequest, RequestStates
<1>6. AssistantTurn(k) \in Turns /\ AssistantTurn(k).kind = "message.assistant"
      /\ AssistantTurn(k).key = k
  BY <1>1, TurnsDiffer
<1>7. /\ request[q].turn \in 1..Len(thread[t])
      /\ thread[t][request[q].turn] = UserTurn(k)
      /\ calls[k] = 1
  BY <1>1 DEF CallInvariant, TurnRemembered, OneCallInFlight
<1>8. jobs[k].outcome = None
  BY <1>1 DEF RowShape, Decided
<1>. HIDE DEF j, k, t, outcome
<1>9. /\ jobs'[k] = j /\ \A l \in Keys : l # k => jobs'[l] = jobs[l]
      /\ request'[q] = IdleRequest /\ \A p \in Requests : p # q => request'[p] = request[p]
      /\ request' \in [Requests -> RequestStates]
  BY <1>1, <1>3, <1>5
<1>10. TypeOK'
  <2>1. thread' \in [Threads -> Seq(Turns)]
    BY <1>1, <1>3, <1>6, AppendedThread
  <2>2. jobs' \in [Keys -> JobRows] /\ \A l \in Keys : RowShape(jobs'[l])
    BY <1>1, <1>3, <1>4, <1>9 DEF CallInvariant, TypeOK
  <2>3. told' \subseteq Keys \X Outcomes
    BY <1>1, <1>2, <1>3
  <2>. QED
    BY <1>1, <1>9, <2>1, <2>2, <2>3 DEF CallInvariant, TypeOK
<1>11. RequestsNamed'
  BY <1>5, <1>9 DEF CallInvariant, RequestsNamed
<1>12. CallsFollowClaims' /\ InvokedOnce'
  BY <1>1, <1>4, <1>7, <1>9 DEF CallInvariant, CallsFollowClaims, InvokedOnce
<1>13. ToldIsFinal'
  <2>1. \A answer \in told : answer[1] # k /\ answer[1] \in Keys
                             /\ jobs[answer[1]].outcome = answer[2]
    BY <1>1, <1>8, NoneAssumption DEF CallInvariant, ToldIsFinal
  <2>. QED
    BY <1>3, <1>4, <1>9, <2>1 DEF ToldIsFinal
<1>14. OneCallInFlight'
  <2> SUFFICES ASSUME NEW p \in Requests, request'[p].pc \in {"invoke", "record"}
               PROVE  (/\ Job(p).lease = p /\ Job(p).state \in {"running", "failed"}
                       /\ Matches(p)
                       /\ calls[Key(p)] = IF request[p].pc = "invoke" THEN 0 ELSE 1)'
    BY DEF OneCallInFlight
  <2>1. p # q /\ request'[p] = request[p] /\ request[p].key \in Keys
    BY <1>5, <1>9 DEF CallInvariant, RequestsNamed
  <2>2. /\ jobs[request[p].key].lease = p
        /\ jobs[request[p].key].state \in {"running", "failed"}
        /\ jobs[request[p].key].fingerprint = request[p].fingerprint
        /\ calls[request[p].key] = IF request[p].pc = "invoke" THEN 0 ELSE 1
    BY <2>1 DEF CallInvariant, OneCallInFlight, Job, Key, Matches
  <2>3. request[p].key # k
    BY <1>1, <2>1, <2>2
  <2>. QED
    BY <1>1, <1>9, <2>1, <2>2, <2>3 DEF Job, Key, Matches
<1>15. TurnRemembered'
  <2> SUFFICES ASSUME NEW p \in Requests, request'[p].pc \in {"invoke", "record"}
               PROVE  (/\ request[p].turn \in 1..Len(thread[Thread(p)])
                       /\ thread[Thread(p)][request[p].turn] = UserTurn(Key(p)))'
    BY DEF TurnRemembered
  <2>1. request'[p] = request[p]
    BY <1>5, <1>9
  <2>2. CASE thread' = thread
    BY <2>1, <2>2 DEF CallInvariant, TurnRemembered, Thread, Key
  <2>3. CASE thread' = [thread EXCEPT ![t] = Append(@, AssistantTurn(k))]
    BY <1>1, <1>6, <2>1, <2>3, RememberedAfterAppend DEF Thread, Key
  <2>. QED
    BY <1>3, <2>2, <2>3
<1>16. ReplyFollowsItsTurn'
  <2>1. CASE outcome = "reply"
    BY <1>1, <1>2, <1>3, <1>6, <1>7, <2>1, RepliesAfterAppend
  <2>2. CASE outcome # "reply"
    BY <1>3, <2>2 DEF CallInvariant, ReplyFollowsItsTurn
  <2>. QED
    BY <2>1, <2>2
<1>17. TurnsMatchJob'
  <2>1. CASE outcome # "reply"
    BY <1>1, <1>3, <1>4, <1>9, <2>1 DEF CallInvariant, TurnsMatchJob, Nowhere, Once
  <2>2. CASE outcome = "reply"
    <3> SUFFICES ASSUME NEW l \in Keys
                 PROVE  /\ IF jobs'[l].state \in {"absent", "pending"}
                           THEN Nowhere(UserTurn(l))' ELSE Once(UserTurn(l))'
                        /\ IF jobs'[l].state = "succeeded"
                           THEN Once(AssistantTurn(l))' ELSE Nowhere(AssistantTurn(l))'
      BY DEF TurnsMatchJob
    <3>t. thread' = [thread EXCEPT ![t] = Append(@, AssistantTurn(k))]
      BY <1>3, <2>2
    <3>1. AssistantTurn(k) # UserTurn(l) /\ (l # k => AssistantTurn(k) # AssistantTurn(l))
      BY <1>6, TurnsDiffer
    <3>2. Nowhere(UserTurn(l)) => Nowhere(UserTurn(l))'
      BY <1>1, <1>6, <3>t, <3>1, NowhereAfterAppend
    <3>3. Nowhere(AssistantTurn(l)) =>
            IF l = k THEN Once(AssistantTurn(l))' ELSE Nowhere(AssistantTurn(l))'
      BY <1>1, <1>6, <3>t, <3>1, NowhereAfterAppend
    <3>4. Once(UserTurn(l)) => Once(UserTurn(l))'
      BY <1>1, <1>6, <3>t, <3>1, OnceAfterAppend
    <3>5. l # k /\ Once(AssistantTurn(l)) => Once(AssistantTurn(l))'
      BY <1>1, <1>6, <3>t, <3>1, OnceAfterAppend
    <3>. QED
      BY <1>1, <1>4, <1>9, <2>2, <3>2, <3>3, <3>4, <3>5 DEF CallInvariant, TurnsMatchJob
  <2>. QED
    BY <2>1, <2>2
<1>. QED
  BY <1>10, <1>11, <1>12, <1>13, <1>14, <1>15, <1>16, <1>17 DEF CallInvariant

-----------------------------------------------------------------------------
(* Every step. *)
LEMMA NextStep == CallInvariant /\ [Next]_vars => CallInvariant'
<1>. SUFFICES ASSUME CallInvariant, [Next]_vars PROVE CallInvariant'
  OBVIOUS
<1>1. ASSUME NEW q \in Requests, NEW k \in Keys, NEW f \in Fingerprints, Arrive(q, k, f)
      PROVE  CallInvariant'
  BY <1>1, RequestSteps
<1>2. ASSUME NEW q \in Requests, Handle(q) PROVE CallInvariant'
  <2>1. CASE RejectReusedKey(q) \/ Replay(q) \/ AnswerInProgress(q)
             \/ RejectPrepare(q) \/ LoseFence(q)
    BY <2>1, AnswerSteps
  <2>2. CASE FailAbandoned(q)
    BY <2>2, FailAbandonedStep
  <2>3. CASE Reserve(q)
    BY <2>3, ReserveStep
  <2>4. CASE Resolve(q)
    BY <2>4, RequestSteps
  <2>5. CASE Claim(q)
    BY <2>5, ClaimStep
  <2>6. CASE \E reply \in BOOLEAN : Invoke(q, reply)
    BY <2>6, InvokeStep
  <2>7. CASE Record(q)
    BY <2>7, RecordStep
  <2>. QED
    BY <1>2, <2>1, <2>2, <2>3, <2>4, <2>5, <2>6, <2>7 DEF Handle
<1>3. ASSUME NEW q \in Requests, Crash(q) PROVE CallInvariant'
  BY <1>3, AnswerSteps
<1>4. ASSUME NEW k \in Keys, Expire(k) PROVE CallInvariant'
  BY <1>4, ExpireStep
<1>5. ASSUME NEW t \in Threads, OtherTurn(t) PROVE CallInvariant'
  BY <1>5, OtherTurnStep
<1>6. CASE UNCHANGED vars
  BY <1>6 DEF vars, CallInvariant, TypeOK, RequestsNamed, CallsFollowClaims, InvokedOnce,
              OneCallInFlight, ToldIsFinal, TurnsMatchJob, TurnRemembered,
              ReplyFollowsItsTurn, Nowhere, Once, Key, Job, Thread, Matches
<1>. QED
  BY <1>1, <1>2, <1>3, <1>4, <1>5, <1>6 DEF Next

(* The conjunction of everything below holds in every reachable state, for    *)
(* every number of keys, bodies, handlers and conversations.                 *)
THEOREM CallHolds == Spec => []CallInvariant
<1>1. Init => CallInvariant
  BY InitHolds
<1>2. CallInvariant /\ [Next]_vars => CallInvariant'
  BY NextStep
<1>. QED
  BY <1>1, <1>2, PTL DEF Spec

(* Rows keep the shape the table's CHECK constraints ask for.                *)
THEOREM ShapeHolds == Spec => []TypeOK
<1>1. CallInvariant => TypeOK
  BY DEF CallInvariant
<1>. QED
  BY <1>1, CallHolds, PTL

(* The provider is called at most once for each Idempotency-Key.             *)
THEOREM InvokedOnceHolds == Spec => []InvokedOnce
<1>1. CallInvariant => InvokedOnce
  BY DEF CallInvariant
<1>. QED
  BY <1>1, CallHolds, PTL

(* What any client was told of a key is what its row still says.             *)
THEOREM ToldIsFinalHolds == Spec => []ToldIsFinal
<1>1. CallInvariant => ToldIsFinal
  BY DEF CallInvariant
<1>. QED
  BY <1>1, CallHolds, PTL

(* A handler between claim and answer is the one that claimed the job.        *)
THEOREM OneCallInFlightHolds == Spec => []OneCallInFlight
<1>1. CallInvariant => OneCallInFlight
  BY DEF CallInvariant
<1>. QED
  BY <1>1, CallHolds, PTL

(* A reply stands directly after the turn it answers.                        *)
THEOREM ReplyFollowsItsTurnHolds == Spec => []ReplyFollowsItsTurn
<1>1. CallInvariant => ReplyFollowsItsTurn
  BY DEF CallInvariant
<1>. QED
  BY <1>1, CallHolds, PTL

-----------------------------------------------------------------------------
(* Conversation and jobs. *)

(* What the inductive invariant says by quantifiers, the property counts.     *)
LEMMA CountedTurns ==
    ASSUME NEW turn
    PROVE  /\ Nowhere(turn) => Occurrences(turn) = 0
           /\ Once(turn) => Occurrences(turn) = 1
<1>. DEFINE At == {p \in Places : thread[p[1]][p[2]] = turn}
<1>1. \A p : p \in Places <=> \E t \in Threads : \E i \in 1..Len(thread[t]) : p = <<t, i>>
  BY DEF Places
<1>2. ASSUME Nowhere(turn) PROVE Cardinality(At) = 0
  <2>1. At = {}
    BY <1>1, <1>2 DEF Nowhere
  <2>. QED
    BY <2>1, FS_EmptySet
<1>3. ASSUME Once(turn) PROVE Cardinality(At) = 1
  <2>1. PICK t \in Threads :
          \E i \in 1..Len(thread[t]) :
            /\ thread[t][i] = turn
            /\ \A u \in Threads : \A j \in 1..Len(thread[u]) :
                  thread[u][j] = turn => u = t /\ j = i
    BY <1>3 DEF Once
  <2>2. PICK i \in 1..Len(thread[t]) :
            /\ thread[t][i] = turn
            /\ \A u \in Threads : \A j \in 1..Len(thread[u]) :
                  thread[u][j] = turn => u = t /\ j = i
    BY <2>1
  <2>3. <<t, i>> \in At
    BY <1>1, <2>2
  <2>4. \A p \in At : p = <<t, i>>
    BY <1>1, <2>2
  <2>5. At = {<<t, i>>}
    BY <2>3, <2>4
  <2>. QED
    BY <2>5, FS_Singleton
<1>. QED
  BY <1>2, <1>3 DEF Occurrences

(* A key has its user's turn once from the claim on, and its reply exactly    *)
(* when its job succeeded.                                                   *)
THEOREM ConversationMatchesJobHolds == Spec => []ConversationMatchesJob
<1>1. CallInvariant => ConversationMatchesJob
  BY CountedTurns DEF CallInvariant, TurnsMatchJob, ConversationMatchesJob
<1>. QED
  BY <1>1, CallHolds, PTL

-----------------------------------------------------------------------------
(* The contract of an Idempotency-Key. *)

LEMMA CallInit == Init => Call!Init
BY DEF Init, Call!Init, NoJob

(* The call is the contract's call: the first one for its key.               *)
LEMMA InvokeCalls ==
    ASSUME CallInvariant, NEW q \in Requests, NEW reply \in BOOLEAN, Invoke(q, reply)
    PROVE  Call!Next
<1>. PICK k \in Keys : k = Key(q)
  BY DEF Invoke, CallInvariant, RequestsNamed, Key
<1>1. /\ calls \in [Keys -> Nat] /\ calls[k] = 0
      /\ calls' = [calls EXCEPT ![k] = @ + 1]
      /\ UNCHANGED <<jobs, told>>
  BY DEF Invoke, CallInvariant, TypeOK, OneCallInFlight
<1>2. calls'[k] = 1 /\ \A l \in Keys : l # k => calls'[l] = calls[l]
  BY <1>1
<1>3. {l \in Keys : calls'[l] > 0} = {l \in Keys : calls[l] > 0} \cup {k}
  BY <1>1, <1>2
<1>4. [l \in Keys |-> jobs'[l].outcome] = [l \in Keys |-> jobs[l].outcome]
  BY <1>1
<1>5. Call!Call(k)
  BY <1>1, <1>3, <1>4 DEF Call!Call
<1>. QED
  BY <1>1, <1>5 DEF Call!Next

(* A transaction that ends a running job decides the key's outcome.          *)
LEMMA EndDecides ==
    ASSUME CallInvariant, NEW k \in Keys, NEW outcome \in Outcomes,
           jobs[k].state = "running",
           jobs' = [jobs EXCEPT ![k] = Terminated(jobs[k], outcome)],
           told' \in {told, told \cup {<<k, outcome>>}},
           outcome = "reply" => calls[k] = 1,
           UNCHANGED calls
    PROVE  Call!Next
<1>. DEFINE seen == [l \in Keys |-> jobs[l].outcome]
<1>1. jobs \in [Keys -> JobRows] /\ calls \in [Keys -> Nat] /\ jobs[k].outcome = None
  BY DEF CallInvariant, TypeOK, RowShape, Decided
<1>2. jobs'[k].outcome = outcome /\ \A l \in Keys : l # k => jobs'[l] = jobs[l]
  BY <1>1 DEF Terminated, JobRows
<1>3. [l \in Keys |-> jobs'[l].outcome] = [seen EXCEPT ![k] = outcome]
  <2>1. \A l \in Keys : jobs'[l].outcome = [seen EXCEPT ![k] = outcome][l]
    BY <1>2
  <2>2. [l \in Keys |-> jobs'[l].outcome] = [l \in Keys |-> [seen EXCEPT ![k] = outcome][l]]
    BY <2>1
  <2>. QED
    BY <2>2
<1>4. outcome = "reply" => k \in {l \in Keys : calls[l] > 0}
  OBVIOUS
<1>5. Call!Decide(k, outcome)
  BY <1>1, <1>3, <1>4 DEF Call!Decide
<1>. QED
  BY <1>5 DEF Call!Next

(* A replay tells the outcome the row has.                                   *)
LEMMA ReplayTells ==
    ASSUME CallInvariant, NEW q \in Requests, Replay(q)
    PROVE  Call!Next
<1>1. Key(q) \in Keys /\ jobs[Key(q)].outcome \in Outcomes
  BY DecidedOutcome DEF Replay, LooksUp, CallInvariant, RequestsNamed, Key, Job
<1>2. Call!Tell(Key(q))
  BY <1>1, NoneAssumption DEF Replay, Job, Call!Tell
<1>. QED
  BY <1>1, <1>2 DEF Call!Next

(* A step that keeps outcomes, calls and answers.                            *)
LEMMA OutcomesKept ==
    ASSUME [l \in Keys |-> jobs'[l].outcome] = [l \in Keys |-> jobs[l].outcome],
           UNCHANGED <<calls, told>>
    PROVE  UNCHANGED Call!vars
BY DEF Call!vars

(* Every step of the handlers is a step of the contract, or invisible to it. *)
LEMMA CallStep == CallInvariant /\ [Next]_vars => [Call!Next]_(Call!vars)
<1>. SUFFICES ASSUME CallInvariant, [Next]_vars PROVE Call!Next \/ UNCHANGED Call!vars
  OBVIOUS
<1>. DEFINE Kept == [l \in Keys |-> jobs'[l].outcome] = [l \in Keys |-> jobs[l].outcome]
<1>0. jobs \in [Keys -> JobRows] /\ \A k \in Keys : RowShape(jobs[k])
  BY DEF CallInvariant, TypeOK
<1>1. ASSUME UNCHANGED <<jobs, calls, told>> PROVE UNCHANGED Call!vars
  BY <1>1, OutcomesKept
<1>2. ASSUME NEW q \in Requests, Handle(q) PROVE Call!Next \/ UNCHANGED Call!vars
  <2>1. CASE RejectReusedKey(q) \/ AnswerInProgress(q) \/ Resolve(q) \/ RejectPrepare(q)
             \/ LoseFence(q)
    BY <1>1, <2>1 DEF RejectReusedKey, AnswerInProgress, Resolve, RejectPrepare, LoseFence
  <2>2. CASE Replay(q)
    BY <2>2, ReplayTells
  <2>3. CASE FailAbandoned(q)
    <3>1. Key(q) \in Keys /\ "provider_outcome_unknown" \in Outcomes
      BY <2>3 DEF FailAbandoned, LooksUp, CallInvariant, RequestsNamed, Key, Outcomes
    <3>. QED
      BY <2>3, <3>1, EndDecides DEF FailAbandoned, Job
  <2>4. CASE Reserve(q)
    <3>1. CASE UNCHANGED jobs
      BY <1>1, <2>4, <3>1 DEF Reserve
    <3>2. CASE /\ jobs[Key(q)].state = "absent"
               /\ jobs' = [jobs EXCEPT ![Key(q)] =
                             [NoJob EXCEPT !.state = "pending",
                                           !.fingerprint = request[q].fingerprint]]
      <4>1. jobs'[Key(q)].outcome = None /\ jobs[Key(q)].outcome = None /\ Key(q) \in Keys
        BY <1>0, <2>4, <3>2
           DEF Reserve, NoJob, RowShape, Decided, CallInvariant, RequestsNamed, Key
      <4>2. \A l \in Keys : jobs'[l].outcome = jobs[l].outcome
        BY <1>0, <3>2, <4>1
      <4>. QED
        BY <2>4, <4>2, OutcomesKept DEF Reserve
    <3>. QED
      BY <2>4, <3>1, <3>2 DEF Reserve, Job
  <2>5. CASE Claim(q)
    <3>1. \A l \in Keys : jobs'[l].outcome = jobs[l].outcome
      BY <1>0, <2>5 DEF Claim, JobRows
    <3>. QED
      BY <2>5, <3>1, OutcomesKept DEF Claim
  <2>6. CASE \E reply \in BOOLEAN : Invoke(q, reply)
    BY <2>6, InvokeCalls
  <2>7. CASE Record(q)
    <3>1. Key(q) \in Keys /\ jobs[Key(q)].state = "running" /\ calls[Key(q)] = 1
      BY <2>7 DEF Record, HoldsFence, CallInvariant, RequestsNamed, OneCallInFlight, Key, Job
    <3>2. PICK outcome \in Outcomes :
            /\ jobs' = [jobs EXCEPT ![Key(q)] = Terminated(jobs[Key(q)], outcome)]
            /\ told' \in {told, told \cup {<<Key(q), outcome>>}}
      BY <2>7 DEF Record, Job, Outcomes
    <3>. QED
      BY <2>7, <3>1, <3>2, EndDecides DEF Record
  <2>. QED
    BY <1>2, <2>1, <2>2, <2>3, <2>4, <2>5, <2>6, <2>7 DEF Handle
<1>3. ASSUME NEW k \in Keys, Expire(k) PROVE UNCHANGED Call!vars
  <2>1. \A l \in Keys : jobs'[l].outcome = jobs[l].outcome
    BY <1>0, <1>3 DEF Expire, JobRows
  <2>. QED
    BY <1>3, <2>1, OutcomesKept DEF Expire
<1>4. ASSUME \/ \E q \in Requests : \E k \in Keys, f \in Fingerprints : Arrive(q, k, f)
             \/ \E q \in Requests : Crash(q)
             \/ \E t \in Threads : OtherTurn(t)
             \/ UNCHANGED vars
      PROVE  UNCHANGED Call!vars
  BY <1>1, <1>4 DEF Arrive, Crash, OtherTurn, vars
<1>. QED
  BY <1>2, <1>3, <1>4 DEF Next

(* The handlers, transactions and leases implement IdempotentCall: one call   *)
(* per key, one outcome, no reply before the call, and no client told else.  *)
THEOREM IdempotentCallImplemented == Spec => ImplementsIdempotentCall
<1>1. Init => Call!Init
  BY CallInit
<1>2. CallInvariant /\ [Next]_vars => [Call!Next]_(Call!vars)
  BY CallStep
<1>. QED
  BY <1>1, <1>2, CallHolds, PTL DEF Spec, ImplementsIdempotentCall, Call!Spec
=============================================================================
