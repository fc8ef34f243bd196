---------------------------- MODULE MemoryIndex ----------------------------
(***************************************************************************)
(* A row of memories seen from the two things that are derived from it:    *)
(* the idempotency key of the commit that wrote it, and the embedding      *)
(* vector by which it is found.  Commits and corrections write the row in  *)
(* one transaction and embed it later, from a snapshot of the text, in     *)
(* another; a staleness sweep writes back metadata it read earlier; a      *)
(* backfill pages through the rows whose vector is missing or old; a       *)
(* redaction removes what was said, wherever it was copied.                *)
(***************************************************************************)
EXTENDS Naturals, FiniteSets, FiniteSetsExt

CONSTANTS
    Memories,       \* ids of rows, in the order the backfill pages them
    Clients,        \* requests and commands that commit or correct
    Keys,           \* idempotency keys
    Texts,          \* what a memory can say (title, canonical_text and summary)
    Endpoints,      \* embedding providers: name, model and endpoint
    None,
    BatchSize,      \* rows of one page of the backfill
    MaxEdits        \* bound: corrections

\* A vector and the signature stored beside it name the endpoint and the text.
Vector == [by : Endpoints, of : Texts]

ASSUME IndexAssumption ==
    /\ Memories \subseteq Nat \ {0}
    /\ BatchSize \in Nat \ {0} /\ MaxEdits \in Nat
    /\ None \notin Keys \cup Texts \cup Vector

VARIABLES
    row,        \* the table memories
    job,        \* job[c]: the request of c, with the snapshot it embeds
    staged,     \* the write a staleness sweep has buffered
    fill,       \* the backfill command and its report
    answers,    \* history: the commits told "committed", with key, text and row
    edits

vars == <<row, job, staged, fill, answers, edits>>

\* Of the statuses (see MemoryLifecycle) only the row's being deleted matters here.
Row == [state : {"absent", "kept", "redacted"},
        key : Keys \cup {None}, asked : Texts \cup {None}, text : Texts \cup {None},
        vector : Vector \cup {None}, signature : Vector \cup {None},
        revisions : SUBSET Texts]

Absent == [state |-> "absent", key |-> None, asked |-> None, text |-> None,
           vector |-> None, signature |-> None, revisions |-> {}]

Job == [at : {"idle", "insert", "embed", "store"}, key : Keys \cup {None},
        text : Texts \cup {None}, mem : Memories \cup {0}, vector : Vector \cup {None}]

NoJob == [at |-> "idle", key |-> None, text |-> None, mem |-> 0, vector |-> None]

Patch == [mem : Memories, signature : Vector \cup {None}, text : Texts]

Fill == [at : {"idle", "list", "call", "store", "done"}, by : Endpoints \cup {None},
         after : Memories \cup {0}, page : SUBSET [mem : Memories, text : Texts],
         failed : BOOLEAN, untouched : SUBSET Memories]

NoFill == [at |-> "idle", by |-> None, after |-> 0, page |-> {},
           failed |-> FALSE, untouched |-> {}]

\* deleted_at IS NULL: a redacted row is deleted.
Kept(r) == r.state = "kept"

Init ==
    /\ row = [m \in Memories |-> Absent]
    /\ job = [c \in Clients |-> NoJob]
    /\ staged = None
    /\ fill = NoFill
    /\ answers = {}
    /\ edits = 0

\* History for the report of the backfill: these rows were written meanwhile.
Touch(ms) == fill' = [fill EXCEPT !.untouched = @ \ ms]

-----------------------------------------------------------------------------
\* Commits.  commit_digest is unique among all rows, deleted ones included.

Holding(k) == {m \in Memories : row[m].state # "absent" /\ row[m].key = k}

\* A bug: the row that won is returned without comparing the requests.
ReplaysOfAnyRequest(k, t) == {m \in Holding(k) : Kept(row[m])}

\* get_memory_by_commit_digest and the comparison of the request fingerprint.
Replays(k, t) == {m \in Holding(k) : Kept(row[m]) /\ row[m].asked = t}

Answered(k, t, m) == answers' = answers \cup {[key |-> k, text |-> t, mem |-> m]}

Committed(k, t) == [Absent EXCEPT !.state = "kept", !.key = k, !.asked = t,
                                  !.text = t, !.revisions = {t}]

\* The look-up that opens a commit.  A different request under the key is an
\* error and changes nothing; no row: the policy is evaluated, then the insert.
Commit(c, k, t) ==
    /\ job[c].at = "idle"
    /\ \/ /\ Holding(k) = {}
          /\ job' = [job EXCEPT ![c] = [NoJob EXCEPT !.at = "insert", !.key = k, !.text = t]]
          /\ UNCHANGED answers
       \/ \E m \in Replays(k, t) : Answered(k, t, m) /\ UNCHANGED job
    /\ UNCHANGED <<row, staged, fill, edits>>

\* The policy rejects the request, after the look-up.
Reject(c) ==
    /\ job[c].at = "insert"
    /\ job' = [job EXCEPT ![c] = NoJob]
    /\ UNCHANGED <<row, staged, fill, answers, edits>>

\* INSERT .. ON CONFLICT DO NOTHING, which waits for a competing insert to end,
\* and the commit of the transaction.  The text is then to be embedded.
Insert(c) ==
    LET k == job[c].key  t == job[c].text IN
    /\ job[c].at = "insert"
    /\ Holding(k) = {}
    /\ \E m \in Memories :
          /\ row[m].state = "absent"
          /\ row' = [row EXCEPT ![m] = Committed(k, t)]
          /\ job' = [job EXCEPT ![c] = [NoJob EXCEPT !.at = "embed", !.text = t, !.mem = m]]
          /\ Answered(k, t, m)
          /\ Touch({m})
    /\ UNCHANGED <<staged, edits>>

\* The insert found a row of the key: the replay of the same request, or an error.
Conflict(c) ==
    LET k == job[c].key  t == job[c].text IN
    /\ job[c].at = "insert"
    /\ Holding(k) # {}
    /\ job' = [job EXCEPT ![c] = NoJob]
    /\ \/ Replays(k, t) = {} /\ UNCHANGED answers
       \/ \E m \in Replays(k, t) : Answered(k, t, m)
    /\ UNCHANGED <<row, staged, fill, edits>>

-----------------------------------------------------------------------------
\* Corrections and redaction: one transaction each, row locked.

\* A bug: the vector of the previous text stays until the next one is stored.
CorrectedKeepingVector(r, t) ==
    [r EXCEPT !.text = t, !.revisions = @ \cup {r.text, t}]

Corrected(r, t) == [r EXCEPT !.text = t, !.vector = None, !.signature = None,
                             !.revisions = @ \cup {r.text, t}]

Correct(c, m, t) ==
    /\ edits < MaxEdits
    /\ job[c].at = "idle"
    /\ Kept(row[m])
    /\ row' = [row EXCEPT ![m] = Corrected(row[m], t)]
    /\ job' = [job EXCEPT ![c] = [NoJob EXCEPT !.at = "embed", !.text = t, !.mem = m]]
    /\ Touch({m})
    /\ edits' = edits + 1
    /\ UNCHANGED <<staged, answers>>

\* Forget first when live, then scrub the row, its revisions and its events.
Redacted(r) == [Absent EXCEPT !.state = "redacted"]

Redact(m) ==
    /\ Kept(row[m])
    /\ row' = [row EXCEPT ![m] = Redacted(row[m])]
    /\ Touch({m})
    /\ UNCHANGED <<job, staged, answers, edits>>

-----------------------------------------------------------------------------
\* The staleness sweep buffers a patch whose metadata_json, signature included,
\* is the one it read, and a revision that quotes the text it read.

Stage(m) ==
    /\ staged = None
    /\ Kept(row[m])
    /\ staged' = [mem |-> m, signature |-> row[m].signature, text |-> row[m].text]
    /\ UNCHANGED <<row, job, fill, answers, edits>>

\* A bug: the row is updated whatever became of it.
PublishedOverDeleted(r, patch) ==
    [r EXCEPT !.state = "kept", !.signature = patch.signature,
              !.revisions = @ \cup {patch.text}]

Published(r, patch) ==
    IF Kept(r) THEN [r EXCEPT !.signature = patch.signature,
                              !.revisions = @ \cup {patch.text}]
    ELSE r

\* The update of a deleted row raises and the publication is rolled back.
Publish ==
    /\ staged # None
    /\ row' = [row EXCEPT ![staged.mem] = Published(@, staged)]
    /\ Touch({staged.mem})
    /\ staged' = None
    /\ UNCHANGED <<job, answers, edits>>

\* The claim was lost or the run failed: see SchedulerClaims.
Discard ==
    /\ staged # None
    /\ staged' = None
    /\ UNCHANGED <<row, job, fill, answers, edits>>

-----------------------------------------------------------------------------
\* The deferred embedding of a request: provider call, then one transaction.

Embedded(e, t) == [by |-> e, of |-> t]

\* A bug: the vector is stored on the row whatever the row says by now.
FreshWhateverItSays(r, vector) == Kept(r)

\* update_memory_embedding: compare and set on the digest of the current text.
Fresh(r, vector) == Kept(r) /\ r.text = vector.of

Stored(r, vector) ==
    IF Fresh(r, vector) THEN [r EXCEPT !.vector = vector, !.signature = vector] ELSE r

\* get_embedding_provider reads the environment of the process, at this moment.
Embed(c) ==
    /\ job[c].at = "embed"
    /\ \/ \E e \in Endpoints :
             job' = [job EXCEPT ![c].at = "store",
                                ![c].vector = Embedded(e, job[c].text)]
       \/ job' = [job EXCEPT ![c] = NoJob]    \* failed, or no provider
    /\ UNCHANGED <<row, staged, fill, answers, edits>>

Store(c) ==
    LET m == job[c].mem  vector == job[c].vector IN
    /\ job[c].at = "store"
    /\ row' = [row EXCEPT ![m] = Stored(@, vector)]
    /\ Touch(IF vector.by = fill.by THEN {} ELSE {m})
    /\ job' = [job EXCEPT ![c] = NoJob]
    /\ UNCHANGED <<staged, answers, edits>>

\* The process dies, or the best-effort transaction fails; the row stays.
Abandon(c) ==
    /\ job[c].at # "idle"
    /\ job' = [job EXCEPT ![c] = NoJob]
    /\ UNCHANGED <<row, staged, fill, answers, edits>>

-----------------------------------------------------------------------------
\* The command backfill-embeddings.

\* A bug: only rows without a vector are listed.
MissingVector(r, e) == Kept(r) /\ r.vector = None

\* list_memories_missing_embeddings
Missing(r, e) == Kept(r) /\ (r.vector = None \/ r.signature # Embedded(e, r.text))

Page(e, after) ==
    LET found == {m \in Memories : m > after /\ Missing(row[m], e)}
    IN  {m \in found : Cardinality({n \in found : n < m}) < BatchSize}

StartFill(e) ==
    /\ fill.at \in {"idle", "done"}
    /\ fill' = [NoFill EXCEPT !.at = "list", !.by = e,
                              !.untouched = {m \in Memories : Kept(row[m])}]
    /\ UNCHANGED <<row, job, staged, answers, edits>>

Listed(page) == [fill EXCEPT !.at = "call", !.after = Max(page),
                             !.page = {[mem |-> m, text |-> row[m].text] : m \in page}]

ListPage ==
    LET page == Page(fill.by, fill.after) IN
    /\ fill.at = "list"
    /\ fill' = IF page = {} THEN [fill EXCEPT !.at = "done"] ELSE Listed(page)
    /\ UNCHANGED <<row, job, staged, answers, edits>>

\* One batch: vectors for all of its rows, or a failure counted for all of them.
CallProvider ==
    /\ fill.at = "call"
    /\ \/ fill' = [fill EXCEPT !.at = "store"]
       \/ fill' = [fill EXCEPT !.at = "list", !.page = {}, !.failed = TRUE]
    /\ UNCHANGED <<row, job, staged, answers, edits>>

StorePage ==
    LET stored == {x \in fill.page : Fresh(row[x.mem], Embedded(fill.by, x.text))} IN
    /\ fill.at = "store"
    /\ \/ /\ row' = [m \in Memories |->
                        IF \E x \in stored : x.mem = m
                        THEN Stored(row[m], Embedded(fill.by, row[m].text)) ELSE row[m]]
          /\ fill' = [fill EXCEPT !.at = "list", !.page = {},
                                  !.failed = @ \/ stored # fill.page]
       \/ /\ fill' = [fill EXCEPT !.at = "list", !.page = {}, !.failed = TRUE]
          /\ UNCHANGED row
    /\ UNCHANGED <<job, staged, answers, edits>>

AbandonFill ==
    /\ fill.at \notin {"idle", "done"}
    /\ fill' = NoFill
    /\ UNCHANGED <<row, job, staged, answers, edits>>

-----------------------------------------------------------------------------
Next ==
    \/ \E c \in Clients :
          \/ \E t \in Texts : \/ \E k \in Keys : Commit(c, k, t)
                              \/ \E m \in Memories : Correct(c, m, t)
          \/ Reject(c) \/ Insert(c) \/ Conflict(c)
          \/ Embed(c) \/ Store(c) \/ Abandon(c)
    \/ \E m \in Memories : Redact(m) \/ Stage(m)
    \/ Publish \/ Discard
    \/ \E e \in Endpoints : StartFill(e)
    \/ ListPage \/ CallProvider \/ StorePage \/ AbandonFill

Spec == Init /\ [][Next]_vars

-----------------------------------------------------------------------------
\* Types; a deleted row holds no key and no text in any of its copies.
TypeOK ==
    /\ row \in [Memories -> Row]
    /\ \A m \in Memories :
          IF Kept(row[m]) THEN row[m].text \in row[m].revisions
          ELSE row[m] = [Absent EXCEPT !.state = row[m].state]
    /\ job \in [Clients -> Job]
    /\ staged \in Patch \cup {None}
    /\ fill \in Fill
    /\ answers \subseteq [key : Keys, text : Texts, mem : Memories]
    /\ edits \in 0..MaxEdits

\* Two commits told of success under one key were the same request and were
\* given the same row, unless a redaction came between them.
KeyNamesOneMemory ==
    \A a, b \in answers :
        a.key = b.key /\ Kept(row[a.mem]) /\ Kept(row[b.mem]) => a = b

\* What search_memories_by_vector returns to a reader configured for e.
Found(m, e) ==
    /\ Kept(row[m])
    /\ row[m].vector # None
    /\ row[m].signature = Embedded(e, row[m].text)

\* A row found by its vector has the vector of what it says now, although edits,
\* late embeddings and metadata written back by the sweep arrive in any order.
FoundByItsOwnText ==
    \A m \in Memories, e \in Endpoints : Found(m, e) => row[m].vector.of = row[m].text

\* No late embedding, staged sweep or correction brings back anything of a
\* redacted row: nothing that was staged, snapshotted or read before counts.
RedactionIsFinal ==
    [][\A m \in Memories : row[m].state = "redacted" => row'[m] = row[m]]_row

\* A backfill that reports no failure has left every row that existed when it
\* began with a current vector, unless the row was meanwhile written or embedded
\* elsewhere; a late embedding of an earlier text is no such excuse.
ReportedRowsAreCurrent ==
    fill.at = "done" /\ ~fill.failed =>
        \A m \in fill.untouched : Found(m, fill.by)

-----------------------------------------------------------------------------
\* What makes the properties inductive.

\* A request at work knows what its next transaction writes.
JobsNamed ==
    \A c \in Clients :
        /\ job[c].at = "insert" => job[c].key \in Keys /\ job[c].text \in Texts
        /\ job[c].at \in {"embed", "store"} => job[c].mem \in Memories /\ job[c].text \in Texts
        /\ job[c].at = "store" => job[c].vector \in Vector

\* A live row has a key of its own.
KeysUnique ==
    /\ \A m \in Memories : Kept(row[m]) => row[m].key \in Keys
    /\ \A m, n \in Memories :
          Kept(row[m]) /\ Kept(row[n]) /\ row[m].key = row[n].key => m = n

\* What was answered is what the row was committed for.
AnswersMatchRows ==
    \A a \in answers :
        /\ row[a.mem].state # "absent"
        /\ Kept(row[a.mem]) => row[a.mem].key = a.key /\ row[a.mem].asked = a.text

\* A vector never outlives the text it was computed from.
VectorsMatchTexts ==
    \A m \in Memories : Kept(row[m]) /\ row[m].vector # None => row[m].vector.of = row[m].text

\* A listed row that nobody wrote since still says what the page has of it.
OnPage(m) ==
    /\ fill.at \in {"call", "store"}
    /\ \E x \in fill.page : x.mem = m /\ x.text = row[m].text

\* Behind the cursor every row is current or on the page at work.
FillProgress ==
    /\ fill.at # "idle" => fill.by \in Endpoints
    /\ fill.at # "idle" /\ ~fill.failed =>
          \A m \in fill.untouched :
              /\ Kept(row[m])
              /\ m <= fill.after \/ fill.at = "done" => Found(m, fill.by) \/ OnPage(m)

IndexInvariant ==
    /\ TypeOK
    /\ JobsNamed
    /\ KeysUnique
    /\ AnswersMatchRows
    /\ VectorsMatchTexts
    /\ FillProgress
=============================================================================
