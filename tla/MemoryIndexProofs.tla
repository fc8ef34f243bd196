-------------------------- MODULE MemoryIndexProofs --------------------------
(***************************************************************************)
(* Keys, vectors and redaction of memories, for every number of rows,      *)
(* requests, keys, texts and embedding providers.                          *)
(***************************************************************************)
EXTENDS MemoryIndex, FiniteSetTheorems, WellFoundedInduction, TLAPS

(* The shape of a row: a deleted or absent one holds nothing. *)
Shape(r) == IF Kept(r) THEN r.text \in r.revisions ELSE r = [Absent EXCEPT !.state = r.state]

(* The types, split into facts the steps below cite.                         *)
LEMMA Types ==
    ASSUME IndexInvariant
    PROVE  /\ row \in [Memories -> Row]
           /\ \A m \in Memories : row[m] \in Row /\ Shape(row[m])
           /\ job \in [Clients -> Job]
           /\ \A c \in Clients : job[c] \in Job
           /\ staged # None => staged \in Patch
           /\ fill \in Fill
           /\ answers \subseteq [key : Keys, text : Texts, mem : Memories]
           /\ edits \in 0 .. MaxEdits
BY DEF IndexInvariant, TypeOK, Shape

(* A live row says something.                                                *)
LEMMA KeptText ==
    ASSUME NEW r \in Row, Kept(r), Shape(r)
    PROVE  r.text \in Texts
BY DEF Row, Shape, Kept

-----------------------------------------------------------------------------
(* Steps that write no row. *)

(* Only the state of one request changes.                                    *)
LEMMA JobOnly ==
    ASSUME IndexInvariant, NEW c \in Clients, NEW s \in Job, job' = [job EXCEPT ![c] = s],
           s.at = "insert" => s.key \in Keys /\ s.text \in Texts,
           s.at \in {"embed", "store"} => s.mem \in Memories /\ s.text \in Texts,
           s.at = "store" => s.vector \in Vector
    PROVE  job' \in [Clients -> Job] /\ JobsNamed'
<1>1. job \in [Clients -> Job]
  BY Types
<1>2. job'[c] = s /\ \A d \in Clients : d # c => job'[d] = job[d]
  BY <1>1
<1>3. JobsNamed'
  BY <1>2 DEF IndexInvariant, JobsNamed
<1>. QED
  BY <1>1, <1>3

(* The rows stay as they are.                                                *)
LEMMA RowsKept ==
    ASSUME IndexInvariant, UNCHANGED <<row, edits>>,
           job' \in [Clients -> Job] /\ JobsNamed',
           staged' \in Patch \cup {None},
           answers' \subseteq [key : Keys, text : Texts, mem : Memories],
           AnswersMatchRows',
           fill' \in Fill, FillProgress'
    PROVE  IndexInvariant'
<1>1. TypeOK'
  BY DEF IndexInvariant, TypeOK
<1>2. KeysUnique' /\ VectorsMatchTexts'
  BY DEF IndexInvariant, KeysUnique, VectorsMatchTexts
<1>. QED
  BY <1>1, <1>2 DEF IndexInvariant

(* An answer for a row that is there, live, and committed for the request.    *)
LEMMA AnswerAdded ==
    ASSUME IndexInvariant, UNCHANGED row, NEW k \in Keys, NEW t \in Texts,
           answers' = answers \/ \E m \in Replays(k, t) : Answered(k, t, m)
    PROVE  /\ answers' \subseteq [key : Keys, text : Texts, mem : Memories]
           /\ AnswersMatchRows'
<1>1. answers \subseteq [key : Keys, text : Texts, mem : Memories]
  BY Types
<1>2. CASE answers' = answers
  BY <1>1, <1>2 DEF IndexInvariant, AnswersMatchRows
<1>3. ASSUME NEW m \in Replays(k, t), Answered(k, t, m)
      PROVE  /\ answers' \subseteq [key : Keys, text : Texts, mem : Memories]
             /\ AnswersMatchRows'
  <2>1. m \in Memories /\ row[m].state # "absent" /\ row[m].key = k /\ row[m].asked = t
    BY <1>3 DEF Replays, Holding
  <2>. QED
    BY <1>1, <1>3, <2>1 DEF Answered, IndexInvariant, AnswersMatchRows
<1>. QED
  BY <1>2, <1>3

(* The backfill goes on unseen by this step: rows it may still vouch for keep *)
(* their text, and stay found if they were.                                  *)
LEMMA FillKept ==
    ASSUME IndexInvariant, NEW untouched \in SUBSET fill.untouched,
           fill' = [fill EXCEPT !.untouched = untouched],
           \A m \in untouched : Kept(row[m]) =>
              /\ Kept(row'[m]) /\ row'[m].text = row[m].text
              /\ \/ row'[m].vector = row[m].vector /\ row'[m].signature = row[m].signature
                 \/ row'[m].vector # None /\ row'[m].signature = Embedded(fill.by, row'[m].text)
    PROVE  fill' \in Fill /\ FillProgress'
<1>1. fill \in Fill
  BY Types
<1>2. /\ fill' \in Fill /\ fill'.at = fill.at /\ fill'.by = fill.by /\ fill'.after = fill.after
      /\ fill'.page = fill.page /\ fill'.failed = fill.failed /\ fill'.untouched = untouched
  BY <1>1 DEF Fill
<1>3. ASSUME fill.at # "idle", ~fill.failed, NEW m \in untouched
      PROVE  /\ Kept(row'[m])
             /\ m <= fill.after \/ fill.at = "done" => Found(m, fill.by)' \/ OnPage(m)'
  <2>1. /\ Kept(row[m])
        /\ m <= fill.after \/ fill.at = "done" => Found(m, fill.by) \/ OnPage(m)
    BY <1>3 DEF IndexInvariant, FillProgress
  <2>2. Kept(row'[m]) /\ row'[m].text = row[m].text
    BY <2>1
  <2>3. Found(m, fill.by) => Found(m, fill.by)'
    BY <1>2, <2>1, <2>2 DEF Found
  <2>4. OnPage(m) => OnPage(m)'
    BY <1>2, <2>2 DEF OnPage
  <2>. QED
    BY <2>1, <2>2, <2>3, <2>4
<1>. QED
  BY <1>2, <1>3 DEF IndexInvariant, FillProgress

(* Steps of requests and of the sweep between their writes.                  *)
LEMMA LocalSteps ==
    ASSUME IndexInvariant,
           \/ \E c \in Clients :
                \/ \E t \in Texts : \E k \in Keys : Commit(c, k, t)
                \/ Reject(c) \/ Conflict(c) \/ Embed(c) \/ Abandon(c)
           \/ \E m \in Memories : Stage(m)
           \/ Discard
    PROVE  IndexInvariant'
<1>0. /\ row \in [Memories -> Row] /\ job \in [Clients -> Job] /\ fill \in Fill
      /\ \A m \in Memories : row[m] \in Row /\ Shape(row[m])
      /\ \A c \in Clients : job[c] \in Job
      /\ staged \in Patch \cup {None}
      /\ answers \subseteq [key : Keys, text : Texts, mem : Memories]
  BY Types
<1>1. NoJob \in Job /\ NoJob.at = "idle"
  BY DEF NoJob, Job
<1>2. UNCHANGED <<row, fill>> => FillProgress' /\ fill' \in Fill
  BY <1>0 DEF IndexInvariant, FillProgress, Found, OnPage
<1>3. UNCHANGED <<row, answers>> =>
         AnswersMatchRows' /\ answers' \subseteq [key : Keys, text : Texts, mem : Memories]
  BY <1>0 DEF IndexInvariant, AnswersMatchRows
<1>4. UNCHANGED job => job' \in [Clients -> Job] /\ JobsNamed'
  BY <1>0 DEF IndexInvariant, JobsNamed
<1>5. ASSUME NEW c \in Clients, NEW t \in Texts, NEW k \in Keys, Commit(c, k, t)
      PROVE  IndexInvariant'
  <2>. DEFINE s == [NoJob EXCEPT !.at = "insert", !.key = k, !.text = t]
  <2>1. s \in Job /\ s.at = "insert" /\ s.key = k /\ s.text = t
    BY DEF NoJob, Job
  <2>2. job' = job \/ job' = [job EXCEPT ![c] = s]
    BY <1>5 DEF Commit
  <2>. HIDE DEF s
  <2>3. job' \in [Clients -> Job] /\ JobsNamed'
    BY <1>4, <2>1, <2>2, JobOnly
  <2>4. UNCHANGED <<row, staged, fill, edits>>
        /\ (answers' = answers \/ \E m \in Replays(k, t) : Answered(k, t, m))
    BY <1>5 DEF Commit
  <2>. QED
    BY <1>0, <1>2, <2>3, <2>4, AnswerAdded, RowsKept
<1>6. ASSUME NEW c \in Clients, Conflict(c) PROVE IndexInvariant'
  <2>1. PICK k \in Keys, t \in Texts : k = job[c].key /\ t = job[c].text
    BY <1>6 DEF Conflict, IndexInvariant, JobsNamed
  <2>2. /\ job' = [job EXCEPT ![c] = NoJob] /\ UNCHANGED <<row, staged, fill, edits>>
        /\ (answers' = answers \/ \E m \in Replays(k, t) : Answered(k, t, m))
    BY <1>6, <2>1 DEF Conflict
  <2>3. job' \in [Clients -> Job] /\ JobsNamed'
    BY <1>1, <2>2, JobOnly
  <2>. QED
    BY <1>0, <1>2, <2>2, <2>3, AnswerAdded, RowsKept
<1>7. ASSUME NEW c \in Clients, Reject(c) \/ Embed(c) \/ Abandon(c) PROVE IndexInvariant'
  <2>1. UNCHANGED <<row, staged, fill, answers, edits>>
    BY <1>7 DEF Reject, Embed, Abandon
  <2>2. CASE job' = [job EXCEPT ![c] = NoJob]
    <3>1. job' \in [Clients -> Job] /\ JobsNamed'
      BY <1>1, <2>2, JobOnly
    <3>. QED
      BY <1>0, <1>2, <1>3, <2>1, <3>1, RowsKept
  <2>3. ASSUME NEW e \in Endpoints, job[c].at = "embed",
               job' = [job EXCEPT ![c].at = "store", ![c].vector = Embedded(e, job[c].text)]
        PROVE  IndexInvariant'
    <3>. DEFINE s == [job[c] EXCEPT !.at = "store", !.vector = Embedded(e, job[c].text)]
    <3>1. job[c].text \in Texts /\ job[c].mem \in Memories
      BY <2>3 DEF IndexInvariant, JobsNamed
    <3>2. Embedded(e, job[c].text) \in Vector
      BY <3>1 DEF Embedded, Vector
    <3>3. s \in Job /\ s.at = "store" /\ s.mem = job[c].mem /\ s.text = job[c].text
          /\ s.vector \in Vector
      BY <1>0, <3>1, <3>2 DEF Job
    <3>4. job' = [job EXCEPT ![c] = s]
      BY <1>0, <2>3
    <3>. HIDE DEF s
    <3>5. job' \in [Clients -> Job] /\ JobsNamed'
      BY <3>1, <3>3, <3>4, JobOnly
    <3>. QED
      BY <1>0, <1>2, <1>3, <2>1, <3>5, RowsKept
  <2>. QED
    BY <1>7, <2>2, <2>3 DEF Reject, Embed, Abandon
<1>8. ASSUME NEW m \in Memories, Stage(m) PROVE IndexInvariant'
  <2>1. [mem |-> m, signature |-> row[m].signature, text |-> row[m].text] \in Patch
    BY <1>0, <1>8, KeptText DEF Stage, Row, Patch
  <2>. QED
    BY <1>2, <1>3, <1>4, <1>8, <2>1, RowsKept DEF Stage
<1>9. CASE Discard
  BY <1>2, <1>3, <1>4, <1>9, RowsKept DEF Discard
<1>. QED
  BY <1>5, <1>6, <1>7, <1>8, <1>9

-----------------------------------------------------------------------------
(* Steps that write rows. *)

(* Live rows keep key and request, and no vector outlives its text.          *)
LEMMA RowsWritten ==
    ASSUME IndexInvariant, row' \in [Memories -> Row],
           \A m \in Memories :
              /\ Shape(row'[m])
              /\ row[m].state # "absent" => row'[m].state # "absent"
              /\ Kept(row'[m]) => /\ Kept(row[m]) /\ row'[m].key = row[m].key
                                  /\ row'[m].asked = row[m].asked
                                  /\ row'[m].vector # None => row'[m].vector.of = row'[m].text,
           UNCHANGED answers, edits' \in 0 .. MaxEdits,
           staged' \in Patch \cup {None},
           job' \in [Clients -> Job], JobsNamed',
           fill' \in Fill, FillProgress'
    PROVE  IndexInvariant'
<1>1. answers \subseteq [key : Keys, text : Texts, mem : Memories]
  BY Types
<1>2. TypeOK'
  BY <1>1 DEF TypeOK, Shape
<1>3. KeysUnique'
  BY DEF IndexInvariant, KeysUnique
<1>4. AnswersMatchRows'
  BY <1>1 DEF IndexInvariant, AnswersMatchRows
<1>5. VectorsMatchTexts'
  BY DEF VectorsMatchTexts
<1>. QED
  BY <1>2, <1>3, <1>4, <1>5 DEF IndexInvariant

(* A new row under a key that no row holds.                                  *)
LEMMA InsertStep ==
    ASSUME IndexInvariant, NEW c \in Clients, Insert(c)
    PROVE  IndexInvariant'
<1>. PICK k \in Keys, t \in Texts : k = job[c].key /\ t = job[c].text
  BY DEF Insert, IndexInvariant, JobsNamed
<1>. DEFINE r == Committed(k, t)
<1>0. /\ row \in [Memories -> Row] /\ fill \in Fill
      /\ \A m \in Memories : row[m] \in Row /\ Shape(row[m])
      /\ staged \in Patch \cup {None} /\ edits \in 0 .. MaxEdits
      /\ answers \subseteq [key : Keys, text : Texts, mem : Memories]
  BY Types
<1>1. PICK m \in Memories :
         /\ row[m].state = "absent"
         /\ row' = [row EXCEPT ![m] = r]
         /\ job' = [job EXCEPT ![c] = [NoJob EXCEPT !.at = "embed", !.text = t, !.mem = m]]
         /\ Answered(k, t, m)
         /\ Touch({m})
  BY DEF Insert
<1>2. Holding(k) = {} /\ UNCHANGED <<staged, edits>>
  BY DEF Insert
<1>3. /\ r \in Row /\ Shape(r) /\ Kept(r) /\ r.key = k /\ r.asked = t /\ r.state # "absent"
      /\ r.vector = None
  BY DEF Committed, Absent, Row, Shape, Kept
<1>. HIDE DEF r
<1>4. row'[m] = r /\ \A n \in Memories : n # m => row'[n] = row[n]
  BY <1>0, <1>1
<1>5. job' \in [Clients -> Job] /\ JobsNamed'
  <2>. DEFINE s == [NoJob EXCEPT !.at = "embed", !.text = t, !.mem = m]
  <2>1. s \in Job /\ s.at = "embed" /\ s.text = t /\ s.mem = m
    BY DEF NoJob, Job
  <2>2. job' = [job EXCEPT ![c] = s]
    BY <1>1
  <2>. HIDE DEF s
  <2>. QED
    BY <2>1, <2>2, JobOnly
<1>6. fill' \in Fill /\ FillProgress'
  <2>1. \A n \in fill.untouched \ {m} : row'[n] = row[n]
    BY <1>0, <1>4 DEF Fill
  <2>. QED
    BY <1>1, <2>1, FillKept DEF Touch
<1>7. KeysUnique'
  <2>1. \A n \in Memories : Kept(row[n]) => row[n].key # k
    BY <1>2 DEF Holding, Kept
  <2>. QED
    BY <1>3, <1>4, <2>1 DEF IndexInvariant, KeysUnique
<1>8. AnswersMatchRows'
  <2>1. answers' = answers \cup {[key |-> k, text |-> t, mem |-> m]}
    BY <1>1 DEF Answered
  <2>2. \A a \in answers : a.mem \in Memories /\ a.mem # m
    BY <1>0, <1>1 DEF IndexInvariant, AnswersMatchRows
  <2>. QED
    BY <1>3, <1>4, <2>1, <2>2 DEF IndexInvariant, AnswersMatchRows
<1>9. VectorsMatchTexts'
  BY <1>3, <1>4 DEF IndexInvariant, VectorsMatchTexts
<1>10. TypeOK'
  <2>1. row' \in [Memories -> Row] /\ \A n \in Memories : Shape(row'[n])
    BY <1>0, <1>1, <1>3, <1>4
  <2>2. answers' \subseteq [key : Keys, text : Texts, mem : Memories]
    BY <1>0, <1>1 DEF Answered
  <2>. QED
    BY <1>0, <1>2, <1>5, <1>6, <2>1, <2>2 DEF TypeOK, Shape
<1>. QED
  BY <1>5, <1>6, <1>7, <1>8, <1>9, <1>10 DEF IndexInvariant

(* A correction drops the vector with the text.                              *)
LEMMA CorrectStep ==
    ASSUME IndexInvariant, NEW c \in Clients, NEW m \in Memories, NEW t \in Texts,
           Correct(c, m, t)
    PROVE  IndexInvariant'
<1>. DEFINE r == Corrected(row[m], t)
<1>0. /\ row \in [Memories -> Row] /\ fill \in Fill /\ row[m] \in Row /\ row[m].text \in Texts
      /\ \A n \in Memories : row[n] \in Row /\ Shape(row[n])
      /\ staged \in Patch \cup {None} /\ edits \in 0 .. MaxEdits /\ Kept(row[m])
  BY Types, KeptText DEF Correct
<1>1. /\ r \in Row /\ Shape(r) /\ Kept(r) /\ r.key = row[m].key /\ r.asked = row[m].asked
      /\ r.state # "absent" /\ r.vector = None
  BY <1>0 DEF Corrected, Row, Shape, Kept
<1>2. /\ row' = [row EXCEPT ![m] = r] /\ Touch({m}) /\ UNCHANGED <<staged, answers>>
      /\ job' = [job EXCEPT ![c] = [NoJob EXCEPT !.at = "embed", !.text = t, !.mem = m]]
      /\ edits < MaxEdits /\ edits' = edits + 1
  BY DEF Correct
<1>. HIDE DEF r
<1>3. row'[m] = r /\ \A n \in Memories : n # m => row'[n] = row[n]
  BY <1>0, <1>2
<1>4. job' \in [Clients -> Job] /\ JobsNamed'
  <2>. DEFINE s == [NoJob EXCEPT !.at = "embed", !.text = t, !.mem = m]
  <2>1. s \in Job /\ s.at = "embed" /\ s.text = t /\ s.mem = m
    BY DEF NoJob, Job
  <2>2. job' = [job EXCEPT ![c] = s]
    BY <1>2
  <2>. HIDE DEF s
  <2>. QED
    BY <2>1, <2>2, JobOnly
<1>5. fill' \in Fill /\ FillProgress'
  <2>1. \A n \in fill.untouched \ {m} : row'[n] = row[n]
    BY <1>0, <1>3 DEF Fill
  <2>. QED
    BY <1>2, <2>1, FillKept DEF Touch
<1>6. edits' \in 0 .. MaxEdits
  BY <1>0, <1>2, IndexAssumption
<1>7. row' \in [Memories -> Row]
  BY <1>0, <1>1, <1>2
<1>8. \A n \in Memories : Kept(row[n]) /\ row[n].vector # None => row[n].vector.of = row[n].text
  BY DEF IndexInvariant, VectorsMatchTexts
<1>. QED
  BY <1>0, <1>1, <1>2, <1>3, <1>4, <1>5, <1>6, <1>7, <1>8, RowsWritten

(* A redaction leaves nothing of the row.                                    *)
LEMMA RedactStep ==
    ASSUME IndexInvariant, NEW m \in Memories, Redact(m)
    PROVE  IndexInvariant'
<1>. DEFINE r == Redacted(row[m])
<1>0. /\ row \in [Memories -> Row] /\ fill \in Fill
      /\ \A n \in Memories : row[n] \in Row /\ Shape(row[n])
      /\ staged \in Patch \cup {None} /\ edits \in 0 .. MaxEdits /\ job \in [Clients -> Job]
  BY Types
<1>1. r \in Row /\ Shape(r) /\ ~Kept(r) /\ r.state = "redacted"
  BY DEF Redacted, Absent, Row, Shape, Kept
<1>2. row' = [row EXCEPT ![m] = r] /\ Touch({m}) /\ UNCHANGED <<job, staged, answers, edits>>
  BY DEF Redact
<1>. HIDE DEF r
<1>3. row'[m] = r /\ \A n \in Memories : n # m => row'[n] = row[n]
  BY <1>0, <1>2
<1>4. JobsNamed'
  BY <1>2 DEF IndexInvariant, JobsNamed
<1>5. fill' \in Fill /\ FillProgress'
  <2>1. \A n \in fill.untouched \ {m} : row'[n] = row[n]
    BY <1>0, <1>3 DEF Fill
  <2>. QED
    BY <1>2, <2>1, FillKept DEF Touch
<1>6. row' \in [Memories -> Row]
  BY <1>0, <1>1, <1>2
<1>7. \A n \in Memories : Kept(row[n]) /\ row[n].vector # None => row[n].vector.of = row[n].text
  BY DEF IndexInvariant, VectorsMatchTexts
<1>. QED
  BY <1>0, <1>1, <1>2, <1>3, <1>4, <1>5, <1>6, <1>7, RowsWritten

(* The sweep's publication writes back metadata, and nothing over a deleted   *)
(* row.                                                                      *)
LEMMA PublishStep ==
    ASSUME IndexInvariant, Publish
    PROVE  IndexInvariant'
<1>. DEFINE m == staged.mem
            r == Published(row[m], staged)
<1>0. /\ row \in [Memories -> Row] /\ fill \in Fill
      /\ \A n \in Memories : row[n] \in Row /\ Shape(row[n])
      /\ staged \in Patch /\ edits \in 0 .. MaxEdits /\ job \in [Clients -> Job]
  BY Types DEF Publish
<1>1. m \in Memories /\ staged.signature \in Vector \cup {None} /\ staged.text \in Texts
      /\ row[m] \in Row /\ Shape(row[m])
  BY <1>0 DEF Patch
<1>2. /\ r \in Row /\ Shape(r) /\ r.state = row[m].state /\ r.key = row[m].key
      /\ r.asked = row[m].asked /\ r.text = row[m].text /\ r.vector = row[m].vector
  BY <1>1 DEF Published, Row, Shape, Kept
<1>3. row' = [row EXCEPT ![m] = r] /\ Touch({m}) /\ UNCHANGED <<job, answers, edits>>
      /\ staged' = None
  BY DEF Publish
<1>. HIDE DEF r, m
<1>4. row'[m] = r /\ \A n \in Memories : n # m => row'[n] = row[n]
  BY <1>0, <1>1, <1>3
<1>5. JobsNamed'
  BY <1>3 DEF IndexInvariant, JobsNamed
<1>6. fill' \in Fill /\ FillProgress'
  <2>1. \A n \in fill.untouched \ {m} : row'[n] = row[n]
    BY <1>0, <1>4 DEF Fill
  <2>. QED
    BY <1>3, <2>1, FillKept DEF Touch
<1>7. row' \in [Memories -> Row]
  BY <1>0, <1>1, <1>2, <1>3
<1>8. \A n \in Memories : Kept(row[n]) /\ row[n].vector # None => row[n].vector.of = row[n].text
  BY DEF IndexInvariant, VectorsMatchTexts
<1>. QED
  BY <1>0, <1>1, <1>2, <1>3, <1>4, <1>5, <1>6, <1>7, <1>8, RowsWritten DEF Kept

(* A vector is stored only beside the text it was computed from.             *)
LEMMA StoredRow ==
    ASSUME NEW r \in Row, Shape(r), NEW vector \in Vector
    PROVE  LET s == Stored(r, vector) IN
           /\ s \in Row /\ Shape(s) /\ s.state = r.state /\ s.key = r.key /\ s.asked = r.asked
           /\ s.text = r.text
           /\ \/ s = r
              \/ /\ s.vector = vector /\ s.signature = vector
                 /\ vector.of = r.text
BY DEF Stored, Fresh, Row, Shape, Kept

(* The late half of a request's embedding.                                   *)
LEMMA StoreStep ==
    ASSUME IndexInvariant, NEW c \in Clients, Store(c)
    PROVE  IndexInvariant'
<1>. DEFINE m == job[c].mem
            vector == job[c].vector
            r == Stored(row[m], vector)
            touched == IF vector.by = fill.by THEN {} ELSE {m}
<1>0. /\ row \in [Memories -> Row] /\ fill \in Fill
      /\ \A n \in Memories : row[n] \in Row /\ Shape(row[n])
      /\ staged \in Patch \cup {None} /\ edits \in 0 .. MaxEdits /\ job \in [Clients -> Job]
  BY Types DEF Publish
<1>1. m \in Memories /\ vector \in Vector /\ row[m] \in Row /\ Shape(row[m])
  BY <1>0 DEF Store, IndexInvariant, JobsNamed
<1>2. /\ r \in Row /\ Shape(r) /\ r.state = row[m].state /\ r.key = row[m].key
      /\ r.asked = row[m].asked /\ r.text = row[m].text
      /\ \/ r = row[m]
         \/ r.vector = vector /\ r.signature = vector /\ vector.of = row[m].text
  BY <1>1, StoredRow
<1>3. row' = [row EXCEPT ![m] = r] /\ Touch(touched) /\ UNCHANGED <<staged, answers, edits>>
      /\ job' = [job EXCEPT ![c] = NoJob]
  BY DEF Store
<1>4. vector.by = fill.by => touched = {}
  OBVIOUS
<1>5. vector.by # fill.by => touched = {m}
  OBVIOUS
<1>6. vector # None /\ vector = [by |-> vector.by, of |-> vector.of]
  <2>1. vector = [by |-> vector.by, of |-> vector.of]
    BY <1>1 DEF Vector
  <2>2. None \notin Vector
    BY IndexAssumption
  <2>. QED
    BY <1>1, <2>1, <2>2
<1>. HIDE DEF r, m, vector, touched
<1>7. row'[m] = r /\ \A n \in Memories : n # m => row'[n] = row[n]
  BY <1>0, <1>1, <1>3
<1>8. job' \in [Clients -> Job] /\ JobsNamed'
  <2>1. NoJob \in Job /\ NoJob.at = "idle"
    BY DEF NoJob, Job
  <2>. QED
    BY <1>3, <2>1, JobOnly
<1>9. fill' \in Fill /\ FillProgress'
  <2>1. fill' = [fill EXCEPT !.untouched = fill.untouched \ touched]
    BY <1>0, <1>3 DEF Touch, Fill
  <2>2. ASSUME NEW n \in fill.untouched \ touched, Kept(row[n])
        PROVE  /\ Kept(row'[n]) /\ row'[n].text = row[n].text
               /\ \/ row'[n].vector = row[n].vector /\ row'[n].signature = row[n].signature
                  \/ row'[n].vector # None /\ row'[n].signature = Embedded(fill.by, row'[n].text)
    <3>1. n \in Memories
      BY <1>0 DEF Fill
    <3>2. CASE n = m
      <4>1. vector.by = fill.by
        BY <1>5, <2>2, <3>2
      <4>. QED
        BY <1>2, <1>6, <1>7, <2>2, <3>2, <4>1 DEF Kept, Embedded
    <3>3. CASE n # m
      BY <1>7, <2>2, <3>1, <3>3
    <3>. QED
      BY <3>2, <3>3
  <2>. QED
    BY <2>1, <2>2, FillKept
<1>10. row' \in [Memories -> Row]
  BY <1>0, <1>1, <1>2, <1>3
<1>11. \A n \in Memories : Kept(row[n]) /\ row[n].vector # None => row[n].vector.of = row[n].text
  BY DEF IndexInvariant, VectorsMatchTexts
<1>. QED
  BY <1>0, <1>1, <1>2, <1>3, <1>6, <1>7, <1>8, <1>9, <1>10, <1>11, RowsWritten DEF Kept

-----------------------------------------------------------------------------
(* The pages of the backfill. *)

(* A set of numbers has a least one, and a greatest one if it is bounded.     *)
LEMMA LeastNumber ==
    ASSUME NEW S \in SUBSET Nat, S # {}
    PROVE  \E m \in S : \A n \in S : m <= n
<1>1. PICK m \in S : \A n \in S : <<n, m>> \notin OpToRel(<, Nat)
  BY NatLessThanWellFounded, WFMin
<1>2. \A n \in S : ~(n < m)
  BY <1>1 DEF OpToRel
<1>. QED
  BY <1>2

LEMMA GreatestNumber ==
    ASSUME NEW S \in SUBSET Nat, S # {}, NEW bound \in Nat, \A n \in S : n <= bound
    PROVE  \E m \in S : \A n \in S : n <= m
<1>. DEFINE above == {u \in Nat : \A n \in S : n <= u}
<1>1. PICK u \in above : \A v \in above : u <= v
  <2>1. above # {} /\ above \in SUBSET Nat
    OBVIOUS
  <2>. QED
    BY <2>1, LeastNumber
<1>2. u \in S
  <2>. SUFFICES ASSUME u \notin S PROVE FALSE
    OBVIOUS
  <2>1. PICK n \in S : TRUE
    OBVIOUS
  <2>2. \A k \in S : k <= u /\ k # u
    BY <1>1
  <2>3. u - 1 \in Nat /\ \A k \in S : k <= u - 1
    BY <1>1, <2>1, <2>2
  <2>4. u - 1 \in above
    BY <2>3
  <2>. QED
    BY <1>1, <2>4
<1>. QED
  BY <1>1, <1>2

(* The first rows of a listing, by their number of predecessors: an initial   *)
(* segment, empty only if the listing is, and with a last row.               *)
LEMMA FirstRows ==
    ASSUME NEW found \in SUBSET Nat
    PROVE  LET page == {m \in found : Cardinality({n \in found : n < m}) < BatchSize} IN
           /\ found # {} => page # {}
           /\ \A m \in found, n \in page : m < n => m \in page
           /\ page # {} => Max(page) \in page /\ \A m \in page : m <= Max(page)
<1>. DEFINE before == [m \in Nat |-> {n \in found : n < m}]
            page == {m \in found : Cardinality({n \in found : n < m}) < BatchSize}
<1>0. /\ \A x \in found : x \in Nat
      /\ \A m \in Nat : \A x \in found : x < m => x \in before[m]
      /\ \A m \in Nat : \A x \in before[m] : x \in found /\ x \in Nat /\ x < m
      /\ \A x \in page : x \in found /\ x \in Nat
      /\ \A m \in found : m \in page <=> Cardinality(before[m]) < BatchSize
  OBVIOUS
<1>. HIDE DEF before, page
<1>1. \A m \in Nat : IsFiniteSet(before[m]) /\ Cardinality(before[m]) \in Nat
  <2>. TAKE m \in Nat
  <2>1. \A x \in before[m] : x \in Nat /\ x <= m
    BY <1>0
  <2>2. IsFiniteSet(before[m])
    BY <2>1, FS_BoundedSetOfNaturals
  <2>. QED
    BY <2>2, FS_CardinalityType
<1>2. \A m, n \in found : m < n => Cardinality(before[m]) + 1 <= Cardinality(before[n])
  <2>. SUFFICES ASSUME NEW m \in found, NEW n \in found, m < n
                PROVE  Cardinality(before[m]) + 1 <= Cardinality(before[n])
    OBVIOUS
  <2>0. m \in Nat /\ n \in Nat
    OBVIOUS
  <2>1. before[m] \cup {m} \in SUBSET before[n]
    <3>1. ASSUME NEW x \in before[m] PROVE x \in before[n]
      <4>1. x \in found /\ x \in Nat /\ x < m
        BY <1>0, <2>0
      <4>2. x < n
        BY <2>0, <4>1
      <4>. QED
        BY <1>0, <2>0, <4>1, <4>2
    <3>2. m \in before[n]
      BY <1>0, <2>0
    <3>. QED
      BY <3>1, <3>2
  <2>2. m \notin before[m]
    BY <1>0, <2>0
  <2>3. IsFiniteSet(before[m]) /\ IsFiniteSet(before[n])
    BY <1>1
  <2>4. Cardinality(before[m] \cup {m}) = Cardinality(before[m]) + 1
    BY <2>2, <2>3, FS_AddElement
  <2>5. Cardinality(before[m] \cup {m}) <= Cardinality(before[n])
    BY <2>1, <2>3, FS_Subset
  <2>. QED
    BY <2>4, <2>5
<1>3. found # {} => page # {}
  <2>. SUFFICES ASSUME found # {} PROVE page # {}
    OBVIOUS
  <2>1. PICK m \in found : \A n \in found : m <= n
    BY LeastNumber
  <2>2. before[m] = {}
    BY <1>0, <2>1
  <2>3. Cardinality(before[m]) = 0
    BY <2>2, FS_EmptySet
  <2>4. m \in page
    BY <1>0, <2>3, IndexAssumption
  <2>. QED
    BY <2>4
<1>4. \A m \in found, n \in page : m < n => m \in page
  <2>. SUFFICES ASSUME NEW m \in found, NEW n \in page, m < n PROVE m \in page
    OBVIOUS
  <2>1. m \in Nat /\ n \in Nat /\ n \in found /\ Cardinality(before[n]) < BatchSize
    BY <1>0
  <2>2. Cardinality(before[m]) + 1 <= Cardinality(before[n])
    BY <1>2, <2>1
  <2>3. Cardinality(before[m]) \in Nat /\ Cardinality(before[n]) \in Nat
    BY <1>1, <2>1
  <2>. QED
    BY <1>0, <2>1, <2>2, <2>3, IndexAssumption
<1>5. ASSUME page # {} PROVE Max(page) \in page /\ \A m \in page : m <= Max(page)
  <2>. DEFINE ranks == {Cardinality(before[m]) : m \in page}
  <2>0. \A m \in page : Cardinality(before[m]) \in Nat /\ Cardinality(before[m]) <= BatchSize
    BY <1>0, <1>1, IndexAssumption
  <2>1. ranks \in SUBSET Nat /\ ranks # {} /\ \A c \in ranks : c <= BatchSize
    BY <1>5, <2>0
  <2>2. PICK c \in ranks : \A d \in ranks : d <= c
    BY <2>1, GreatestNumber, IndexAssumption
  <2>3. PICK m \in page : c = Cardinality(before[m])
    BY <2>2
  <2>4. \A n \in page : Cardinality(before[n]) <= Cardinality(before[m])
    BY <2>2, <2>3
  <2>5. \A n \in page : n <= m
    <3>. TAKE n \in page
    <3>1. m \in Nat /\ n \in Nat /\ m \in found /\ n \in found
      BY <1>0
    <3>2. Cardinality(before[m]) \in Nat /\ Cardinality(before[n]) \in Nat
      BY <1>1, <3>1
    <3>3. ~(m < n)
      BY <1>2, <2>4, <3>1, <3>2
    <3>. QED
      BY <3>1, <3>3
  <2>6. \E x \in page : \A y \in page : x >= y
    BY <1>0, <2>5
  <2>7. Max(page) \in page /\ \A y \in page : Max(page) >= y
    BY <2>6 DEF Max
  <2>. QED
    BY <1>0, <2>7
<1>. QED
  BY <1>3, <1>4, <1>5 DEF before, page

(* A step of the backfill that writes no row.                                *)
LEMMA FillOnly ==
    ASSUME IndexInvariant, UNCHANGED <<row, job, staged, answers, edits>>,
           fill' \in Fill, FillProgress'
    PROVE  IndexInvariant'
<1>1. /\ job' \in [Clients -> Job] /\ staged' \in Patch \cup {None}
      /\ answers' \subseteq [key : Keys, text : Texts, mem : Memories]
  BY Types
<1>2. JobsNamed' /\ AnswersMatchRows'
  BY DEF IndexInvariant, JobsNamed, AnswersMatchRows
<1>. QED
  BY <1>1, <1>2, RowsKept

(* The command begins before the first row, or gives up.                     *)
LEMMA StartFillStep ==
    ASSUME IndexInvariant, (\E e \in Endpoints : StartFill(e)) \/ AbandonFill
    PROVE  IndexInvariant'
<1>1. CASE AbandonFill
  <2>1. NoFill \in Fill /\ NoFill.at = "idle"
    BY DEF NoFill, Fill
  <2>. QED
    BY <1>1, <2>1, FillOnly DEF AbandonFill, FillProgress
<1>2. ASSUME NEW e \in Endpoints, StartFill(e) PROVE IndexInvariant'
  <2>. DEFINE live == {m \in Memories : Kept(row[m])}
  <2>1. /\ fill' \in Fill /\ fill'.at = "list" /\ fill'.by = e /\ fill'.after = 0
        /\ fill'.untouched = live
    BY <1>2 DEF StartFill, NoFill, Fill
  <2>2. ASSUME NEW m \in live PROVE Kept(row'[m]) /\ ~(m <= 0)
    <3>1. Kept(row[m]) /\ row' = row
      BY <1>2 DEF StartFill
    <3>2. m \in Nat \ {0}
      BY IndexAssumption
    <3>3. Kept(row'[m])
      BY <3>1
    <3>4. ~(m <= 0)
      BY <3>2
    <3>. QED
      BY <3>3, <3>4
  <2>. HIDE DEF live
  <2>3. FillProgress'
    BY <2>1, <2>2 DEF FillProgress
  <2>. QED
    BY <1>2, <2>1, <2>3, FillOnly DEF StartFill
<1>. QED
  BY <1>1, <1>2

(* A page: every live row up to its last one is listed or current.           *)
LEMMA ListPageStep ==
    ASSUME IndexInvariant, ListPage
    PROVE  IndexInvariant'
<1>. DEFINE e == fill.by
            found == {m \in Memories : m > fill.after /\ Missing(row[m], e)}
            page == Page(e, fill.after)
<1>0. /\ fill \in Fill /\ fill.at = "list" /\ e \in Endpoints /\ fill.after \in Nat
      /\ fill.untouched \subseteq Memories /\ fill.page \subseteq [mem : Memories, text : Texts]
      /\ \A m \in Memories : m \in Nat /\ row[m] \in Row /\ Shape(row[m])
      /\ UNCHANGED <<row, job, staged, answers, edits>>
  BY Types, IndexAssumption DEF ListPage, Fill, IndexInvariant, FillProgress
<1>1. /\ found # {} => page # {}
      /\ \A m \in found, n \in page : m < n => m \in page
      /\ page # {} => Max(page) \in page /\ \A m \in page : m <= Max(page)
  <2>1. found \in SUBSET Nat
    BY IndexAssumption
  <2>. HIDE DEF found
  <2>2. page = {m \in found : Cardinality({n \in found : n < m}) < BatchSize}
    BY DEF Page, found
  <2>. QED
    BY <2>1, <2>2, FirstRows
<1>2. page \subseteq found /\ found \subseteq Memories
  BY DEF Page
<1>3. fill' = IF page = {} THEN [fill EXCEPT !.at = "done"] ELSE Listed(page)
  BY DEF ListPage
<1>4. \A m \in Memories : Kept(row[m]) /\ m > fill.after /\ m \notin found => Found(m, e)
  BY DEF Missing, Found
<1>5. \A m \in found : m > fill.after /\ Kept(row[m])
  BY DEF Missing
<1>. HIDE DEF page, found
<1>6. ASSUME ~fill.failed, NEW m \in fill.untouched
      PROVE  Kept(row[m]) /\ (m <= fill.after => Found(m, e))
  BY <1>0, <1>6 DEF IndexInvariant, FillProgress, OnPage
<1>7. CASE page = {}
  <2>1. /\ fill' \in Fill /\ fill'.at = "done" /\ fill'.by = e /\ fill'.failed = fill.failed
        /\ fill'.untouched = fill.untouched
    BY <1>0, <1>3, <1>7 DEF Fill
  <2>2. ASSUME ~fill.failed, NEW m \in fill.untouched PROVE Kept(row[m]) /\ Found(m, e)
    <3>1. m \in Memories /\ m \in Nat /\ m \notin found
      BY <1>0, <1>1, <1>7
    <3>. QED
      BY <1>0, <1>4, <1>6, <2>2, <3>1
  <2>3. FillProgress'
    BY <1>0, <2>1, <2>2 DEF FillProgress, Found
  <2>. QED
    BY <1>0, <2>1, <2>3, FillOnly
<1>8. CASE page # {}
  <2>. DEFINE last == Max(page)
              rows == {[mem |-> m, text |-> row[m].text] : m \in page}
  <2>0. last \in page /\ last \in Memories /\ last \in Nat /\ last > fill.after
    BY <1>0, <1>1, <1>2, <1>5, <1>8
  <2>1. rows \subseteq [mem : Memories, text : Texts]
    BY <1>0, <1>2, <1>5, KeptText
  <2>2. fill' = [fill EXCEPT !.at = "call", !.after = last, !.page = rows]
    BY <1>3, <1>8 DEF Listed
  <2>3. ASSUME NEW m \in page
        PROVE  \E x \in rows : x.mem = m /\ x.text = row[m].text
    <3>. WITNESS [mem |-> m, text |-> row[m].text] \in rows
    <3>. QED
      OBVIOUS
  <2>. HIDE DEF rows, last
  <2>4. /\ fill' \in Fill /\ fill'.at = "call" /\ fill'.by = e /\ fill'.after = last
        /\ fill'.page = rows /\ fill'.failed = fill.failed /\ fill'.untouched = fill.untouched
    BY <1>0, <2>0, <2>1, <2>2 DEF Fill
  <2>5. ASSUME ~fill.failed, NEW m \in fill.untouched
        PROVE  Kept(row[m]) /\ (m <= last => Found(m, e) \/ m \in page)
    <3>1. m \in Memories /\ m \in Nat
      BY <1>0
    <3>2. ASSUME m <= last, m > fill.after, m \in found PROVE m \in page
      BY <1>1, <2>0, <3>1, <3>2
    <3>. QED
      BY <1>0, <1>4, <1>6, <2>5, <3>1, <3>2
  <2>6. FillProgress'
    BY <1>0, <2>3, <2>4, <2>5 DEF FillProgress, Found, OnPage
  <2>. QED
    BY <1>0, <2>4, <2>6, FillOnly
<1>. QED
  BY <1>7, <1>8

(* The provider answers for a whole page, or the page is counted as failed.   *)
LEMMA CallProviderStep ==
    ASSUME IndexInvariant, CallProvider
    PROVE  IndexInvariant'
<1>0. fill \in Fill /\ fill.at = "call" /\ fill.by \in Endpoints
      /\ UNCHANGED <<row, job, staged, answers, edits>>
  BY Types DEF CallProvider, IndexInvariant, FillProgress
<1>1. CASE fill' = [fill EXCEPT !.at = "store"]
  <2>1. /\ fill' \in Fill /\ fill'.at = "store" /\ fill'.by = fill.by /\ fill'.after = fill.after
        /\ fill'.page = fill.page /\ fill'.failed = fill.failed
        /\ fill'.untouched = fill.untouched
    BY <1>0, <1>1 DEF Fill
  <2>2. FillProgress'
    BY <1>0, <2>1 DEF IndexInvariant, FillProgress, Found, OnPage
  <2>. QED
    BY <1>0, <2>1, <2>2, FillOnly
<1>2. CASE fill' = [fill EXCEPT !.at = "list", !.page = {}, !.failed = TRUE]
  <2>1. fill' \in Fill /\ fill'.by = fill.by /\ fill'.failed
    BY <1>0, <1>2 DEF Fill
  <2>2. FillProgress'
    BY <1>0, <2>1 DEF FillProgress
  <2>. QED
    BY <1>0, <2>1, <2>2, FillOnly
<1>. QED
  BY <1>1, <1>2 DEF CallProvider

(* The page is stored row by row, each behind the comparison of its text.     *)
LEMMA StorePageStep ==
    ASSUME IndexInvariant, StorePage
    PROVE  IndexInvariant'
<1>. DEFINE e == fill.by
            stored == {x \in fill.page : Fresh(row[x.mem], Embedded(e, x.text))}
<1>0. /\ fill \in Fill /\ fill.at = "store" /\ e \in Endpoints
      /\ row \in [Memories -> Row] /\ fill.untouched \subseteq Memories
      /\ \A m \in Memories : row[m] \in Row /\ Shape(row[m])
      /\ staged \in Patch \cup {None} /\ edits \in 0 .. MaxEdits /\ job \in [Clients -> Job]
      /\ UNCHANGED <<job, staged, answers, edits>>
  BY Types DEF StorePage, Fill, IndexInvariant, FillProgress
<1>1. CASE fill' = [fill EXCEPT !.at = "list", !.page = {}, !.failed = TRUE] /\ UNCHANGED row
  <2>1. fill' \in Fill /\ fill'.by = fill.by /\ fill'.failed
    BY <1>0, <1>1 DEF Fill
  <2>2. FillProgress'
    BY <1>0, <2>1 DEF FillProgress
  <2>. QED
    BY <1>0, <1>1, <2>1, <2>2, FillOnly
<1>2. ASSUME row' = [m \in Memories |-> IF \E x \in stored : x.mem = m
                                        THEN Stored(row[m], Embedded(e, row[m].text)) ELSE row[m]],
             fill' = [fill EXCEPT !.at = "list", !.page = {},
                                  !.failed = fill.failed \/ stored # fill.page]
      PROVE  IndexInvariant'
  <2>1. \A x \in stored : Kept(row[x.mem]) /\ x.mem \in Memories
    BY <1>0 DEF Fresh, Fill
  <2>2. \A x \in fill.page \ stored : x.mem \in Memories =>
            ~(Kept(row[x.mem]) /\ x.text = row[x.mem].text)
    BY DEF Fresh, Embedded
  <2>. HIDE DEF stored
  <2>3. (stored # fill.page) \in BOOLEAN
    OBVIOUS
  <2>4. /\ fill' \in Fill /\ fill'.at = "list" /\ fill'.by = e /\ fill'.after = fill.after
        /\ fill'.untouched = fill.untouched
        /\ ~fill'.failed => ~fill.failed /\ stored = fill.page
    BY <1>0, <1>2, <2>3 DEF Fill
  <2>5. ASSUME NEW m \in Memories
        PROVE  /\ row'[m] \in Row /\ Shape(row'[m]) /\ row'[m].state = row[m].state
               /\ row'[m].key = row[m].key /\ row'[m].asked = row[m].asked
               /\ row'[m].text = row[m].text
               /\ \/ row'[m] = row[m] /\ ~\E x \in stored : x.mem = m
                  \/ row'[m].vector = Embedded(e, row[m].text)
                     /\ row'[m].signature = Embedded(e, row[m].text)
    <3>1. CASE \E x \in stored : x.mem = m
      <4>1. Kept(row[m]) /\ row[m].text \in Texts
        BY <1>0, <2>1, <3>1, KeptText
      <4>2. Embedded(e, row[m].text) \in Vector
        BY <1>0, <4>1 DEF Embedded, Vector
      <4>3. Fresh(row[m], Embedded(e, row[m].text))
        BY <4>1 DEF Fresh, Embedded
      <4>4. row'[m] = [row[m] EXCEPT !.vector = Embedded(e, row[m].text),
                                     !.signature = Embedded(e, row[m].text)]
        BY <1>2, <3>1, <4>3 DEF Stored
      <4>5. row[m] \in Row /\ Shape(row[m])
        BY <1>0
      <4>. DEFINE v == Embedded(e, row[m].text)
                  r == [row[m] EXCEPT !.vector = v, !.signature = v]
      <4>6. v \in Vector
        BY <4>2
      <4>. HIDE DEF v
      <4>7. /\ r \in Row /\ r.state = row[m].state /\ r.key = row[m].key
            /\ r.asked = row[m].asked /\ r.text = row[m].text
            /\ r.revisions = row[m].revisions /\ r.vector = v /\ r.signature = v
        BY <4>5, <4>6 DEF Row
      <4>8. row'[m] = r
        BY <4>4 DEF v
      <4>. HIDE DEF r
      <4>9. Kept(r) /\ Shape(r)
        BY <4>1, <4>5, <4>7 DEF Kept, Shape
      <4>. QED
        BY <4>7, <4>8, <4>9 DEF v
    <3>2. CASE ~\E x \in stored : x.mem = m
      BY <1>0, <1>2, <3>2
    <3>. QED
      BY <3>1, <3>2
  <2>6. row' \in [Memories -> Row]
    BY <1>2, <2>5
  <2>7. ASSUME ~fill'.failed, NEW m \in fill.untouched
        PROVE  Kept(row'[m]) /\ (m <= fill.after => Found(m, e)')
    <3>1. /\ m \in Memories /\ Kept(row[m])
          /\ m <= fill.after => Found(m, e) \/ \E x \in fill.page : x.mem = m
      BY <1>0, <2>4, <2>7 DEF IndexInvariant, FillProgress, OnPage
    <3>2. Kept(row'[m])
      BY <2>5, <3>1 DEF Kept
    <3>3. Embedded(e, row[m].text) # None
      BY <1>0, <3>1, KeptText, IndexAssumption DEF Embedded, Vector
    <3>4. CASE row'[m] = row[m] /\ ~\E x \in stored : x.mem = m
      BY <2>4, <2>7, <3>1, <3>2, <3>4 DEF Found
    <3>5. CASE /\ row'[m].vector = Embedded(e, row[m].text)
               /\ row'[m].signature = Embedded(e, row[m].text)
      BY <2>4, <2>5, <3>1, <3>2, <3>3, <3>5 DEF Found
    <3>. QED
      BY <2>5, <3>1, <3>2, <3>4, <3>5
  <2>8. FillProgress'
    BY <1>0, <2>4, <2>7 DEF FillProgress
  <2>9. ASSUME NEW m \in Memories, Kept(row'[m]), row'[m].vector # None
        PROVE  row'[m].vector.of = row'[m].text
    <3>1. CASE row'[m] = row[m]
      BY <2>9, <3>1 DEF IndexInvariant, VectorsMatchTexts
    <3>2. CASE row'[m].vector = Embedded(e, row[m].text)
      <4>1. Embedded(e, row[m].text).of = row[m].text
        BY DEF Embedded
      <4>. QED
        BY <2>5, <3>2, <4>1
    <3>. QED
      BY <2>5, <3>1, <3>2
  <2>10. JobsNamed'
    BY <1>0 DEF IndexInvariant, JobsNamed
  <2>. QED
    BY <1>0, <2>4, <2>5, <2>6, <2>8, <2>9, <2>10, RowsWritten DEF Kept
<1>. QED
  BY <1>1, <1>2 DEF StorePage

-----------------------------------------------------------------------------
(* Every step. *)

LEMMA InitIndex == Init => IndexInvariant
<1>. SUFFICES ASSUME Init PROVE IndexInvariant
  OBVIOUS
<1>1. Absent \in Row /\ Shape(Absent) /\ ~Kept(Absent)
  BY DEF Absent, Row, Shape, Kept
<1>2. NoJob \in Job /\ NoJob.at = "idle"
  BY DEF NoJob, Job
<1>3. NoFill \in Fill /\ NoFill.at = "idle"
  BY DEF NoFill, Fill
<1>4. TypeOK
  BY <1>1, <1>2, <1>3, IndexAssumption DEF Init, TypeOK, Shape
<1>. QED
  BY <1>1, <1>2, <1>3, <1>4 DEF Init, IndexInvariant, JobsNamed, KeysUnique, AnswersMatchRows,
                                VectorsMatchTexts, FillProgress

LEMMA NextIndex == IndexInvariant /\ [Next]_vars => IndexInvariant'
<1>. SUFFICES ASSUME IndexInvariant, [Next]_vars PROVE IndexInvariant'
  OBVIOUS
<1>1. CASE UNCHANGED vars
  BY <1>1 DEF vars, IndexInvariant, TypeOK, JobsNamed, KeysUnique, AnswersMatchRows,
              VectorsMatchTexts, FillProgress, Found, OnPage
<1>2. ASSUME NEW c \in Clients,
             \/ \E t \in Texts : \/ \E k \in Keys : Commit(c, k, t)
                                 \/ \E m \in Memories : Correct(c, m, t)
             \/ Reject(c) \/ Insert(c) \/ Conflict(c)
             \/ Embed(c) \/ Store(c) \/ Abandon(c)
      PROVE  IndexInvariant'
  BY <1>2, LocalSteps, InsertStep, CorrectStep, StoreStep
<1>3. ASSUME NEW m \in Memories, Redact(m) \/ Stage(m) PROVE IndexInvariant'
  BY <1>3, LocalSteps, RedactStep
<1>4. CASE Publish \/ Discard
  BY <1>4, LocalSteps, PublishStep
<1>5. CASE (\E e \in Endpoints : StartFill(e)) \/ ListPage \/ CallProvider \/ StorePage
           \/ AbandonFill
  BY <1>5, StartFillStep, ListPageStep, CallProviderStep, StorePageStep
<1>. QED
  BY <1>1, <1>2, <1>3, <1>4, <1>5 DEF Next

(* The inductive invariant: types, keys, answers, vectors and the cursor of   *)
(* the backfill.                                                             *)
THEOREM IndexHolds == Spec => []IndexInvariant
<1>1. Init => IndexInvariant
  BY InitIndex
<1>2. IndexInvariant /\ [Next]_vars => IndexInvariant'
  BY NextIndex
<1>. QED
  BY <1>1, <1>2, PTL DEF Spec

(* One key, one request, one memory, however commits race and repeat.        *)
THEOREM KeysHold == Spec => []KeyNamesOneMemory
<1>1. IndexInvariant => KeyNamesOneMemory
  <2>. SUFFICES ASSUME IndexInvariant, NEW a \in answers, NEW b \in answers,
                       a.key = b.key, Kept(row[a.mem]), Kept(row[b.mem])
                PROVE  a = b
    BY DEF KeyNamesOneMemory
  <2>1. a \in [key : Keys, text : Texts, mem : Memories]
        /\ b \in [key : Keys, text : Texts, mem : Memories]
    BY Types
  <2>2. a.mem = b.mem
    BY <2>1 DEF IndexInvariant, AnswersMatchRows, KeysUnique
  <2>3. a.text = b.text
    BY <2>2 DEF IndexInvariant, AnswersMatchRows
  <2>. QED
    BY <2>1, <2>2, <2>3
<1>. QED
  BY <1>1, IndexHolds, PTL

(* A row found by its vector is found by what it says now.                   *)
THEOREM FoundByTextHolds == Spec => []FoundByItsOwnText
<1>1. IndexInvariant => FoundByItsOwnText
  BY DEF IndexInvariant, VectorsMatchTexts, FoundByItsOwnText, Found
<1>. QED
  BY <1>1, IndexHolds, PTL

(* A backfill that reports no failure has left no untouched row behind.      *)
THEOREM ReportHolds == Spec => []ReportedRowsAreCurrent
<1>1. IndexInvariant => ReportedRowsAreCurrent
  BY DEF IndexInvariant, FillProgress, ReportedRowsAreCurrent, OnPage
<1>. QED
  BY <1>1, IndexHolds, PTL

(* No step writes anything into a redacted row.                              *)
LEMMA RedactedKept ==
    ASSUME IndexInvariant, [Next]_vars, NEW m \in Memories, row[m].state = "redacted"
    PROVE  row'[m] = row[m]
<1>0. row \in [Memories -> Row] /\ ~Kept(row[m]) /\ row[m].state # "absent"
  BY Types DEF Kept
<1>1. \A vector : Stored(row[m], vector) = row[m]
  BY <1>0 DEF Stored, Fresh
<1>2. ASSUME NEW c \in Clients, Insert(c) PROVE row'[m] = row[m]
  BY <1>0, <1>2 DEF Insert
<1>3. ASSUME NEW c \in Clients, NEW n \in Memories, NEW t \in Texts, Correct(c, n, t)
      PROVE  row'[m] = row[m]
  BY <1>0, <1>3 DEF Correct
<1>4. ASSUME NEW c \in Clients, Store(c) PROVE row'[m] = row[m]
  BY <1>0, <1>1, <1>4 DEF Store
<1>5. ASSUME NEW n \in Memories, Redact(n) PROVE row'[m] = row[m]
  BY <1>0, <1>5 DEF Redact
<1>6. CASE Publish
  BY <1>0, <1>6 DEF Publish, Published
<1>7. CASE StorePage
  BY <1>0, <1>1, <1>7 DEF StorePage
<1>8. CASE UNCHANGED row
  BY <1>8
<1>. QED
  BY <1>2, <1>3, <1>4, <1>5, <1>6, <1>7, <1>8
     DEF Next, vars, Commit, Reject, Conflict, Embed, Abandon, Stage, Discard, StartFill,
         ListPage, CallProvider, AbandonFill

(* What was redacted stays redacted, in every execution.                     *)
THEOREM RedactionHolds == Spec => RedactionIsFinal
<1>. DEFINE Untouched == \A m \in Memories : row[m].state = "redacted" => row'[m] = row[m]
<1>1. IndexInvariant /\ [Next]_vars => [Untouched]_row
  BY RedactedKept
<1>. QED
  BY <1>1, IndexHolds, PTL DEF Spec, RedactionIsFinal
=============================================================================
