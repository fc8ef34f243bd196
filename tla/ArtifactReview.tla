--------------------------- MODULE ArtifactReview ---------------------------
(***************************************************************************)
(* Generated artifacts and their review.  A project update is an artifact  *)
(* coupled to a candidate memory: a generator writes both, a reviewer      *)
(* decides both, and a decided artifact is answered again only when its    *)
(* creation events, its review revision and its decision event still prove *)
(* the decision.  Generators, direct or planned by the scheduler, overlap  *)
(* each other, reviews and redactions.  Other artifacts, reports, follow a *)
(* table of statuses and may be promoted to a memory.                      *)
(***************************************************************************)
EXTENDS Naturals, FiniteSets

CONSTANTS
    Artifacts,      \* ids of generated_artifacts
    Memories,       \* ids of memories
    Generators,     \* transactions that propose a project update
    Digests,        \* digests of a project's state and evidence
    None

ASSUME ReviewAssumption ==
    /\ None \notin Artifacts \cup Memories \cup Digests
    /\ Digests \cap (Artifacts \cup Memories) = {}

VARIABLES
    artifact,   \* the table generated_artifacts
    memory,     \* the table memories: the project updates and the promoted reports
    created,    \* the events project.update_candidate_created
    decided,    \* review revisions, each with the event its transaction appends
    promotions, \* the events artifact.promoted_to_memory
    gen,        \* the generators' transactions, before they commit
    disturbed   \* history: digests whose memory was redacted while one of their
                \* generators was at work, with the memories of these digests

vars == <<artifact, memory, created, decided, promotions, gen, disturbed>>

Actions == {"accept", "edit", "reject"}

\* A bug: a promoted report is put away like any other.
ReportMovesOn ==
    [draft |-> {"reviewed", "accepted", "rejected", "archived", "promoted_to_memory"},
     needs_review |-> {"reviewed", "accepted", "rejected", "archived", "promoted_to_memory"},
     reviewed |-> {"accepted", "rejected", "archived", "promoted_to_memory"},
     accepted |-> {"rejected", "archived", "promoted_to_memory"},
     rejected |-> {"archived"},
     archived |-> {},
     promoted_to_memory |-> {"archived"}]

\* What a report may become, by the status it has.
ReportMoves ==
    [draft |-> {"reviewed", "accepted", "rejected", "archived", "promoted_to_memory"},
     needs_review |-> {"reviewed", "accepted", "rejected", "archived", "promoted_to_memory"},
     reviewed |-> {"accepted", "rejected", "archived", "promoted_to_memory"},
     accepted |-> {"rejected", "archived", "promoted_to_memory"},
     rejected |-> {"archived"},
     archived |-> {},
     promoted_to_memory |-> {}]

Artifact == [kind : {"none", "update", "scan", "report"},
             status : {"none"} \cup DOMAIN ReportMoves, digest : Digests \cup {None},
             mem : Memories \cup {None}, action : Actions \cup {None}, redacted : BOOLEAN]

NoArtifact == [kind |-> "none", status |-> "none", digest |-> None, mem |-> None,
               action |-> None, redacted |-> FALSE]

\* "live" stands for active and every status near it, "retired" for superseded or
\* rejected later on; only redaction deletes.  The key names a digest or a report.
Memory == [state : {"absent", "candidate", "live", "rejected", "retired", "redacted"},
           key : Digests \cup Artifacts \cup {None}]

NoMemory == [state |-> "absent", key |-> None]

Creation == [artifact : Artifacts, mem : Memories, redacted : BOOLEAN]

\* The number is the revision's sequence_no within its memory.
Decision == [artifact : Artifacts, mem : Memories, action : Actions, redacted : BOOLEAN,
             number : Nat \ {0}]

\* The event of a promotion names the memory; redaction leaves it both ids.
Promotion == [artifact : Artifacts, mem : Memories]

Gen == [at : {"idle", "memory", "artifact", "commit"}, digest : Digests \cup {None},
        mem : Memories \cup {None}, newMem : BOOLEAN,
        art : Artifacts \cup {None}, newArt : BOOLEAN]

NoGen == [at |-> "idle", digest |-> None, mem |-> None, newMem |-> FALSE,
          art |-> None, newArt |-> FALSE]

Init ==
    /\ artifact = [a \in Artifacts |-> NoArtifact]
    /\ memory = [m \in Memories |-> NoMemory]
    /\ created = {}
    /\ decided = {}
    /\ promotions = {}
    /\ gen = [g \in Generators |-> NoGen]
    /\ disturbed = {}

\* Ids nobody has, in a table or in a transaction under way.
FreeArtifacts == {a \in Artifacts : artifact[a] = NoArtifact /\ \A g \in Generators : gen[g].art # a}
FreeMemories == {m \in Memories : memory[m] = NoMemory /\ \A g \in Generators : gen[g].mem # m}

-----------------------------------------------------------------------------
(* Proposing a project update *)

Found(d) == {a \in Artifacts : artifact[a].kind = "update" /\ artifact[a].digest = d}

\* A bug: each proposal gets a memory of its own.
UnkeyedMemory(d) == {}

Keyed(d) == {m \in Memories : memory[m].key = d}

\* An artifact of the digest is returned as it is; otherwise one is proposed.  What a
\* digest covers is open, so a generator may come upon any of them.
Begin(g, d) ==
    /\ gen[g].at = "idle"
    /\ Found(d) = {}
    /\ gen' = [gen EXCEPT ![g] = [NoGen EXCEPT !.at = "memory", !.digest = d]]
    /\ UNCHANGED <<artifact, memory, created, decided, promotions, disturbed>>

\* An insert waits for the transaction that has inserted the same key or digest.
Waits(g) == \E h \in Generators \ {g} :
                /\ gen[h].digest = gen[g].digest
                /\ \/ gen[g].at = "memory" /\ gen[h].newMem
                   \/ gen[g].at = "artifact" /\ gen[h].newArt

\* The scheduler's plan is made before its transaction: it may fix an artifact that
\* was written since, and leave the memory to the publication.
Plan(g) ==
    /\ gen[g].at = "memory" /\ gen[g].art = None
    /\ \E a \in Found(gen[g].digest) : gen' = [gen EXCEPT ![g].art = a]
    /\ UNCHANGED <<artifact, memory, created, decided, promotions, disturbed>>

\* The key is taken, or the memory that has it is read back; a plan that found it
\* earlier keeps it, whatever became of it.
UpsertMemory(g) ==
    /\ gen[g].at = "memory"
    /\ ~Waits(g)
    /\ \/ \E m \in Keyed(gen[g].digest) : gen' = [gen EXCEPT ![g].at = "artifact", ![g].mem = m]
       \/ \E m \in FreeMemories :
            /\ Keyed(gen[g].digest) = {}
            /\ gen' = [gen EXCEPT ![g].at = "artifact", ![g].mem = m, ![g].newMem = TRUE]
    /\ UNCHANGED <<artifact, memory, created, decided, promotions, disturbed>>

UpsertArtifact(g) ==
    /\ gen[g].at = "artifact"
    /\ ~Waits(g)
    /\ \/ gen[g].art # None /\ gen' = [gen EXCEPT ![g].at = "commit"]
       \/ \E a \in Found(gen[g].digest) :
            gen[g].art = None /\ gen' = [gen EXCEPT ![g].at = "commit", ![g].art = a]
       \/ \E a \in FreeArtifacts :
            /\ gen[g].art = None /\ Found(gen[g].digest) = {}
            /\ gen' = [gen EXCEPT ![g].at = "commit", ![g].art = a, ![g].newArt = TRUE]
    /\ UNCHANGED <<artifact, memory, created, decided, promotions, disturbed>>

\* The creation event is appended whoever wrote the two rows.
Commit(g) ==
    LET x == gen[g] IN
    /\ x.at = "commit"
    /\ memory' = IF x.newMem
                 THEN [memory EXCEPT ![x.mem] = [state |-> "candidate", key |-> x.digest]]
                 ELSE memory
    /\ artifact' = IF x.newArt
                   THEN [artifact EXCEPT ![x.art] =
                           [NoArtifact EXCEPT !.kind = "update", !.status = "needs_review",
                                              !.digest = x.digest, !.mem = x.mem]]
                   ELSE artifact
    /\ created' = created \cup {[artifact |-> x.art, mem |-> x.mem, redacted |-> FALSE]}
    /\ gen' = [gen EXCEPT ![g] = NoGen]
    /\ disturbed' = IF x.digest \in disturbed THEN disturbed \cup {x.mem} ELSE disturbed
    /\ UNCHANGED <<decided, promotions>>

\* A failure, a crash or a lost claim: everything is rolled back.
Abort(g) ==
    /\ gen[g].at # "idle"
    /\ gen' = [gen EXCEPT ![g] = NoGen]
    /\ UNCHANGED <<artifact, memory, created, decided, promotions, disturbed>>

-----------------------------------------------------------------------------
(* Deciding a project update: artifact and memory are locked *)

Undecided(a) == artifact[a].kind = "update" /\ artifact[a].status = "needs_review"
Terminal(a) == artifact[a].kind = "update" /\ artifact[a].status \in {"accepted", "rejected"}

\* The memory is a candidate, undeleted, and still linked by the digest.
Reviewable(a) ==
    LET m == artifact[a].mem IN
    memory[m].state = "candidate" /\ memory[m].key = artifact[a].digest

Decide(a, action) ==
    LET m == artifact[a].mem
        accepts == action # "reject"
        revisions == {r \in decided : r.mem = m}
    IN
    /\ Undecided(a) /\ Reviewable(a)
    /\ artifact' = [artifact EXCEPT ![a].status = IF accepts THEN "accepted" ELSE "rejected",
                                    ![a].action = action]
    /\ memory' = [memory EXCEPT ![m].state = IF accepts THEN "live" ELSE "rejected"]
    /\ decided' = decided \cup {[artifact |-> a, mem |-> m, action |-> action, redacted |-> FALSE,
                                 number |-> Cardinality(revisions) + 1]}
    /\ UNCHANGED <<created, promotions, gen, disturbed>>

\* A bug: the operations on memories take pending project updates too.
PendingToo(m) == memory[m].state \in {"candidate", "live"}

\* _require_project_update_decision_path: a pending memory is only reviewed.
OpenToLifecycle(m) == memory[m].state = "live"

\* The decided memory lives on (see MemoryLifecycle); a staged sweep may bring a
\* retired row back.
LiveOn(m, s) ==
    /\ \/ OpenToLifecycle(m) /\ s = "retired"
       \/ memory[m].state = "retired" /\ s = "live"
    /\ memory' = [memory EXCEPT ![m].state = s]
    /\ UNCHANGED <<artifact, created, decided, promotions, gen, disturbed>>

\* An artifact loses its digest and keeps the link to its memory.
Scrubbed(coupled) ==
    [a \in Artifacts |->
       IF a \in coupled THEN [artifact[a] EXCEPT !.digest = None, !.redacted = TRUE]
       ELSE artifact[a]]

\* redact_memory_flow: refused while the memory, or an artifact coupled to it, is
\* pending.  The memory loses its key; revisions and events keep only their links.
Redact(m) ==
    LET coupled == {a \in Artifacts : artifact[a].kind = "update" /\ artifact[a].mem = m} IN
    /\ memory[m].state \notin {"absent", "candidate"}
    /\ \A a \in coupled : Terminal(a)
    /\ artifact' = Scrubbed(coupled)
    /\ memory' = [memory EXCEPT ![m] = [state |-> "redacted", key |-> None]]
    /\ created' = {[e EXCEPT !.redacted = @ \/ e.mem = m \/ e.artifact \in coupled] : e \in created}
    /\ decided' = {[r EXCEPT !.redacted = @ \/ r.mem = m] : r \in decided}
    /\ disturbed' = IF memory[m].key \in {gen[g].digest : g \in Generators} \ {None}
                    THEN disturbed \cup {m, memory[m].key} ELSE disturbed
    /\ UNCHANGED <<promotions, gen>>

-----------------------------------------------------------------------------
(* Reports *)

\* The queue's worker drafts or reviews by the task's policy; scheduled reports need
\* review.
Report(a, status) ==
    /\ a \in FreeArtifacts
    /\ artifact' = [artifact EXCEPT ![a] = [NoArtifact EXCEPT !.kind = "report", !.status = status]]
    /\ UNCHANGED <<memory, created, decided, promotions, gen, disturbed>>

\* A scan that finds no project leaves an artifact of the type of project updates, so
\* it goes to their review, which refuses it: no action takes it further.
EmptyScan(a) ==
    /\ a \in FreeArtifacts
    /\ artifact' = [artifact EXCEPT ![a] =
                      [NoArtifact EXCEPT !.kind = "scan", !.status = "needs_review"]]
    /\ UNCHANGED <<memory, created, decided, promotions, gen, disturbed>>

\* review_artifact, under the artifact's lock; project updates are turned away.
ReviewReport(a, status) ==
    /\ artifact[a].kind = "report"
    /\ status \in ReportMoves[artifact[a].status] \ {"promoted_to_memory"}
    /\ artifact' = [artifact EXCEPT ![a].status = status]
    /\ UNCHANGED <<memory, created, decided, promotions, gen, disturbed>>

Promotable(a) ==
    /\ artifact[a].kind = "report"
    /\ "promoted_to_memory" \in ReportMoves[artifact[a].status]

\* The memory's key comes from the artifact's id; a key that is taken fails.
Promote(a, m) ==
    /\ Promotable(a)
    /\ m \in FreeMemories /\ Keyed(a) = {}
    /\ artifact' = [artifact EXCEPT ![a].status = "promoted_to_memory"]
    /\ memory' = [memory EXCEPT ![m] = [state |-> "live", key |-> a]]
    /\ promotions' = promotions \cup {[artifact |-> a, mem |-> m]}
    /\ UNCHANGED <<created, decided, gen, disturbed>>

-----------------------------------------------------------------------------
Next ==
    \/ \E g \in Generators :
         \/ \E d \in Digests : Begin(g, d)
         \/ Plan(g) \/ UpsertMemory(g) \/ UpsertArtifact(g) \/ Commit(g) \/ Abort(g)
    \/ \E a \in Artifacts :
         \/ \E action \in Actions : Decide(a, action)
         \/ \E status \in {"draft", "reviewed", "needs_review"} : Report(a, status)
         \/ EmptyScan(a)
         \/ \E status \in DOMAIN ReportMoves : ReviewReport(a, status)
         \/ \E m \in Memories : Promote(a, m)
    \/ \E m \in Memories :
         \/ \E s \in {"live", "retired"} : LiveOn(m, s)
         \/ Redact(m)

Spec == Init /\ [][Next]_vars

-----------------------------------------------------------------------------
TypeOK ==
    /\ artifact \in [Artifacts -> Artifact]
    /\ memory \in [Memories -> Memory]
    /\ created \subseteq Creation
    /\ decided \subseteq Decision
    /\ promotions \subseteq Promotion
    /\ gen \in [Generators -> Gen]
    /\ disturbed \subseteq Memories \cup Digests

\* What list_project_update_events finds for an artifact: by its id or its memory's.
Coupled(x, a) == x.artifact = a \/ x.mem = artifact[a].mem

CreationProven(a) ==
    /\ \E e \in created : Coupled(e, a)
    /\ \A e \in created :
         Coupled(e, a) => /\ e.artifact = a /\ e.mem = artifact[a].mem
                          /\ e.redacted = artifact[a].redacted

DecisionProven(a) ==
    \E r \in decided :
        /\ {x \in decided : Coupled(x, a)} = {r}
        /\ r.artifact = a /\ r.action = artifact[a].action /\ r.redacted = artifact[a].redacted
        /\ (r.action = "reject") = (artifact[a].status = "rejected")

\* No proposal of the artifact's evidence overlapped a redaction.
Undisturbed(a) == artifact[a].mem \notin disturbed /\ artifact[a].digest \notin disturbed

(* A decision stays provable (_validate_terminal_project_update), so a retry of *)
(* the review is answered and not refused for ever: however proposals of the    *)
(* same evidence overlapped and whatever became of the memory, exactly one      *)
(* decision is coupled to the artifact and to its candidate, and every creation *)
(* event names the two, in the form the artifact has.  The second half is not   *)
(* claimed where a proposal overlapped a redaction: its event comes late.       *)
DecisionsProvable ==
    \A a \in Artifacts :
        Terminal(a) => DecisionProven(a) /\ (Undisturbed(a) => CreationProven(a))

(* A pending project update can be decided: no other operation takes its memory *)
(* away, and no second proposal is left behind by the decision of the first,    *)
(* unless a proposal overlapped a redaction.                                    *)
PendingIsReviewable ==
    \A a \in Artifacts : Undecided(a) /\ Undisturbed(a) => Reviewable(a)

(* A promotion stands (ARTIFACT_STATUS_TRANSITIONS, _promote_artifact).  What   *)
(* has once become a trusted memory is never presented as anything else later,  *)
(* whatever reviewers ask for; the trusted memory keeps its source's key until  *)
(* it is redacted, and when the key is free again no second memory is made; a   *)
(* promoted report always has the event that answers a repeated promotion, and  *)
(* no memory with a report's key lacks it.                                      *)
PromotionStands ==
    /\ \A x \in promotions :
          /\ artifact[x.artifact].kind = "report"
          /\ artifact[x.artifact].status = "promoted_to_memory"
          /\ memory[x.mem].key = x.artifact \/ memory[x.mem].state = "redacted"
    /\ \A x, y \in promotions : x.artifact = y.artifact \/ x.mem = y.mem => x = y
    /\ \A a \in Artifacts :
          artifact[a].status = "promoted_to_memory" => \E x \in promotions : x.artifact = a
    /\ \A m \in Memories :
          memory[m].key \in Artifacts => [artifact |-> memory[m].key, mem |-> m] \in promotions

-----------------------------------------------------------------------------
(* What makes the properties inductive. *)

Update(a) == artifact[a].kind = "update"

\* A key and a digest name one row; a redacted update has lost its digest.
RowsCoupled ==
    /\ \A m, n \in Memories : memory[m].key = memory[n].key => m = n \/ memory[m].key = None
    /\ \A m \in Memories : memory[m].state \in {"absent", "redacted"} => memory[m].key = None
    /\ \A a, b \in Artifacts :
          Update(a) /\ Update(b) /\ artifact[a].digest = artifact[b].digest =>
              a = b \/ artifact[a].digest = None
    /\ \A a \in Artifacts : Update(a) =>
          /\ artifact[a].mem \in Memories /\ memory[artifact[a].mem].state # "absent"
          /\ artifact[a].redacted = (artifact[a].digest = None)
          /\ artifact[a].redacted => Terminal(a) /\ memory[artifact[a].mem].state = "redacted"

\* Where no redaction came between, an artifact and its memory carry one digest,
\* a decided memory has its artifact, and a memory has one artifact.
DigestsCoupled ==
    /\ \A a \in Artifacts : Update(a) /\ artifact[a].digest # None =>
          IF artifact[a].digest \in disturbed THEN artifact[a].mem \in disturbed
          ELSE /\ memory[artifact[a].mem].key = artifact[a].digest
               /\ Undecided(a) => memory[artifact[a].mem].state = "candidate"
    /\ \A m \in Memories :
          memory[m].key \in Digests \ disturbed /\ memory[m].state # "candidate" =>
              Found(memory[m].key) # {}
    /\ \A a, b \in Artifacts :
          Update(a) /\ Update(b) /\ artifact[a].mem = artifact[b].mem =>
              a = b \/ artifact[a].mem \in disturbed

\* One decision of each decided update, and of its memory.
DecisionsKept ==
    /\ \A r \in decided :
          /\ Terminal(r.artifact) /\ r.mem = artifact[r.artifact].mem
          /\ memory[r.mem].state \notin {"absent", "candidate"}
          /\ r.action = artifact[r.artifact].action
          /\ r.redacted = artifact[r.artifact].redacted
          /\ (r.action = "reject") = (artifact[r.artifact].status = "rejected")
    /\ \A r, s \in decided : r.mem = s.mem => r = s
    /\ \A a \in Artifacts : Terminal(a) => \E r \in decided : r.artifact = a

\* The creation events of an update, and the rows an event names.
CreationsKept ==
    /\ \A e \in created :
          /\ Update(e.artifact) /\ memory[e.mem].state # "absent"
          /\ e.mem \notin disturbed => /\ artifact[e.artifact].mem = e.mem
                                       /\ e.redacted = artifact[e.artifact].redacted
          /\ artifact[e.artifact].mem \notin disturbed => artifact[e.artifact].mem = e.mem
    /\ \A a \in Artifacts : Update(a) =>
          \E e \in created : e.artifact = a /\ e.mem = artifact[a].mem

\* A proposal under way: what it will insert is nobody else's, and what it has
\* found is still what it looked for, unless a redaction came between.
ProposalFits(x) ==
    /\ IF x.at = "idle" THEN x = NoGen ELSE x.digest \in Digests
    /\ x.at \in {"idle", "memory"} => x.mem = None /\ ~x.newMem
    /\ x.at \in {"artifact", "commit"} =>
          /\ x.mem \in Memories
          /\ IF x.newMem THEN memory[x.mem] = NoMemory /\ Keyed(x.digest) = {}
             ELSE /\ memory[x.mem].state # "absent"
                  /\ x.digest \notin disturbed => memory[x.mem].key = x.digest
    /\ x.at = "commit" => x.art # None
    /\ x.newArt => x.at = "commit" /\ artifact[x.art] = NoArtifact /\ Found(x.digest) = {}
    /\ x.art # None /\ ~x.newArt =>
          /\ Update(x.art)
          /\ IF x.digest \in disturbed THEN artifact[x.art].mem \in disturbed
             ELSE artifact[x.art].digest = x.digest

\* Two proposals never insert the same key, digest or id.
ProposalsApart ==
    \A g, h \in Generators :
        /\ gen[g].newMem /\ gen[h].newMem /\ gen[g].digest = gen[h].digest => g = h
        /\ gen[g].newArt /\ gen[h].newArt /\ gen[g].digest = gen[h].digest => g = h
        /\ gen[g].newMem /\ gen[g].mem = gen[h].mem => g = h
        /\ gen[g].newArt /\ gen[g].art = gen[h].art => g = h

ReviewInvariant ==
    /\ TypeOK
    /\ RowsCoupled /\ DigestsCoupled
    /\ DecisionsKept /\ CreationsKept
    /\ \A g \in Generators : ProposalFits(gen[g])
    /\ ProposalsApart
=============================================================================
