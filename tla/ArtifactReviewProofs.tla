------------------------ MODULE ArtifactReviewProofs ------------------------
(***************************************************************************)
(* Proposals, decisions, redactions and promotions, for every number of    *)
(* artifacts, memories, generators and digests, in every order.            *)
(***************************************************************************)
EXTENDS ArtifactReview, FiniteSetTheorems, TLAPS

(* The rows, one at a time.                                                  *)
LEMMA Types ==
    ASSUME ReviewInvariant
    PROVE  /\ artifact \in [Artifacts -> Artifact] /\ memory \in [Memories -> Memory]
           /\ created \subseteq Creation /\ decided \subseteq Decision
           /\ gen \in [Generators -> Gen] /\ disturbed \subseteq Memories \cup Digests
           /\ \A a \in Artifacts : artifact[a] \in Artifact
           /\ \A m \in Memories : memory[m] \in Memory
           /\ \A g \in Generators : gen[g] \in Gen
           /\ \A e \in created : e \in Creation /\ e.artifact \in Artifacts /\ e.mem \in Memories
           /\ \A d \in decided : d \in Decision /\ d.artifact \in Artifacts /\ d.mem \in Memories
           /\ promotions \subseteq Promotion
           /\ \A x \in promotions : x.artifact \in Artifacts /\ x.mem \in Memories
BY DEF ReviewInvariant, TypeOK, Creation, Decision, Promotion

(* Rows that are not there.                                                  *)
LEMMA Nothing ==
    /\ NoArtifact \in Artifact /\ NoArtifact.kind = "none"
    /\ NoMemory \in Memory /\ NoMemory.state = "absent" /\ NoMemory.key = None
    /\ NoGen \in Gen /\ NoGen.at = "idle" /\ NoGen.mem = None /\ NoGen.art = None
    /\ NoGen.newMem = FALSE /\ NoGen.newArt = FALSE
BY DEF NoArtifact, Artifact, NoMemory, Memory, NoGen, Gen

-----------------------------------------------------------------------------
(* Steps of a proposal before its commit. *)

(* What x may reserve beside the proposals of the others.                    *)
Apart(g, x) ==
    \A h \in Generators \ {g} :
        /\ x.newMem /\ gen[h].newMem => x.digest # gen[h].digest
        /\ x.newArt /\ gen[h].newArt => x.digest # gen[h].digest
        /\ x.newMem \/ gen[h].newMem => x.mem # gen[h].mem
        /\ x.newArt \/ gen[h].newArt => x.art # gen[h].art

LEMMA GenStep ==
    ASSUME ReviewInvariant, NEW g \in Generators, NEW x \in Gen, gen' = [gen EXCEPT ![g] = x],
           UNCHANGED <<artifact, memory, created, decided, promotions, disturbed>>,
           ProposalFits(x), Apart(g, x)
    PROVE  ReviewInvariant'
<1>1. gen'[g] = x /\ \A h \in Generators \ {g} : gen'[h] = gen[h]
  BY Types
<1>2. TypeOK'
  BY Types DEF TypeOK
<1>3. RowsCoupled' /\ DigestsCoupled'
  BY DEF ReviewInvariant, RowsCoupled, DigestsCoupled, Update, Terminal, Undecided, Found
<1>4. DecisionsKept' /\ CreationsKept'
  BY DEF ReviewInvariant, DecisionsKept, CreationsKept, Update, Terminal
<1>5. ASSUME NEW h \in Generators PROVE ProposalFits(gen[h])'
  <2>1. PICK y : y = gen'[h] /\ ProposalFits(y)
    BY <1>1 DEF ReviewInvariant
  <2>. QED
    BY <2>1 DEF ProposalFits, Update, Keyed, Found
<1>6. ProposalsApart'
  BY <1>1 DEF ReviewInvariant, ProposalsApart, Apart
<1>. QED
  BY <1>2, <1>3, <1>4, <1>5, <1>6 DEF ReviewInvariant

LEMMA AbortStep ==
    ASSUME ReviewInvariant, NEW g \in Generators, Abort(g)
    PROVE  ReviewInvariant'
<1>1. ProposalFits(NoGen)
  BY Nothing DEF ProposalFits
<1>2. ASSUME NEW h \in Generators \ {g}
      PROVE  /\ gen[h].newMem => gen[h].mem # None
             /\ gen[h].newArt => gen[h].art # None
  BY Types, ReviewAssumption DEF ReviewInvariant, ProposalFits, Gen
<1>3. Apart(g, NoGen)
  BY <1>2, Nothing DEF Apart
<1>. QED
  BY <1>1, <1>3, Nothing, GenStep DEF Abort

LEMMA BeginStep ==
    ASSUME ReviewInvariant, NEW g \in Generators, NEW d \in Digests, Begin(g, d)
    PROVE  ReviewInvariant'
<1>1. PICK x : x = [NoGen EXCEPT !.at = "memory", !.digest = d] /\ gen' = [gen EXCEPT ![g] = x]
  BY DEF Begin
<1>2. /\ x \in Gen /\ x.at = "memory" /\ x.digest = d /\ x.mem = None /\ x.art = None
      /\ x.newMem = FALSE /\ x.newArt = FALSE
  BY <1>1, Nothing DEF Gen, NoGen
<1>3. ProposalFits(x)
  BY <1>2 DEF ProposalFits
<1>4. ASSUME NEW h \in Generators \ {g}
      PROVE  /\ gen[h].newMem => gen[h].mem # None
             /\ gen[h].newArt => gen[h].art # None
  BY Types, ReviewAssumption DEF ReviewInvariant, ProposalFits, Gen
<1>5. Apart(g, x)
  BY <1>2, <1>4 DEF Apart
<1>. QED
  BY <1>1, <1>2, <1>3, <1>5, GenStep DEF Begin

(* What an open proposal has reserved.                                       *)
LEMMA Reserved ==
    ASSUME ReviewInvariant, NEW h \in Generators
    PROVE  /\ gen[h] \in Gen /\ ProposalFits(gen[h])
           /\ gen[h].newMem => gen[h].mem \in Memories /\ memory[gen[h].mem] = NoMemory
           /\ gen[h].newArt => gen[h].art \in Artifacts /\ artifact[gen[h].art] = NoArtifact
<1>1. gen[h] \in Gen /\ ProposalFits(gen[h])
  BY Types DEF ReviewInvariant
<1>2. gen[h].newMem => gen[h].at \in {"artifact", "commit"}
  BY <1>1 DEF ProposalFits, Gen
<1>3. gen[h].newArt => gen[h].art \in Artifacts
  BY <1>1 DEF ProposalFits, Gen
<1>. QED
  BY <1>1, <1>2, <1>3 DEF ProposalFits

LEMMA PlanStep ==
    ASSUME ReviewInvariant, NEW g \in Generators, Plan(g)
    PROVE  ReviewInvariant'
<1>1. PICK a \in Found(gen[g].digest) :
         gen' = [gen EXCEPT ![g] = [gen[g] EXCEPT !.art = a]]
  BY Types DEF Plan
<1>2. PICK x : x = [gen[g] EXCEPT !.art = a]
  OBVIOUS
<1>3. /\ gen[g] \in Gen /\ ProposalFits(gen[g]) /\ gen[g].at = "memory"
      /\ gen[g].newMem = FALSE /\ gen[g].newArt = FALSE /\ gen[g].digest \in Digests
  BY Reserved DEF Plan, ProposalFits, Gen
<1>4. a \in Artifacts /\ Update(a) /\ artifact[a].digest = gen[g].digest
  BY DEF Found, Update
<1>5. /\ x \in Gen /\ x.at = "memory" /\ x.digest = gen[g].digest /\ x.mem = gen[g].mem
      /\ x.art = a /\ x.newMem = FALSE /\ x.newArt = FALSE
  BY <1>2, <1>3, <1>4 DEF Gen
<1>6. gen[g].digest \in disturbed => artifact[a].mem \in disturbed
  BY <1>3, <1>4, ReviewAssumption DEF ReviewInvariant, DigestsCoupled
<1>7. ProposalFits(x)
  BY <1>3, <1>4, <1>5, <1>6 DEF ProposalFits
<1>8. Apart(g, x)
  <2>1. ASSUME NEW h \in Generators \ {g}
        PROVE  /\ gen[h].newMem => x.mem # gen[h].mem
               /\ gen[h].newArt => x.art # gen[h].art
    BY <1>3, <1>4, <1>5, Reserved, Nothing, ReviewAssumption DEF ProposalFits, Update
  <2>. QED
    BY <1>5, <2>1 DEF Apart
<1>. QED
  BY <1>1, <1>2, <1>5, <1>7, <1>8, GenStep DEF Plan

LEMMA UpsertMemoryStep ==
    ASSUME ReviewInvariant, NEW g \in Generators, UpsertMemory(g)
    PROVE  ReviewInvariant'
<1>1. /\ gen[g] \in Gen /\ ProposalFits(gen[g]) /\ gen[g].at = "memory"
      /\ gen[g].newMem = FALSE /\ gen[g].newArt = FALSE /\ gen[g].digest \in Digests
      /\ ~Waits(g)
  BY Reserved DEF UpsertMemory, ProposalFits, Gen
<1>2. \A h \in Generators \ {g} : gen[h].newMem => gen[h].digest # gen[g].digest
  BY <1>1 DEF Waits
<1>3. \A h \in Generators \ {g} : gen[h].newArt => gen[g].art # gen[h].art
  BY <1>1, Reserved, Nothing, ReviewAssumption DEF ProposalFits, Update
<1>4. CASE \E m \in Keyed(gen[g].digest) :
             gen' = [gen EXCEPT ![g].at = "artifact", ![g].mem = m]
  <2>1. PICK m \in Keyed(gen[g].digest) :
           gen' = [gen EXCEPT ![g] = [gen[g] EXCEPT !.at = "artifact", !.mem = m]]
    BY <1>4, Types
  <2>2. PICK x : x = [gen[g] EXCEPT !.at = "artifact", !.mem = m]
    OBVIOUS
  <2>3. m \in Memories /\ memory[m].key = gen[g].digest
    BY DEF Keyed
  <2>4. /\ x \in Gen /\ x.at = "artifact" /\ x.digest = gen[g].digest /\ x.mem = m
        /\ x.art = gen[g].art /\ x.newMem = FALSE /\ x.newArt = FALSE
    BY <1>1, <2>2, <2>3 DEF Gen
  <2>5. memory[m].state # "absent"
    BY <1>1, <2>3, ReviewAssumption DEF ReviewInvariant, RowsCoupled
  <2>6. ProposalFits(x)
    BY <1>1, <2>3, <2>4, <2>5 DEF ProposalFits
  <2>7. Apart(g, x)
    BY <1>3, <2>4, <2>5, Reserved, Nothing DEF Apart
  <2>. QED
    BY <2>1, <2>2, <2>4, <2>6, <2>7, GenStep DEF UpsertMemory
<1>5. CASE \E m \in FreeMemories :
             /\ Keyed(gen[g].digest) = {}
             /\ gen' = [gen EXCEPT ![g].at = "artifact", ![g].mem = m, ![g].newMem = TRUE]
  <2>1. PICK m \in FreeMemories :
           /\ Keyed(gen[g].digest) = {}
           /\ gen' = [gen EXCEPT ![g] = [gen[g] EXCEPT !.at = "artifact", !.mem = m, !.newMem = TRUE]]
    BY <1>5, Types
  <2>2. PICK x : x = [gen[g] EXCEPT !.at = "artifact", !.mem = m, !.newMem = TRUE]
    OBVIOUS
  <2>3. m \in Memories /\ memory[m] = NoMemory /\ \A h \in Generators : gen[h].mem # m
    BY DEF FreeMemories
  <2>4. /\ x \in Gen /\ x.at = "artifact" /\ x.digest = gen[g].digest /\ x.mem = m
        /\ x.art = gen[g].art /\ x.newMem = TRUE /\ x.newArt = FALSE
    BY <1>1, <2>2, <2>3 DEF Gen
  <2>5. ProposalFits(x)
    BY <1>1, <2>1, <2>3, <2>4 DEF ProposalFits
  <2>6. Apart(g, x)
    BY <1>2, <1>3, <2>3, <2>4 DEF Apart
  <2>. QED
    BY <2>1, <2>2, <2>4, <2>5, <2>6, GenStep DEF UpsertMemory
<1>. QED
  BY <1>4, <1>5 DEF UpsertMemory

LEMMA UpsertArtifactStep ==
    ASSUME ReviewInvariant, NEW g \in Generators, UpsertArtifact(g)
    PROVE  ReviewInvariant'
<1>1. /\ gen[g] \in Gen /\ ProposalFits(gen[g]) /\ gen[g].at = "artifact"
      /\ gen[g].newArt = FALSE /\ gen[g].digest \in Digests /\ ~Waits(g)
  BY Reserved DEF UpsertArtifact, ProposalFits, Gen
<1>2. \A h \in Generators \ {g} : gen[h].newArt => gen[h].digest # gen[g].digest
  BY <1>1 DEF Waits
<1>3. \A h \in Generators \ {g} :
         /\ gen[g].newMem /\ gen[h].newMem => gen[g].digest # gen[h].digest
         /\ gen[g].newMem \/ gen[h].newMem => gen[g].mem # gen[h].mem
  BY DEF ReviewInvariant, ProposalsApart
<1>4. CASE gen[g].art # None /\ gen' = [gen EXCEPT ![g].at = "commit"]
  <2>1. PICK x : x = [gen[g] EXCEPT !.at = "commit"] /\ gen' = [gen EXCEPT ![g] = x]
    BY <1>4, Types
  <2>2. /\ x \in Gen /\ x.at = "commit" /\ x.digest = gen[g].digest /\ x.mem = gen[g].mem
        /\ x.art = gen[g].art /\ x.newMem = gen[g].newMem /\ x.newArt = FALSE
    BY <1>1, <2>1 DEF Gen
  <2>3. ProposalFits(x)
    BY <1>1, <1>4, <2>2 DEF ProposalFits
  <2>4. \A h \in Generators \ {g} : gen[h].newArt => gen[g].art # gen[h].art
    BY <1>1, <1>4, Reserved, Nothing DEF ProposalFits, Update
  <2>5. Apart(g, x)
    BY <1>3, <2>2, <2>4 DEF Apart
  <2>. QED
    BY <2>1, <2>2, <2>3, <2>5, GenStep DEF UpsertArtifact
<1>5. CASE \E a \in Found(gen[g].digest) :
             gen[g].art = None /\ gen' = [gen EXCEPT ![g].at = "commit", ![g].art = a]
  <2>1. PICK a \in Found(gen[g].digest) :
           gen' = [gen EXCEPT ![g] = [gen[g] EXCEPT !.at = "commit", !.art = a]]
    BY <1>5, Types
  <2>2. PICK x : x = [gen[g] EXCEPT !.at = "commit", !.art = a]
    OBVIOUS
  <2>3. a \in Artifacts /\ Update(a) /\ artifact[a].digest = gen[g].digest
    BY DEF Found, Update
  <2>4. /\ x \in Gen /\ x.at = "commit" /\ x.digest = gen[g].digest /\ x.mem = gen[g].mem
        /\ x.art = a /\ x.newMem = gen[g].newMem /\ x.newArt = FALSE
    BY <1>1, <2>2, <2>3 DEF Gen
  <2>5. gen[g].digest \in disturbed => artifact[a].mem \in disturbed
    BY <1>1, <2>3, ReviewAssumption DEF ReviewInvariant, DigestsCoupled
  <2>6. ProposalFits(x)
    BY <1>1, <2>3, <2>4, <2>5, ReviewAssumption DEF ProposalFits
  <2>7. \A h \in Generators \ {g} : gen[h].newArt => a # gen[h].art
    BY <2>3, Reserved, Nothing DEF Update
  <2>8. Apart(g, x)
    BY <1>3, <2>4, <2>7 DEF Apart
  <2>. QED
    BY <2>1, <2>2, <2>4, <2>6, <2>8, GenStep DEF UpsertArtifact
<1>6. CASE \E a \in FreeArtifacts :
             /\ gen[g].art = None /\ Found(gen[g].digest) = {}
             /\ gen' = [gen EXCEPT ![g].at = "commit", ![g].art = a, ![g].newArt = TRUE]
  <2>1. PICK a \in FreeArtifacts :
           /\ Found(gen[g].digest) = {}
           /\ gen' = [gen EXCEPT ![g] = [gen[g] EXCEPT !.at = "commit", !.art = a, !.newArt = TRUE]]
    BY <1>6, Types
  <2>2. PICK x : x = [gen[g] EXCEPT !.at = "commit", !.art = a, !.newArt = TRUE]
    OBVIOUS
  <2>3. a \in Artifacts /\ artifact[a] = NoArtifact /\ \A h \in Generators : gen[h].art # a
    BY DEF FreeArtifacts
  <2>4. /\ x \in Gen /\ x.at = "commit" /\ x.digest = gen[g].digest /\ x.mem = gen[g].mem
        /\ x.art = a /\ x.newMem = gen[g].newMem /\ x.newArt = TRUE
    BY <1>1, <2>2, <2>3 DEF Gen
  <2>5. ProposalFits(x)
    BY <1>1, <2>1, <2>3, <2>4, ReviewAssumption DEF ProposalFits
  <2>6. Apart(g, x)
    BY <1>2, <1>3, <2>3, <2>4 DEF Apart
  <2>. QED
    BY <2>1, <2>2, <2>4, <2>5, <2>6, GenStep DEF UpsertArtifact
<1>. QED
  BY <1>4, <1>5, <1>6 DEF UpsertArtifact

-----------------------------------------------------------------------------
(* The commit of a proposal. *)

(* What it writes.                                                           *)
LEMMA Committing ==
    ASSUME ReviewInvariant, NEW g \in Generators, NEW x, x = gen[g], Commit(g)
    PROVE  /\ x \in Gen /\ ProposalFits(x) /\ x.at = "commit" /\ x.digest \in Digests
           /\ x.mem \in Memories /\ x.art \in Artifacts /\ x.digest # None
           /\ gen'[g] = NoGen /\ \A h \in Generators \ {g} : gen'[h] = gen[h]
           /\ disturbed' = IF x.digest \in disturbed THEN disturbed \cup {x.mem} ELSE disturbed
           /\ decided' = decided /\ promotions' = promotions
           /\ \A d \in Digests : d \in disturbed' <=> d \in disturbed
           /\ \E e \in Creation : /\ created' = created \cup {e} /\ e.artifact = x.art
                                  /\ e.mem = x.mem /\ e.redacted = FALSE
<1>1. /\ x \in Gen /\ ProposalFits(x) /\ x.at = "commit" /\ x.digest \in Digests
      /\ x.mem \in Memories /\ x.art \in Artifacts /\ x.digest # None
  BY Reserved, ReviewAssumption DEF Commit, ProposalFits, Gen
<1>2. /\ created' = created \cup {[artifact |-> x.art, mem |-> x.mem, redacted |-> FALSE]}
      /\ gen' = [gen EXCEPT ![g] = NoGen] /\ decided' = decided /\ promotions' = promotions
      /\ disturbed' = IF x.digest \in disturbed THEN disturbed \cup {x.mem} ELSE disturbed
  BY DEF Commit
<1>3. /\ [artifact |-> x.art, mem |-> x.mem, redacted |-> FALSE] \in Creation
      /\ gen'[g] = NoGen /\ \A h \in Generators \ {g} : gen'[h] = gen[h]
  BY <1>1, <1>2, Types DEF Creation
<1>4. \A d \in Digests : d \in disturbed' <=> d \in disturbed
  BY <1>1, <1>2, ReviewAssumption
<1>. QED
  BY <1>1, <1>2, <1>3, <1>4

(* What it makes of each row.                                                *)
LEMMA CommittedRows ==
    ASSUME ReviewInvariant, NEW g \in Generators, NEW x, x = gen[g], Commit(g)
    PROVE  /\ TypeOK'
           /\ \A m \in Memories : x.newMem /\ m = x.mem =>
                 memory'[m].state = "candidate" /\ memory'[m].key = x.digest
           /\ \A m \in Memories : ~(x.newMem /\ m = x.mem) => memory'[m] = memory[m]
           /\ \A a \in Artifacts : x.newArt /\ a = x.art =>
                 /\ artifact'[a].kind = "update" /\ artifact'[a].status = "needs_review"
                 /\ artifact'[a].digest = x.digest /\ artifact'[a].mem = x.mem
                 /\ artifact'[a].redacted = FALSE
           /\ \A a \in Artifacts : ~(x.newArt /\ a = x.art) => artifact'[a] = artifact[a]
<1>. DEFINE proposed == [NoArtifact EXCEPT !.kind = "update", !.status = "needs_review",
                                          !.digest = x.digest, !.mem = x.mem]
            candidate == [state |-> "candidate", key |-> x.digest]
<1>1. x \in Gen /\ x.digest \in Digests /\ x.mem \in Memories /\ x.art \in Artifacts
  BY Committing
<1>2. /\ memory' = IF x.newMem THEN [memory EXCEPT ![x.mem] = candidate] ELSE memory
      /\ artifact' = IF x.newArt THEN [artifact EXCEPT ![x.art] = proposed] ELSE artifact
  BY DEF Commit
<1>3. /\ proposed \in Artifact /\ proposed.kind = "update" /\ proposed.status = "needs_review"
      /\ proposed.digest = x.digest /\ proposed.mem = x.mem /\ proposed.redacted = FALSE
  BY <1>1 DEF Artifact, NoArtifact, ReportMoves
<1>4. candidate \in Memory /\ candidate.state = "candidate" /\ candidate.key = x.digest
  BY <1>1 DEF Memory
<1>. HIDE DEF proposed, candidate
<1>5. artifact' \in [Artifacts -> Artifact] /\ memory' \in [Memories -> Memory]
  BY <1>1, <1>2, <1>3, <1>4, Types
<1>6. /\ gen' = [gen EXCEPT ![g] = NoGen] /\ created' \subseteq Creation /\ decided' \subseteq Decision
      /\ disturbed' \subseteq Memories \cup Digests /\ promotions' \subseteq Promotion
  <2>1. gen' = [gen EXCEPT ![g] = NoGen]
    BY DEF Commit
  <2>2. created' \subseteq Creation
    <3>1. PICK e \in Creation : created' = created \cup {e}
      BY Committing
    <3>. QED
      BY <3>1, Types
  <2>3. disturbed' \subseteq Memories \cup Digests
    <3>1. disturbed' \subseteq disturbed \cup {x.mem}
      BY Committing
    <3>. QED
      BY <1>1, <3>1, Types
  <2>. QED
    BY <2>1, <2>2, <2>3, Committing, Types
<1>7. TypeOK'
  BY <1>5, <1>6, Types, Nothing DEF TypeOK
<1>8. /\ \A m \in Memories : memory'[m] = IF x.newMem /\ m = x.mem THEN candidate ELSE memory[m]
      /\ \A a \in Artifacts : artifact'[a] = IF x.newArt /\ a = x.art THEN proposed ELSE artifact[a]
  BY <1>1, <1>2, Types
<1>. QED
  BY <1>3, <1>4, <1>7, <1>8

(* A memory that is inserted has no update, no event and no decision.        *)
LEMMA CommitKeeps ==
    ASSUME ReviewInvariant, NEW g \in Generators, NEW x, x = gen[g], Commit(g)
    PROVE  /\ \A m \in Memories : memory[m].state # "absent" => memory'[m] = memory[m]
           /\ \A a \in Artifacts : artifact[a].kind # "none" => artifact'[a] = artifact[a]
           /\ \A m \in Memories : memory'[m].key # memory[m].key =>
                 x.newMem /\ m = x.mem /\ memory'[m].key = x.digest /\ memory[m] = NoMemory
           /\ \A d \in Digests : Found(d) # {} => Found(d)' # {}
           /\ \A a \in Artifacts : Update(a)' =>
                 \/ Update(a) /\ artifact'[a] = artifact[a]
                 \/ x.newArt /\ a = x.art /\ artifact'[a].digest = x.digest
                    /\ artifact'[a].mem = x.mem /\ artifact'[a].redacted = FALSE
                    /\ artifact'[a].status = "needs_review"
           /\ memory'[x.mem].state # "absent" /\ artifact'[x.art].kind = "update"
<1>0. ProposalFits(x) /\ x.at = "commit" /\ x.mem \in Memories /\ x.art \in Artifacts
  BY Committing
<1>7. /\ \A m \in Memories : x.newMem /\ m = x.mem =>
            memory'[m].state = "candidate" /\ memory'[m].key = x.digest
      /\ \A m \in Memories : ~(x.newMem /\ m = x.mem) => memory'[m] = memory[m]
      /\ \A a \in Artifacts : x.newArt /\ a = x.art =>
            /\ artifact'[a].kind = "update" /\ artifact'[a].status = "needs_review"
            /\ artifact'[a].digest = x.digest /\ artifact'[a].mem = x.mem
            /\ artifact'[a].redacted = FALSE
      /\ \A a \in Artifacts : ~(x.newArt /\ a = x.art) => artifact'[a] = artifact[a]
  BY CommittedRows
<1>1. /\ x.newMem => memory[x.mem] = NoMemory
      /\ ~x.newMem => memory[x.mem].state # "absent"
      /\ x.newArt => artifact[x.art] = NoArtifact
      /\ ~x.newArt => artifact[x.art].kind = "update"
  BY <1>0, ReviewAssumption DEF ProposalFits, Update
<1>2. /\ \A m \in Memories : memory[m].state # "absent" => memory'[m] = memory[m]
      /\ \A a \in Artifacts : artifact[a].kind # "none" => artifact'[a] = artifact[a]
  BY <1>0, <1>7, <1>1, Nothing
<1>3. \A m \in Memories : memory'[m].key # memory[m].key =>
         x.newMem /\ m = x.mem /\ memory'[m].key = x.digest /\ memory[m] = NoMemory
  BY <1>0, <1>7, <1>1
<1>4. \A d \in Digests : Found(d) # {} => Found(d)' # {}
  BY <1>2 DEF Found
<1>5. \A a \in Artifacts : Update(a)' =>
         \/ Update(a) /\ artifact'[a] = artifact[a]
         \/ x.newArt /\ a = x.art /\ artifact'[a].digest = x.digest
            /\ artifact'[a].mem = x.mem /\ artifact'[a].redacted = FALSE
            /\ artifact'[a].status = "needs_review"
  BY <1>0, <1>7 DEF Update
<1>6. memory'[x.mem].state # "absent" /\ artifact'[x.art].kind = "update"
  BY <1>0, <1>7, <1>1
<1>. QED
  BY <1>2, <1>3, <1>4, <1>5, <1>6

LEMMA CommitRows ==
    ASSUME ReviewInvariant, NEW g \in Generators, Commit(g)
    PROVE  RowsCoupled' /\ DigestsCoupled'
<1>1. PICK x : x = gen[g]
  OBVIOUS
<1>0. /\ ProposalFits(x) /\ x.at = "commit" /\ x.digest \in Digests
      /\ x.mem \in Memories /\ x.art \in Artifacts /\ x.digest # None
      /\ disturbed' = IF x.digest \in disturbed THEN disturbed \cup {x.mem} ELSE disturbed
      /\ \A d \in Digests : d \in disturbed' <=> d \in disturbed
  BY <1>1, Committing
<1>2. /\ \A m \in Memories : x.newMem /\ m = x.mem =>
                 memory'[m].state = "candidate" /\ memory'[m].key = x.digest
      /\ \A m \in Memories : ~(x.newMem /\ m = x.mem) => memory'[m] = memory[m]
  BY <1>1, CommittedRows
<1>3. /\ \A m \in Memories : memory[m].state # "absent" => memory'[m] = memory[m]
      /\ \A m \in Memories : memory'[m].key # memory[m].key =>
            x.newMem /\ m = x.mem /\ memory'[m].key = x.digest /\ memory[m] = NoMemory
      /\ \A a \in Artifacts : Update(a)' =>
            \/ Update(a) /\ artifact'[a] = artifact[a]
            \/ x.newArt /\ a = x.art /\ artifact'[a].digest = x.digest
               /\ artifact'[a].mem = x.mem /\ artifact'[a].redacted = FALSE
               /\ artifact'[a].status = "needs_review"
      /\ memory'[x.mem].state # "absent"
  BY <1>1, CommitKeeps
<1>4. /\ x.newMem => memory[x.mem] = NoMemory /\ Keyed(x.digest) = {}
      /\ ~x.newMem => /\ memory[x.mem].state # "absent"
                      /\ x.digest \notin disturbed => memory[x.mem].key = x.digest
      /\ x.newArt => Found(x.digest) = {}
  BY <1>0, <1>2 DEF ProposalFits
<1>5. ASSUME NEW m \in Memories, NEW n \in Memories, memory'[m].key = memory'[n].key
      PROVE  m = n \/ memory'[m].key = None
  BY <1>3, <1>4, <1>5 DEF ReviewInvariant, RowsCoupled, Keyed
<1>6. ASSUME NEW m \in Memories, memory'[m].state \in {"absent", "redacted"}
      PROVE  memory'[m].key = None
  BY <1>0, <1>2, <1>6 DEF ReviewInvariant, RowsCoupled
<1>7. ASSUME NEW a \in Artifacts, NEW b \in Artifacts, Update(a)', Update(b)',
             artifact'[a].digest = artifact'[b].digest
      PROVE  a = b \/ artifact'[a].digest = None
  BY <1>3, <1>4, <1>7 DEF ReviewInvariant, RowsCoupled, Found, Update
<1>8. ASSUME NEW a \in Artifacts, Update(a)'
      PROVE  /\ artifact'[a].mem \in Memories /\ memory'[artifact'[a].mem].state # "absent"
             /\ artifact'[a].redacted = (artifact'[a].digest = None)
             /\ artifact'[a].redacted =>
                   Terminal(a)' /\ memory'[artifact'[a].mem].state = "redacted"
  <2>1. CASE Update(a) /\ artifact'[a] = artifact[a]
    BY <1>3, <2>1 DEF ReviewInvariant, RowsCoupled, Terminal
  <2>2. CASE artifact'[a].digest = x.digest /\ artifact'[a].mem = x.mem
             /\ artifact'[a].redacted = FALSE
    BY <1>0, <1>2, <1>3, <2>2
  <2>. QED
    BY <1>3, <1>8, <2>1, <2>2
<1>9. RowsCoupled'
  BY <1>5, <1>6, <1>7, <1>8 DEF RowsCoupled
<1>10. ASSUME NEW a \in Artifacts, Update(a)', artifact'[a].digest # None
       PROVE  IF artifact'[a].digest \in disturbed' THEN artifact'[a].mem \in disturbed'
              ELSE /\ memory'[artifact'[a].mem].key = artifact'[a].digest
                   /\ Undecided(a)' => memory'[artifact'[a].mem].state = "candidate"
  <2>1. CASE Update(a) /\ artifact'[a] = artifact[a]
    <3>1. artifact[a].digest \in Digests /\ artifact[a].mem \in Memories
      BY <1>10, <2>1, Types DEF Artifact, ReviewInvariant, RowsCoupled
    <3>2. memory'[artifact[a].mem] = memory[artifact[a].mem]
      BY <1>3, <2>1 DEF ReviewInvariant, RowsCoupled
    <3>. QED
      BY <1>0, <1>2, <1>10, <2>1, <3>1, <3>2 DEF ReviewInvariant, DigestsCoupled, Undecided
  <2>2. CASE x.newArt /\ artifact'[a].digest = x.digest /\ artifact'[a].mem = x.mem
    <3>1. CASE x.digest \in disturbed
      BY <1>0, <1>2, <2>2, <3>1
    <3>2. CASE x.digest \notin disturbed /\ x.newMem
      BY <1>0, <1>2, <2>2, <3>2
    <3>3. CASE x.digest \notin disturbed /\ ~x.newMem
      <4>1. memory[x.mem].key = x.digest /\ memory'[x.mem] = memory[x.mem]
        BY <1>0, <1>2, <1>4, <3>3
      <4>2. memory[x.mem].state = "candidate"
        BY <1>0, <1>2, <1>4, <2>2, <3>3, <4>1 DEF ReviewInvariant, DigestsCoupled
      <4>. QED
        BY <1>0, <1>2, <2>2, <3>3, <4>1, <4>2
    <3>. QED
      BY <3>1, <3>2, <3>3
  <2>. QED
    BY <1>3, <1>10, <2>1, <2>2
<1>11. ASSUME NEW m \in Memories, memory'[m].key \in Digests \ disturbed',
              memory'[m].state # "candidate"
       PROVE  Found(memory[m].key)' # {}
  <2>1. memory'[m] = memory[m] /\ memory[m].key \in Digests \ disturbed
    BY <1>0, <1>2, <1>11
  <2>2. Found(memory[m].key) # {}
    BY <1>11, <2>1 DEF ReviewInvariant, DigestsCoupled
  <2>3. PICK d \in Digests : d = memory[m].key
    BY <2>1
  <2>4. Found(d)' # {}
    BY <1>1, <2>2, <2>3, CommitKeeps
  <2>. QED
    BY <2>1, <2>3, <2>4 DEF Found
<1>12. ASSUME NEW a \in Artifacts, NEW b \in Artifacts, Update(a)', Update(b)', a # b,
              artifact'[a].mem = artifact'[b].mem
       PROVE  artifact'[a].mem \in disturbed'
  <2>1. ASSUME NEW c \in Artifacts, Update(c), artifact[c].mem = x.mem, x.newArt
        PROVE  x.mem \in disturbed'
    <3>1. CASE x.digest \in disturbed
      BY <1>0, <1>2, <3>1
    <3>2. CASE x.digest \notin disturbed
      <4>1. ~x.newMem /\ memory[x.mem].key = x.digest
        BY <1>4, <2>1, <3>2, Nothing DEF ReviewInvariant, RowsCoupled
      <4>2. artifact[c].digest # None
        BY <1>0, <1>2, <2>1, <4>1, Types DEF ReviewInvariant, RowsCoupled, Artifact
      <4>3. artifact[c].digest # x.digest
        BY <1>4, <2>1 DEF Found, Update
      <4>. QED
        BY <1>0, <1>2, <2>1, <4>1, <4>2, <4>3 DEF ReviewInvariant, DigestsCoupled
    <3>. QED
      BY <3>1, <3>2
  <2>. QED
    BY <1>0, <1>2, <1>3, <1>12, <2>1 DEF ReviewInvariant, DigestsCoupled
<1>13. DigestsCoupled'
  BY <1>10, <1>11, <1>12 DEF DigestsCoupled
<1>. QED
  BY <1>9, <1>13

(* The event names the artifact and the memory it has, unless it comes late. *)
LEMMA CommitNames ==
    ASSUME ReviewInvariant, NEW g \in Generators, NEW x, x = gen[g], Commit(g)
    PROVE  /\ x.digest \notin disturbed =>
                 artifact'[x.art].mem = x.mem /\ artifact'[x.art].redacted = FALSE
           /\ x.digest \in disturbed =>
                 /\ x.mem \in disturbed'
                 /\ artifact'[x.art].mem \in disturbed' \/ artifact'[x.art].mem = x.mem
<1>1. /\ ProposalFits(x) /\ x.at = "commit" /\ x.digest \in Digests /\ x.digest # None
      /\ x.mem \in Memories /\ x.art \in Artifacts /\ x.art # None
      /\ disturbed' = IF x.digest \in disturbed THEN disturbed \cup {x.mem} ELSE disturbed
  BY Committing, ReviewAssumption
<1>2. CASE x.newArt
  <2>1. artifact'[x.art].mem = x.mem /\ artifact'[x.art].redacted = FALSE
    BY <1>1, <1>2, CommittedRows
  <2>. QED
    BY <1>1, <2>1
<1>3. CASE ~x.newArt
  <2>1. /\ Update(x.art) /\ artifact'[x.art] = artifact[x.art]
        /\ x.digest \in disturbed => artifact[x.art].mem \in disturbed
        /\ x.digest \notin disturbed => artifact[x.art].digest = x.digest
    BY <1>1, <1>3, CommittedRows DEF ProposalFits
  <2>2. ASSUME x.digest \notin disturbed
        PROVE  artifact[x.art].mem = x.mem /\ artifact[x.art].redacted = FALSE
    <3>1. artifact[x.art].mem \in Memories /\ memory[artifact[x.art].mem].key = x.digest
      BY <1>1, <2>1, <2>2 DEF ReviewInvariant, RowsCoupled, DigestsCoupled
    <3>2. memory[x.mem].key = x.digest
      BY <1>1, <2>2, <3>1 DEF ProposalFits, Keyed
    <3>3. artifact[x.art].mem = x.mem
      BY <1>1, <3>1, <3>2 DEF ReviewInvariant, RowsCoupled
    <3>4. artifact[x.art].redacted = FALSE
      BY <1>1, <2>1, <2>2 DEF ReviewInvariant, RowsCoupled
    <3>. QED
      BY <3>3, <3>4
  <2>. QED
    BY <1>1, <2>1, <2>2
<1>. QED
  BY <1>2, <1>3

LEMMA CommitRecords ==
    ASSUME ReviewInvariant, NEW g \in Generators, Commit(g)
    PROVE  DecisionsKept' /\ CreationsKept'
<1>1. PICK x : x = gen[g]
  OBVIOUS
<1>2. /\ \A m \in Memories : memory[m].state # "absent" => memory'[m] = memory[m]
      /\ \A a \in Artifacts : artifact[a].kind # "none" => artifact'[a] = artifact[a]
      /\ \A a \in Artifacts : Update(a)' =>
            \/ Update(a) /\ artifact'[a] = artifact[a]
            \/ x.newArt /\ a = x.art /\ artifact'[a].digest = x.digest
               /\ artifact'[a].mem = x.mem /\ artifact'[a].redacted = FALSE
               /\ artifact'[a].status = "needs_review"
      /\ memory'[x.mem].state # "absent" /\ artifact'[x.art].kind = "update"
  BY <1>1, CommitKeeps
<1>3. PICK e \in Creation : /\ created' = created \cup {e} /\ e.artifact = x.art
                            /\ e.mem = x.mem /\ e.redacted = FALSE
  BY <1>1, Committing
<1>4. /\ decided' = decided /\ disturbed \subseteq disturbed'
      /\ x.mem \in Memories /\ x.art \in Artifacts
      /\ x.digest \notin disturbed => disturbed' = disturbed
  BY <1>1, Committing
<1>5. DecisionsKept'
  <2>1. \A a \in Artifacts : Terminal(a)' <=> Terminal(a)
    BY <1>2 DEF Terminal, Update
  <2>2. \A a \in Artifacts : Terminal(a) => artifact'[a] = artifact[a]
    BY <1>2 DEF Terminal
  <2>. QED
    BY <1>2, <1>4, <2>1, <2>2, Types DEF ReviewInvariant, DecisionsKept
<1>6. CreationsKept'
  <2>1. ASSUME NEW f \in created
        PROVE  /\ Update(f.artifact)' /\ memory'[f.mem].state # "absent"
               /\ f.mem \notin disturbed' => /\ artifact'[f.artifact].mem = f.mem
                                             /\ f.redacted = artifact'[f.artifact].redacted
               /\ artifact'[f.artifact].mem \notin disturbed' => artifact'[f.artifact].mem = f.mem
    <3>1. /\ f.artifact \in Artifacts /\ f.mem \in Memories
          /\ Update(f.artifact) /\ memory[f.mem].state # "absent"
      BY Types DEF ReviewInvariant, CreationsKept
    <3>2. artifact'[f.artifact] = artifact[f.artifact] /\ memory'[f.mem] = memory[f.mem]
      BY <1>2, <3>1 DEF Update
    <3>. QED
      BY <1>4, <3>1, <3>2 DEF ReviewInvariant, CreationsKept, Update
  <2>2. /\ Update(e.artifact)' /\ memory'[e.mem].state # "absent"
        /\ e.mem \notin disturbed' => /\ artifact'[e.artifact].mem = e.mem
                                      /\ e.redacted = artifact'[e.artifact].redacted
        /\ artifact'[e.artifact].mem \notin disturbed' => artifact'[e.artifact].mem = e.mem
    <3>1. /\ x.digest \notin disturbed =>
                artifact'[x.art].mem = x.mem /\ artifact'[x.art].redacted = FALSE
          /\ x.digest \in disturbed =>
                /\ x.mem \in disturbed'
                /\ artifact'[x.art].mem \in disturbed' \/ artifact'[x.art].mem = x.mem
      BY <1>1, CommitNames
    <3>. QED
      BY <1>2, <1>3, <3>1 DEF Update
  <2>3. ASSUME NEW a \in Artifacts, Update(a)'
        PROVE  \E f \in created' : f.artifact = a /\ f.mem = artifact'[a].mem
    <3>1. CASE Update(a) /\ artifact'[a] = artifact[a]
      BY <1>3, <3>1 DEF ReviewInvariant, CreationsKept
    <3>2. CASE a = x.art /\ artifact'[a].mem = x.mem
      BY <1>3, <3>2
    <3>. QED
      BY <1>2, <2>3, <3>1, <3>2
  <2>. QED
    BY <1>3, <2>1, <2>2, <2>3 DEF CreationsKept
<1>. QED
  BY <1>5, <1>6

LEMMA CommitOthers ==
    ASSUME ReviewInvariant, NEW g \in Generators, Commit(g)
    PROVE  ProposalsApart' /\ \A h \in Generators : ProposalFits(gen[h])'
<1>1. PICK x : x = gen[g]
  OBVIOUS
<1>2. /\ gen'[g] = NoGen /\ \A h \in Generators \ {g} : gen'[h] = gen[h]
      /\ disturbed \subseteq disturbed'
      /\ \A d \in Digests : d \in disturbed' <=> d \in disturbed
  BY <1>1, Committing
<1>3. /\ \A m \in Memories : memory[m].state # "absent" => memory'[m] = memory[m]
      /\ \A a \in Artifacts : artifact[a].kind # "none" => artifact'[a] = artifact[a]
      /\ \A m \in Memories : memory'[m].key # memory[m].key =>
            x.newMem /\ m = x.mem /\ memory'[m].key = x.digest /\ memory[m] = NoMemory
      /\ \A a \in Artifacts : Update(a)' =>
            \/ Update(a) /\ artifact'[a] = artifact[a]
            \/ x.newArt /\ a = x.art /\ artifact'[a].digest = x.digest
               /\ artifact'[a].mem = x.mem /\ artifact'[a].redacted = FALSE
               /\ artifact'[a].status = "needs_review"
  BY <1>1, CommitKeeps
<1>4. /\ \A m \in Memories : ~(x.newMem /\ m = x.mem) => memory'[m] = memory[m]
      /\ \A a \in Artifacts : ~(x.newArt /\ a = x.art) => artifact'[a] = artifact[a]
  BY <1>1, CommittedRows
<1>5. ASSUME NEW h \in Generators, h # g PROVE ProposalFits(gen[h])'
  <2>1. PICK y : y = gen[h]
    OBVIOUS
  <2>2. /\ y \in Gen /\ ProposalFits(y)
        /\ y.newMem => y.mem \in Memories
        /\ y.newArt => y.art \in Artifacts
    BY <2>1, Reserved
  <2>3. /\ y.newMem /\ x.newMem => y.mem # x.mem /\ y.digest # x.digest
        /\ y.newArt /\ x.newArt => y.art # x.art /\ y.digest # x.digest
    BY <1>1, <1>5, <2>1 DEF ReviewInvariant, ProposalsApart
  <2>4. y.at # "idle" => y.digest \in Digests
    BY <2>2 DEF ProposalFits
  <2>5. y.at \in {"artifact", "commit"} =>
          /\ y.mem \in Memories
          /\ IF y.newMem THEN memory'[y.mem] = NoMemory /\ {m \in Memories : memory'[m].key = y.digest} = {}
             ELSE /\ memory'[y.mem].state # "absent"
                  /\ y.digest \notin disturbed' => memory'[y.mem].key = y.digest
    BY <1>2, <1>3, <1>4, <2>2, <2>3, <2>4 DEF ProposalFits, Keyed
  <2>6. y.newArt => /\ y.at = "commit" /\ artifact'[y.art] = NoArtifact
                    /\ {a \in Artifacts : artifact'[a].kind = "update"
                                          /\ artifact'[a].digest = y.digest} = {}
    BY <1>3, <1>4, <2>2, <2>3 DEF ProposalFits, Found, Update
  <2>7. y.art # None /\ ~y.newArt =>
          /\ artifact'[y.art].kind = "update"
          /\ IF y.digest \in disturbed' THEN artifact'[y.art].mem \in disturbed'
             ELSE artifact'[y.art].digest = y.digest
    <3>1. y.art # None => y.art \in Artifacts /\ y.digest \in Digests
      BY <2>2, Nothing DEF Gen, ProposalFits
    <3>. QED
      BY <1>2, <1>3, <2>2, <3>1 DEF ProposalFits, Update
  <2>8. ProposalFits(y)'
    BY <2>2, <2>5, <2>6, <2>7 DEF ProposalFits, Keyed, Found, Update
  <2>. QED
    BY <1>2, <1>5, <2>1, <2>8 DEF ProposalFits, Keyed, Found, Update
<1>6. ProposalFits(gen[g])'
  <2>1. PICK y : y = gen'[g] /\ y = NoGen
    BY <1>2
  <2>. QED
    BY <2>1, Nothing DEF ProposalFits, Keyed, Found, Update
<1>7. ProposalsApart'
  <2>1. ASSUME NEW h \in Generators
        PROVE  /\ gen[h].newMem => gen[h].mem # None
               /\ gen[h].newArt => gen[h].art # None
    BY Reserved, ReviewAssumption
  <2>. QED
    BY <1>2, <2>1, Nothing DEF ReviewInvariant, ProposalsApart
<1>. QED
  BY <1>5, <1>6, <1>7

LEMMA CommitStep ==
    ASSUME ReviewInvariant, NEW g \in Generators, Commit(g)
    PROVE  ReviewInvariant'
<1>1. PICK x : x = gen[g]
  OBVIOUS
<1>2. TypeOK'
  BY <1>1, CommittedRows
<1>. QED
  BY <1>2, CommitRows, CommitRecords, CommitOthers DEF ReviewInvariant

-----------------------------------------------------------------------------
(* Steps of reviewers, of the lifecycle and of reports. *)

(* What they owe to the proposals under way.                                 *)
LEMMA ProposalsStay ==
    ASSUME ReviewInvariant, gen' = gen, disturbed \subseteq disturbed',
           \A m \in Memories : memory[m].state # "absent" => memory'[m].state # "absent",
           \A m \in Memories : memory'[m].key = memory[m].key \/ memory'[m].key \notin Digests,
           \A h \in Generators : gen[h].newMem => memory'[gen[h].mem] = NoMemory,
           \A h \in Generators : gen[h].newArt => artifact'[gen[h].art] = NoArtifact,
           \A a \in Artifacts : /\ artifact'[a].kind = "update" <=> Update(a)
                                /\ Update(a) => /\ artifact'[a].mem = artifact[a].mem
                                                /\ artifact'[a].digest \in {artifact[a].digest, None},
           \A h \in Generators, m \in Memories :
               gen[h].digest \in Digests \ disturbed' /\ memory[m].key = gen[h].digest =>
                   memory'[m].key = gen[h].digest,
           \A h \in Generators, a \in Artifacts :
               gen[h].digest \in Digests /\ Update(a) /\ artifact[a].digest = gen[h].digest =>
                   IF gen[h].digest \in disturbed' THEN artifact[a].mem \in disturbed'
                   ELSE artifact'[a].digest = gen[h].digest
    PROVE  \A h \in Generators : ProposalFits(gen[h])'
<1>. SUFFICES ASSUME NEW h \in Generators PROVE ProposalFits(gen[h])'
  OBVIOUS
<1>1. PICK y : y = gen[h]
  OBVIOUS
<1>2. /\ y \in Gen /\ ProposalFits(y)
      /\ y.newMem => y.mem \in Memories
      /\ y.newArt => y.art \in Artifacts
  BY <1>1, Reserved
<1>3. y.at # "idle" => y.digest \in Digests /\ y.digest # None
  BY <1>2, ReviewAssumption DEF ProposalFits
<1>4. y.at \in {"artifact", "commit"} =>
        /\ y.mem \in Memories
        /\ IF y.newMem THEN memory'[y.mem] = NoMemory /\ {m \in Memories : memory'[m].key = y.digest} = {}
           ELSE /\ memory'[y.mem].state # "absent"
                /\ y.digest \notin disturbed' => memory'[y.mem].key = y.digest
  BY <1>1, <1>2, <1>3 DEF ProposalFits, Keyed
<1>5. y.newArt => /\ y.at = "commit" /\ artifact'[y.art] = NoArtifact
                  /\ {a \in Artifacts : artifact'[a].kind = "update"
                                        /\ artifact'[a].digest = y.digest} = {}
  BY <1>1, <1>2, <1>3 DEF ProposalFits, Found, Update
<1>6. y.art # None /\ ~y.newArt =>
        /\ artifact'[y.art].kind = "update"
        /\ IF y.digest \in disturbed' THEN artifact'[y.art].mem \in disturbed'
           ELSE artifact'[y.art].digest = y.digest
  <2>1. y.art # None => y.art \in Artifacts /\ y.digest \in Digests
    BY <1>2, Nothing DEF Gen, ProposalFits
  <2>. QED
    BY <1>1, <1>2, <2>1 DEF ProposalFits
<1>7. ProposalFits(y)'
  BY <1>2, <1>4, <1>5, <1>6 DEF ProposalFits, Keyed, Found, Update
<1>. QED
  BY <1>1, <1>7 DEF ProposalFits, Keyed, Found, Update

(* An update that is there has its digest, or is redacted for good.           *)
LEMMA UpdateRow ==
    ASSUME ReviewInvariant, NEW a \in Artifacts, Update(a)
    PROVE  /\ artifact[a] \in Artifact /\ artifact[a].mem \in Memories
           /\ artifact[a].redacted \in BOOLEAN
           /\ memory[artifact[a].mem].state # "absent" /\ artifact[a] # NoArtifact
           /\ Undecided(a) => artifact[a].digest \in Digests /\ artifact[a].redacted = FALSE
BY Types, Nothing DEF ReviewInvariant, RowsCoupled, Artifact, Undecided, Terminal, Update

LEMMA DecideStep ==
    ASSUME ReviewInvariant, NEW a \in Artifacts, NEW action \in Actions, Decide(a, action)
    PROVE  ReviewInvariant'
<1>. DEFINE m == artifact[a].mem
            status == IF action # "reject" THEN "accepted" ELSE "rejected"
            state == IF action # "reject" THEN "live" ELSE "rejected"
            row == [artifact[a] EXCEPT !.status = status, !.action = action]
            new == [memory[m] EXCEPT !.state = state]
            r == [artifact |-> a, mem |-> m, action |-> action, redacted |-> FALSE,
                  number |-> Cardinality({d \in decided : d.mem = m}) + 1]
<1>1. /\ Update(a) /\ artifact[a].status = "needs_review" /\ artifact[a] \in Artifact
      /\ m \in Memories /\ artifact[a].digest \in Digests /\ artifact[a].redacted = FALSE
      /\ memory[m].state = "candidate" /\ memory[m].key = artifact[a].digest
  BY UpdateRow DEF Decide, Undecided, Reviewable, Update
<1>2. /\ row \in Artifact /\ row.kind = "update" /\ row.status = status
      /\ row.digest = artifact[a].digest /\ row.mem = m /\ row.redacted = FALSE
      /\ row.action = action
  <2>1. status \in {"none"} \cup DOMAIN ReportMoves
    BY DEF ReportMoves
  <2>. HIDE DEF status, m
  <2>. QED
    BY <1>1, <2>1 DEF Artifact, Update, m
<1>3. new \in Memory /\ new.state = state /\ new.key = artifact[a].digest
  BY <1>1, Types DEF Memory
<1>4. /\ artifact' = [artifact EXCEPT ![a] = row] /\ memory' = [memory EXCEPT ![m] = new]
      /\ decided' = decided \cup {r} /\ UNCHANGED <<created, promotions, gen, disturbed>>
  BY Types DEF Decide
<1>5. \A d \in decided : d.mem # m /\ d.artifact # a
  BY <1>1, Types DEF ReviewInvariant, DecisionsKept, Terminal
<1>6. /\ r \in Decision /\ r.artifact = a /\ r.mem = m /\ r.action = action
      /\ r.redacted = FALSE
  <2>1. {d \in decided : d.mem = m} = {}
    BY <1>5
  <2>2. Cardinality({d \in decided : d.mem = m}) + 1 = 1
    BY <2>1, FS_EmptySet
  <2>. QED
    BY <1>1, <2>2 DEF Decision
<1>. HIDE DEF row, new, r
<1>7. /\ artifact'[a] = row /\ \A b \in Artifacts \ {a} : artifact'[b] = artifact[b]
      /\ memory'[m] = new /\ \A n \in Memories \ {m} : memory'[n] = memory[n]
  BY <1>1, <1>4, Types
<1>8. TypeOK'
  BY <1>1, <1>2, <1>3, <1>4, <1>6, Types DEF TypeOK
<1>. HIDE DEF m
<1>9. /\ \A b \in Artifacts : /\ artifact'[b].kind = artifact[b].kind
                              /\ artifact'[b].digest = artifact[b].digest
                              /\ artifact'[b].mem = artifact[b].mem
                              /\ artifact'[b].redacted = artifact[b].redacted
      /\ \A n \in Memories : memory'[n].key = memory[n].key
      /\ \A b \in Artifacts : Update(b)' <=> Update(b)
  BY <1>1, <1>2, <1>3, <1>7 DEF Update, m
<1>10. \A b \in Artifacts : Terminal(b)' <=> Terminal(b) \/ b = a
  BY <1>2, <1>7 DEF Terminal
<1>11. /\ memory'[m].state \notin {"absent", "candidate", "redacted"}
       /\ \A n \in Memories : memory[n].state # "absent" => memory'[n].state # "absent"
  BY <1>3, <1>7
<1>12. RowsCoupled'
  BY <1>1, <1>3, <1>7, <1>9, <1>10, <1>11 DEF ReviewInvariant, RowsCoupled
<1>13. DigestsCoupled'
  <2>1. ASSUME NEW b \in Artifacts, Update(b), artifact[b].digest # None,
               artifact[b].digest \notin disturbed
        PROVE  /\ memory'[artifact[b].mem].key = artifact[b].digest
               /\ Undecided(b)' => memory'[artifact[b].mem].state = "candidate"
    <3>1. artifact[b].mem \in Memories
      BY <2>1, UpdateRow
    <3>2. CASE b = a
      BY <1>1, <1>2, <1>3, <1>7, <3>2 DEF Undecided, m
    <3>3. CASE b # a
      <4>1. artifact[b].mem # m
        BY <1>1, <2>1, <3>3 DEF ReviewInvariant, RowsCoupled, DigestsCoupled, m
      <4>. QED
        BY <1>7, <2>1, <3>1, <3>3, <4>1 DEF ReviewInvariant, DigestsCoupled, Undecided
    <3>. QED
      BY <3>2, <3>3
  <2>2. ASSUME NEW n \in Memories, memory'[n].key \in Digests \ disturbed,
               memory'[n].state # "candidate"
        PROVE  \E b \in Artifacts : Update(b) /\ artifact[b].digest = memory'[n].key
    <3>1. CASE n = m
      BY <1>1, <1>3, <1>7, <3>1
    <3>2. CASE n # m
      BY <1>7, <2>2, <3>2 DEF ReviewInvariant, DigestsCoupled, Found, Update
    <3>. QED
      BY <3>1, <3>2
  <2>. QED
    BY <1>4, <1>9, <2>1, <2>2 DEF ReviewInvariant, DigestsCoupled, Found, Update
<1>14. DecisionsKept'
  <2>1. ASSUME NEW d \in decided
        PROVE  /\ Terminal(d.artifact)' /\ d.mem = artifact'[d.artifact].mem
               /\ memory'[d.mem].state \notin {"absent", "candidate"}
               /\ d.action = artifact'[d.artifact].action
               /\ d.redacted = artifact'[d.artifact].redacted
               /\ (d.action = "reject") = (artifact'[d.artifact].status = "rejected")
    BY <1>5, <1>7, <1>10, Types DEF ReviewInvariant, DecisionsKept
  <2>0. PICK n \in Memories, e \in Decision :
            /\ n = m /\ e = r /\ e.artifact = a /\ e.mem = n
            /\ e.action = action /\ e.redacted = FALSE
    BY <1>1, <1>6
  <2>2. /\ Terminal(e.artifact)' /\ e.mem = artifact'[e.artifact].mem
        /\ memory'[e.mem].state \notin {"absent", "candidate"}
        /\ e.action = artifact'[e.artifact].action
        /\ e.redacted = artifact'[e.artifact].redacted
        /\ (e.action = "reject") = (artifact'[e.artifact].status = "rejected")
    BY <1>2, <1>7, <1>10, <1>11, <2>0
  <2>3. \A x, y \in decided' : x.mem = y.mem => x = y
    BY <1>4, <1>5, <1>6 DEF ReviewInvariant, DecisionsKept
  <2>4. \A b \in Artifacts : Terminal(b)' => \E x \in decided' : x.artifact = b
    BY <1>4, <1>6, <1>10 DEF ReviewInvariant, DecisionsKept
  <2>. QED
    BY <1>4, <2>0, <2>1, <2>2, <2>3, <2>4 DEF DecisionsKept
<1>15. CreationsKept'
  BY <1>4, <1>9, <1>11, Types DEF ReviewInvariant, CreationsKept
<1>16. \A h \in Generators : ProposalFits(gen[h])'
  <2>1. \A h \in Generators : gen[h].newMem => memory'[gen[h].mem] = NoMemory
    BY <1>1, <1>7, Reserved, Nothing
  <2>2. \A h \in Generators : gen[h].newArt => artifact'[gen[h].art] = NoArtifact
    BY <1>1, <1>7, Reserved, Nothing DEF Update
  <2>3. \A h \in Generators, b \in Artifacts :
           gen[h].digest \in Digests /\ Update(b) /\ artifact[b].digest = gen[h].digest =>
               IF gen[h].digest \in disturbed' THEN artifact[b].mem \in disturbed'
               ELSE artifact'[b].digest = gen[h].digest
    BY <1>4, <1>9, ReviewAssumption DEF ReviewInvariant, DigestsCoupled
  <2>. QED
    BY <1>4, <1>9, <1>11, <2>1, <2>2, <2>3, ProposalsStay DEF Update
<1>17. ProposalsApart'
  BY <1>4 DEF ReviewInvariant, ProposalsApart
<1>. QED
  BY <1>8, <1>12, <1>13, <1>14, <1>15, <1>16, <1>17 DEF ReviewInvariant

LEMMA LiveOnStep ==
    ASSUME ReviewInvariant, NEW m \in Memories, NEW s \in {"live", "retired"}, LiveOn(m, s)
    PROVE  ReviewInvariant'
<1>1. /\ memory' = [memory EXCEPT ![m].state = s] /\ memory[m].state \in {"live", "retired"}
      /\ UNCHANGED <<artifact, created, decided, promotions, gen, disturbed>>
  BY DEF LiveOn, OpenToLifecycle
<1>2. TypeOK'
  BY <1>1, Types DEF TypeOK, Memory
<1>3. /\ \A n \in Memories : memory'[n].key = memory[n].key
      /\ memory'[m].state = s /\ \A n \in Memories \ {m} : memory'[n] = memory[n]
  BY <1>1, Types DEF Memory
<1>4. \A n \in Memories : /\ memory'[n].state = "absent" <=> memory[n].state = "absent"
                          /\ memory'[n].state = "candidate" <=> memory[n].state = "candidate"
                          /\ memory'[n].state = "redacted" <=> memory[n].state = "redacted"
  BY <1>1, <1>3
<1>5. RowsCoupled'
  BY <1>1, <1>3, <1>4 DEF ReviewInvariant, RowsCoupled, Update, Terminal
<1>6. DigestsCoupled'
  <2>1. ASSUME NEW a \in Artifacts, Update(a), artifact[a].digest # None,
               artifact[a].digest \notin disturbed
        PROVE  /\ memory'[artifact[a].mem].key = artifact[a].digest
               /\ Undecided(a) => memory'[artifact[a].mem].state = "candidate"
    BY <1>3, <1>4, <2>1, UpdateRow DEF ReviewInvariant, DigestsCoupled
  <2>2. ASSUME NEW n \in Memories, memory'[n].key \in Digests \ disturbed,
               memory'[n].state # "candidate"
        PROVE  \E b \in Artifacts : Update(b) /\ artifact[b].digest = memory'[n].key
    BY <1>3, <1>4, <2>2 DEF ReviewInvariant, DigestsCoupled, Found, Update
  <2>. QED
    BY <1>1, <2>1, <2>2 DEF ReviewInvariant, DigestsCoupled, Found, Update, Undecided
<1>7. DecisionsKept' /\ CreationsKept'
  BY <1>1, <1>4, Types DEF ReviewInvariant, DecisionsKept, CreationsKept, Update, Terminal
<1>8. \A h \in Generators : ProposalFits(gen[h])'
  <2>1. \A h \in Generators : gen[h].newMem => memory'[gen[h].mem] = NoMemory
    BY <1>1, <1>3, Reserved, Nothing
  <2>2. \A h \in Generators : gen[h].newArt => artifact'[gen[h].art] = NoArtifact
    BY <1>1, Reserved
  <2>3. \A h \in Generators, b \in Artifacts :
           gen[h].digest \in Digests /\ Update(b) /\ artifact[b].digest = gen[h].digest =>
               IF gen[h].digest \in disturbed' THEN artifact[b].mem \in disturbed'
               ELSE artifact'[b].digest = gen[h].digest
    BY <1>1, ReviewAssumption DEF ReviewInvariant, DigestsCoupled
  <2>. QED
    BY <1>1, <1>3, <1>4, <2>1, <2>2, <2>3, ProposalsStay DEF Update
<1>9. ProposalsApart'
  BY <1>1 DEF ReviewInvariant, ProposalsApart
<1>. QED
  BY <1>2, <1>5, <1>6, <1>7, <1>8, <1>9 DEF ReviewInvariant

(* What a redaction makes of each row.                                       *)
LEMMA RedactedRows ==
    ASSUME ReviewInvariant, NEW m \in Memories, Redact(m)
    PROVE  /\ TypeOK' /\ gen' = gen /\ disturbed \subseteq disturbed'
           /\ promotions' = promotions
           /\ memory[m].state \notin {"absent", "candidate"}
           /\ memory'[m].state = "redacted" /\ memory'[m].key = None
           /\ \A n \in Memories \ {m} : memory'[n] = memory[n]
           /\ \A a \in Artifacts : Update(a) /\ artifact[a].mem = m =>
                 /\ Terminal(a) /\ artifact'[a].digest = None /\ artifact'[a].redacted = TRUE
           /\ \A a \in Artifacts : ~(Update(a) /\ artifact[a].mem = m) => artifact'[a] = artifact[a]
           /\ \A a \in Artifacts : /\ artifact'[a].kind = artifact[a].kind
                                   /\ artifact'[a].status = artifact[a].status
                                   /\ artifact'[a].mem = artifact[a].mem
                                   /\ artifact'[a].action = artifact[a].action
           /\ \A x \in disturbed' : x \in disturbed \/ x = m \/ x = memory[m].key
           /\ \A h \in Generators : memory[m].key # None /\ gen[h].digest = memory[m].key =>
                 m \in disturbed' /\ memory[m].key \in disturbed'
           /\ memory[m].key \in disturbed' \ disturbed => m \in disturbed' \/ memory[m].key = m
<1>. DEFINE coupled == {a \in Artifacts : artifact[a].kind = "update" /\ artifact[a].mem = m}
            new == [state |-> "redacted", key |-> None]
            row(a) == [artifact[a] EXCEPT !.digest = None, !.redacted = TRUE]
<1>1. /\ memory[m].state \notin {"absent", "candidate"} /\ \A a \in coupled : Terminal(a)
      /\ artifact' = [a \in Artifacts |-> IF a \in coupled THEN row(a) ELSE artifact[a]]
      /\ memory' = [memory EXCEPT ![m] = new] /\ gen' = gen /\ promotions' = promotions
      /\ created' = {[e EXCEPT !.redacted = @ \/ e.mem = m \/ e.artifact \in coupled] : e \in created}
      /\ decided' = {[r EXCEPT !.redacted = @ \/ r.mem = m] : r \in decided}
      /\ disturbed' = IF memory[m].key \in {gen[g].digest : g \in Generators} \ {None}
                      THEN disturbed \cup {m, memory[m].key} ELSE disturbed
  BY DEF Redact, Scrubbed
<1>2. new \in Memory /\ new.state = "redacted" /\ new.key = None
  BY DEF Memory
<1>3. \A a \in Artifacts : row(a) \in Artifact /\ row(a).digest = None /\ row(a).redacted = TRUE
                            /\ row(a).kind = artifact[a].kind /\ row(a).status = artifact[a].status
                            /\ row(a).mem = artifact[a].mem /\ row(a).action = artifact[a].action
  BY Types DEF Artifact
<1>. HIDE DEF new, row
<1>4. created' \subseteq Creation
  <2>1. \A e \in created : [e EXCEPT !.redacted = @ \/ e.mem = m \/ e.artifact \in coupled] \in Creation
    BY Types DEF Creation
  <2>. QED
    BY <1>1, <2>1
<1>5. decided' \subseteq Decision
  <2>1. \A r \in decided : [r EXCEPT !.redacted = @ \/ r.mem = m] \in Decision
    BY Types DEF Decision
  <2>. QED
    BY <1>1, <2>1
<1>6. disturbed' \subseteq Memories \cup Digests
  BY <1>1, Types, Reserved DEF Gen
<1>7. artifact' \in [Artifacts -> Artifact] /\ memory' \in [Memories -> Memory]
  BY <1>1, <1>2, <1>3, Types
<1>8. TypeOK'
  BY <1>1, <1>4, <1>5, <1>6, <1>7, Types DEF TypeOK
<1>9. /\ memory'[m] = new /\ \A n \in Memories \ {m} : memory'[n] = memory[n]
      /\ \A a \in Artifacts : artifact'[a] = IF a \in coupled THEN row(a) ELSE artifact[a]
  BY <1>1, Types
<1>10. \A a \in Artifacts : a \in coupled <=> Update(a) /\ artifact[a].mem = m
  BY DEF Update
<1>. HIDE DEF coupled
<1>. QED
  BY <1>1, <1>2, <1>3, <1>8, <1>9, <1>10

(* The history marks a digest with its memory and its artifact.              *)
LEMMA RedactMarks ==
    ASSUME ReviewInvariant, NEW m \in Memories, Redact(m)
    PROVE  /\ \A d \in Digests : d \in disturbed' => d \in disturbed \/ d = memory[m].key
           /\ \A d \in Digests : d \in disturbed' \ disturbed => m \in disturbed'
           /\ \A n \in Memories : n \in disturbed' => n \in disturbed \/ n = m
           /\ \A a \in Artifacts : Update(a) /\ artifact[a].mem # m
                                  /\ artifact[a].digest \in Digests \ disturbed =>
                 artifact[a].digest \notin disturbed'
           /\ \A a \in Artifacts : Update(a) /\ artifact[a].mem = m
                                  /\ artifact[a].digest \in Digests \ disturbed =>
                 memory[m].key = artifact[a].digest
<1>1. \A d \in Digests : d \notin Memories
  BY ReviewAssumption
<1>2. \A d \in Digests : d \in disturbed' => d \in disturbed \/ d = memory[m].key
  BY <1>1, RedactedRows
<1>3. \A d \in Digests : d \in disturbed' \ disturbed => m \in disturbed'
  BY <1>1, <1>2, RedactedRows
<1>4. \A n \in Memories : n \in disturbed' => n \in disturbed \/ n = m
  <2>1. memory[m].key \in Digests \cup Artifacts \cup {None}
    BY Types DEF Memory
  <2>2. memory[m].key \in disturbed' \ disturbed => memory[m].key \in Digests
    BY Types DEF Redact, Gen
  <2>. QED
    BY <1>1, <2>1, <2>2, RedactedRows
<1>5. \A a \in Artifacts : Update(a) /\ artifact[a].digest \in Digests \ disturbed =>
         artifact[a].mem \in Memories /\ memory[artifact[a].mem].key = artifact[a].digest
                                     /\ artifact[a].digest # None
  BY UpdateRow, ReviewAssumption DEF ReviewInvariant, DigestsCoupled
<1>6. \A n \in Memories : memory[n].key = memory[m].key => n = m \/ memory[n].key = None
  BY DEF ReviewInvariant, RowsCoupled
<1>7. \A a \in Artifacts : Update(a) /\ artifact[a].mem # m
                          /\ artifact[a].digest \in Digests \ disturbed =>
         artifact[a].digest \notin disturbed'
  BY <1>2, <1>5, <1>6
<1>. QED
  BY <1>2, <1>3, <1>4, <1>5, <1>7

LEMMA RedactRows ==
    ASSUME ReviewInvariant, NEW m \in Memories, Redact(m)
    PROVE  RowsCoupled' /\ DigestsCoupled'
<1>1. /\ disturbed \subseteq disturbed' /\ memory[m].state \notin {"absent", "candidate"}
      /\ memory'[m].state = "redacted" /\ memory'[m].key = None
      /\ \A n \in Memories \ {m} : memory'[n] = memory[n]
      /\ \A a \in Artifacts : Update(a) /\ artifact[a].mem = m =>
            /\ Terminal(a) /\ artifact'[a].digest = None /\ artifact'[a].redacted = TRUE
      /\ \A a \in Artifacts : ~(Update(a) /\ artifact[a].mem = m) => artifact'[a] = artifact[a]
      /\ \A a \in Artifacts : /\ artifact'[a].kind = artifact[a].kind
                              /\ artifact'[a].status = artifact[a].status
                              /\ artifact'[a].mem = artifact[a].mem
  BY RedactedRows
<1>2. \A a \in Artifacts : (Update(a)' <=> Update(a)) /\ (Terminal(a)' <=> Terminal(a))
  BY <1>1 DEF Update, Terminal
<1>3. RowsCoupled'
  <2>1. ASSUME NEW n \in Memories, NEW o \in Memories, memory'[n].key = memory'[o].key
        PROVE  n = o \/ memory'[n].key = None
    BY <1>1, <2>1 DEF ReviewInvariant, RowsCoupled
  <2>2. ASSUME NEW n \in Memories, memory'[n].state \in {"absent", "redacted"}
        PROVE  memory'[n].key = None
    BY <1>1, <2>2 DEF ReviewInvariant, RowsCoupled
  <2>3. ASSUME NEW a \in Artifacts, NEW b \in Artifacts, Update(a), Update(b),
               artifact'[a].digest = artifact'[b].digest
        PROVE  a = b \/ artifact'[a].digest = None
    BY <1>1, <2>3 DEF ReviewInvariant, RowsCoupled
  <2>4. ASSUME NEW a \in Artifacts, Update(a)
        PROVE  /\ artifact'[a].mem \in Memories /\ memory'[artifact'[a].mem].state # "absent"
               /\ artifact'[a].redacted = (artifact'[a].digest = None)
               /\ artifact'[a].redacted =>
                     Terminal(a)' /\ memory'[artifact'[a].mem].state = "redacted"
    <3>1. artifact[a].mem \in Memories /\ artifact'[a].mem = artifact[a].mem
      BY <1>1, <2>4, UpdateRow
    <3>2. CASE artifact[a].mem = m
      BY <1>1, <1>2, <2>4, <3>1, <3>2
    <3>3. CASE artifact[a].mem # m
      BY <1>1, <1>2, <2>4, <3>1, <3>3 DEF ReviewInvariant, RowsCoupled
    <3>. QED
      BY <3>2, <3>3
  <2>. QED
    BY <1>2, <2>1, <2>2, <2>3, <2>4 DEF RowsCoupled
<1>4. DigestsCoupled'
  <2>1. ASSUME NEW a \in Artifacts, Update(a), artifact'[a].digest # None
        PROVE  IF artifact'[a].digest \in disturbed' THEN artifact'[a].mem \in disturbed'
               ELSE /\ memory'[artifact'[a].mem].key = artifact'[a].digest
                    /\ Undecided(a)' => memory'[artifact'[a].mem].state = "candidate"
    <3>1. artifact[a].mem # m /\ artifact'[a] = artifact[a] /\ artifact[a].mem \in Memories
      BY <1>1, <2>1, UpdateRow
    <3>2. artifact[a].digest \in Digests /\ memory'[artifact[a].mem] = memory[artifact[a].mem]
      BY <1>1, <2>1, <3>1, UpdateRow DEF Artifact
    <3>3. CASE artifact[a].digest \in disturbed
      BY <1>1, <2>1, <3>1, <3>3 DEF ReviewInvariant, DigestsCoupled
    <3>4. CASE artifact[a].digest \notin disturbed
      <4>1. artifact[a].digest \notin disturbed'
        BY <2>1, <3>1, <3>2, <3>4, RedactMarks
      <4>. QED
        BY <2>1, <3>1, <3>2, <3>4, <4>1 DEF ReviewInvariant, DigestsCoupled, Undecided
    <3>. QED
      BY <3>3, <3>4
  <2>2. ASSUME NEW n \in Memories, memory'[n].key \in Digests \ disturbed',
               memory'[n].state # "candidate"
        PROVE  \E b \in Artifacts : Update(b) /\ artifact'[b].digest = memory'[n].key
    <3>1. n # m /\ memory'[n] = memory[n] /\ memory[n].key \in Digests \ disturbed
      BY <1>1, <2>2, ReviewAssumption
    <3>2. PICK b \in Artifacts : Update(b) /\ artifact[b].digest = memory[n].key
      BY <2>2, <3>1 DEF ReviewInvariant, DigestsCoupled, Found, Update
    <3>3. artifact[b].mem \in Memories /\ memory[artifact[b].mem].key = memory[n].key
      BY <3>1, <3>2, UpdateRow, ReviewAssumption DEF ReviewInvariant, DigestsCoupled
    <3>4. artifact[b].mem = n
      BY <3>1, <3>3, ReviewAssumption DEF ReviewInvariant, RowsCoupled
    <3>. QED
      BY <1>1, <3>1, <3>2, <3>4
  <2>3. ASSUME NEW a \in Artifacts, NEW b \in Artifacts, Update(a), Update(b),
               artifact'[a].mem = artifact'[b].mem
        PROVE  a = b \/ artifact'[a].mem \in disturbed'
    BY <1>1, <2>3 DEF ReviewInvariant, DigestsCoupled
  <2>. QED
    BY <1>2, <2>1, <2>2, <2>3 DEF DigestsCoupled, Found, Update
<1>. QED
  BY <1>3, <1>4

LEMMA RedactRecords ==
    ASSUME ReviewInvariant, NEW m \in Memories, Redact(m)
    PROVE  DecisionsKept' /\ CreationsKept'
<1>1. /\ disturbed \subseteq disturbed' /\ memory[m].state \notin {"absent", "candidate"}
      /\ memory'[m].state = "redacted"
      /\ \A n \in Memories \ {m} : memory'[n] = memory[n]
      /\ \A a \in Artifacts : Update(a) /\ artifact[a].mem = m => artifact'[a].redacted = TRUE
      /\ \A a \in Artifacts : ~(Update(a) /\ artifact[a].mem = m) => artifact'[a] = artifact[a]
      /\ \A a \in Artifacts : /\ artifact'[a].kind = artifact[a].kind
                              /\ artifact'[a].status = artifact[a].status
                              /\ artifact'[a].mem = artifact[a].mem
                              /\ artifact'[a].action = artifact[a].action
  BY RedactedRows
<1>2. \A a \in Artifacts : (Update(a)' <=> Update(a)) /\ (Terminal(a)' <=> Terminal(a))
  BY <1>1 DEF Update, Terminal
<1>3. DecisionsKept'
  <2>. DEFINE F(r) == [r EXCEPT !.redacted = @ \/ r.mem = m]
  <2>1. decided' = {F(r) : r \in decided}
    BY DEF Redact
  <2>2. \A r \in decided : /\ F(r).artifact = r.artifact /\ F(r).mem = r.mem
                           /\ F(r).action = r.action
                           /\ F(r).redacted = (r.redacted \/ r.mem = m)
    BY Types DEF Decision
  <2>. HIDE DEF F
  <2>3. ASSUME NEW r \in decided
        PROVE  /\ Terminal(F(r).artifact)' /\ F(r).mem = artifact'[F(r).artifact].mem
               /\ memory'[F(r).mem].state \notin {"absent", "candidate"}
               /\ F(r).action = artifact'[F(r).artifact].action
               /\ F(r).redacted = artifact'[F(r).artifact].redacted
               /\ (F(r).action = "reject") = (artifact'[F(r).artifact].status = "rejected")
    <3>1. /\ r.artifact \in Artifacts /\ r.mem \in Memories /\ r.redacted \in BOOLEAN
      BY Types DEF Decision
    <3>2. /\ Terminal(r.artifact) /\ r.mem = artifact[r.artifact].mem
          /\ memory[r.mem].state \notin {"absent", "candidate"}
          /\ r.action = artifact[r.artifact].action
          /\ r.redacted = artifact[r.artifact].redacted
          /\ (r.action = "reject") = (artifact[r.artifact].status = "rejected")
      BY DEF ReviewInvariant, DecisionsKept
    <3>3. Terminal(r.artifact)' /\ Update(r.artifact)
      BY <1>2, <3>1, <3>2 DEF Terminal, Update
    <3>4. F(r).redacted = artifact'[r.artifact].redacted
      <4>1. CASE r.mem = m
        BY <1>1, <2>2, <3>1, <3>2, <3>3, <4>1
      <4>2. CASE r.mem # m
        BY <1>1, <2>2, <3>1, <3>2, <4>2
      <4>. QED
        BY <4>1, <4>2
    <3>5. memory'[r.mem].state \notin {"absent", "candidate"}
      BY <1>1, <3>1, <3>2
    <3>. QED
      BY <1>1, <2>2, <3>1, <3>2, <3>3, <3>4, <3>5
  <2>4. \A r \in decided' :
          /\ Terminal(r.artifact)' /\ r.mem = artifact'[r.artifact].mem
          /\ memory'[r.mem].state \notin {"absent", "candidate"}
          /\ r.action = artifact'[r.artifact].action
          /\ r.redacted = artifact'[r.artifact].redacted
          /\ (r.action = "reject") = (artifact'[r.artifact].status = "rejected")
    BY <2>1, <2>3
  <2>5. \A r, s \in decided' : r.mem = s.mem => r = s
    BY <2>1, <2>2 DEF ReviewInvariant, DecisionsKept
  <2>6. \A a \in Artifacts : Terminal(a)' => \E r \in decided' : r.artifact = a
    BY <1>2, <2>1, <2>2 DEF ReviewInvariant, DecisionsKept
  <2>. QED
    BY <2>4, <2>5, <2>6 DEF DecisionsKept
<1>4. CreationsKept'
  <2>0. PICK coupled : coupled = {a \in Artifacts : artifact[a].kind = "update" /\ artifact[a].mem = m}
    OBVIOUS
  <2>. DEFINE F(e) == [e EXCEPT !.redacted = @ \/ e.mem = m \/ e.artifact \in coupled]
  <2>1. created' = {F(e) : e \in created}
    BY <2>0 DEF Redact
  <2>2. \A e \in created : /\ F(e).artifact = e.artifact /\ F(e).mem = e.mem
                           /\ F(e).redacted = (e.redacted \/ e.mem = m \/ e.artifact \in coupled)
    BY Types DEF Creation
  <2>3. \A a \in Artifacts : a \in coupled <=> Update(a) /\ artifact[a].mem = m
    BY <2>0 DEF Update
  <2>. HIDE DEF F
  <2>4. ASSUME NEW e \in created
        PROVE  /\ Update(F(e).artifact)' /\ memory'[F(e).mem].state # "absent"
               /\ F(e).mem \notin disturbed' =>
                     /\ artifact'[F(e).artifact].mem = F(e).mem
                     /\ F(e).redacted = artifact'[F(e).artifact].redacted
               /\ artifact'[F(e).artifact].mem \notin disturbed' =>
                     artifact'[F(e).artifact].mem = F(e).mem
    <3>1. /\ e.artifact \in Artifacts /\ e.mem \in Memories /\ e.redacted \in BOOLEAN
      BY Types DEF Creation
    <3>2. /\ Update(e.artifact) /\ memory[e.mem].state # "absent"
          /\ e.mem \notin disturbed => /\ artifact[e.artifact].mem = e.mem
                                       /\ e.redacted = artifact[e.artifact].redacted
          /\ artifact[e.artifact].mem \notin disturbed => artifact[e.artifact].mem = e.mem
      BY DEF ReviewInvariant, CreationsKept
    <3>3. Update(e.artifact)' /\ memory'[e.mem].state # "absent"
      BY <1>1, <1>2, <3>1, <3>2
    <3>4. ASSUME e.mem \notin disturbed'
          PROVE  artifact'[e.artifact].mem = e.mem /\ F(e).redacted = artifact'[e.artifact].redacted
      <4>1. /\ artifact[e.artifact].mem = e.mem /\ artifact'[e.artifact].mem = e.mem
            /\ e.redacted = artifact[e.artifact].redacted
        BY <1>1, <3>1, <3>2, <3>4
      <4>2. CASE e.mem = m
        BY <1>1, <2>2, <3>1, <3>2, <4>1, <4>2
      <4>3. CASE e.mem # m
        BY <1>1, <2>2, <2>3, <3>1, <4>1, <4>3
      <4>. QED
        BY <4>1, <4>2, <4>3
    <3>. QED
      BY <1>1, <2>2, <3>1, <3>2, <3>3, <3>4
  <2>5. ASSUME NEW a \in Artifacts, Update(a)
        PROVE  \E e \in created' : e.artifact = a /\ e.mem = artifact'[a].mem
    <3>1. PICK e \in created : e.artifact = a /\ e.mem = artifact[a].mem
      BY <2>5 DEF ReviewInvariant, CreationsKept
    <3>. QED
      BY <1>1, <2>1, <2>2, <3>1
  <2>6. \A f \in created' :
          /\ Update(f.artifact)' /\ memory'[f.mem].state # "absent"
          /\ f.mem \notin disturbed' => /\ artifact'[f.artifact].mem = f.mem
                                        /\ f.redacted = artifact'[f.artifact].redacted
          /\ artifact'[f.artifact].mem \notin disturbed' => artifact'[f.artifact].mem = f.mem
    BY <2>1, <2>4
  <2>. QED
    BY <1>2, <2>5, <2>6 DEF CreationsKept
<1>. QED
  BY <1>3, <1>4

LEMMA RedactStep ==
    ASSUME ReviewInvariant, NEW m \in Memories, Redact(m)
    PROVE  ReviewInvariant'
<1>1. /\ TypeOK' /\ gen' = gen /\ disturbed \subseteq disturbed'
      /\ memory[m].state \notin {"absent", "candidate"}
      /\ memory'[m].state = "redacted" /\ memory'[m].key = None
      /\ \A n \in Memories \ {m} : memory'[n] = memory[n]
      /\ \A a \in Artifacts : Update(a) /\ artifact[a].mem = m => artifact'[a].digest = None
      /\ \A a \in Artifacts : ~(Update(a) /\ artifact[a].mem = m) => artifact'[a] = artifact[a]
      /\ \A a \in Artifacts : /\ artifact'[a].kind = artifact[a].kind
                              /\ artifact'[a].mem = artifact[a].mem
      /\ \A h \in Generators : memory[m].key # None /\ gen[h].digest = memory[m].key =>
            m \in disturbed' /\ memory[m].key \in disturbed'
  BY RedactedRows
<1>2. \A h \in Generators : gen[h].newMem => memory'[gen[h].mem] = NoMemory
  BY <1>1, Reserved, Nothing
<1>3. \A h \in Generators : gen[h].newArt => artifact'[gen[h].art] = NoArtifact
  BY <1>1, Reserved, Nothing DEF Update
<1>4. \A h \in Generators, n \in Memories :
         gen[h].digest \in Digests \ disturbed' /\ memory[n].key = gen[h].digest =>
             memory'[n].key = gen[h].digest
  BY <1>1, ReviewAssumption
<1>5. ASSUME NEW h \in Generators, NEW a \in Artifacts, gen[h].digest \in Digests,
             Update(a), artifact[a].digest = gen[h].digest
      PROVE  IF gen[h].digest \in disturbed' THEN artifact[a].mem \in disturbed'
             ELSE artifact'[a].digest = gen[h].digest
  <2>1. gen[h].digest # None
    BY <1>5, ReviewAssumption
  <2>2. CASE gen[h].digest \in disturbed
    BY <1>1, <1>5, <2>1, <2>2 DEF ReviewInvariant, DigestsCoupled
  <2>3. CASE gen[h].digest \notin disturbed /\ artifact[a].mem = m
    BY <1>1, <1>5, <2>1, <2>3 DEF ReviewInvariant, DigestsCoupled
  <2>4. CASE gen[h].digest \notin disturbed /\ artifact[a].mem # m
    BY <1>1, <1>5, <2>4, RedactMarks
  <2>. QED
    BY <2>2, <2>3, <2>4
<1>6. \A h \in Generators : ProposalFits(gen[h])'
  <2>1. \A n \in Memories : memory[n].state # "absent" => memory'[n].state # "absent"
    BY <1>1
  <2>2. \A n \in Memories : memory'[n].key = memory[n].key \/ memory'[n].key \notin Digests
    BY <1>1, ReviewAssumption
  <2>3. \A a \in Artifacts : /\ artifact'[a].kind = "update" <=> Update(a)
                             /\ Update(a) => /\ artifact'[a].mem = artifact[a].mem
                                             /\ artifact'[a].digest \in {artifact[a].digest, None}
    BY <1>1 DEF Update
  <2>. QED
    BY <1>1, <1>2, <1>3, <1>4, <1>5, <2>1, <2>2, <2>3, ProposalsStay
<1>7. ProposalsApart'
  BY <1>1 DEF ReviewInvariant, ProposalsApart
<1>. QED
  BY <1>1, <1>6, <1>7, RedactRows, RedactRecords DEF ReviewInvariant

(* An artifact that is no project update.                                    *)
LEMMA PlainRowStep ==
    ASSUME ReviewInvariant, NEW a \in Artifacts, NEW row \in Artifact, row.kind # "update",
           ~Update(a), \A h \in Generators : gen[h].newArt => gen[h].art # a,
           artifact' = [artifact EXCEPT ![a] = row],
           UNCHANGED <<memory, created, decided, promotions, gen, disturbed>>
    PROVE  ReviewInvariant'
<1>1. TypeOK'
  BY Types DEF TypeOK
<1>2. artifact'[a] = row /\ \A b \in Artifacts \ {a} : artifact'[b] = artifact[b]
  BY Types
<1>3. \A b \in Artifacts : /\ Update(b)' <=> Update(b)
                           /\ Update(b) => artifact'[b] = artifact[b]
                           /\ Terminal(b)' <=> Terminal(b)
                           /\ Undecided(b)' <=> Undecided(b)
  BY <1>2 DEF Update, Terminal, Undecided
<1>4. RowsCoupled' /\ DigestsCoupled'
  <2>1. RowsCoupled'
    BY <1>3 DEF ReviewInvariant, RowsCoupled
  <2>2. ASSUME NEW b \in Artifacts, Update(b), artifact[b].digest # None
        PROVE  IF artifact[b].digest \in disturbed THEN artifact[b].mem \in disturbed
               ELSE /\ memory[artifact[b].mem].key = artifact[b].digest
                    /\ Undecided(b) => memory[artifact[b].mem].state = "candidate"
    BY <2>2 DEF ReviewInvariant, DigestsCoupled
  <2>3. ASSUME NEW n \in Memories, memory[n].key \in Digests \ disturbed,
               memory[n].state # "candidate"
        PROVE  \E b \in Artifacts : Update(b) /\ artifact[b].digest = memory[n].key
    BY <2>3 DEF ReviewInvariant, DigestsCoupled, Found, Update
  <2>4. \A b, c \in Artifacts :
           Update(b) /\ Update(c) /\ artifact[b].mem = artifact[c].mem =>
               b = c \/ artifact[b].mem \in disturbed
    BY DEF ReviewInvariant, DigestsCoupled
  <2>5. /\ \A b \in Artifacts : Update(b)' /\ artifact'[b].digest # None =>
              IF artifact'[b].digest \in disturbed THEN artifact'[b].mem \in disturbed
              ELSE /\ memory[artifact'[b].mem].key = artifact'[b].digest
                   /\ Undecided(b)' => memory[artifact'[b].mem].state = "candidate"
        /\ \A b, c \in Artifacts :
              Update(b)' /\ Update(c)' /\ artifact'[b].mem = artifact'[c].mem =>
                  b = c \/ artifact'[b].mem \in disturbed
    BY <1>3, <2>2, <2>4
  <2>6. ASSUME NEW n \in Memories, memory[n].key \in Digests \ disturbed,
               memory[n].state # "candidate"
        PROVE  \E b \in Artifacts : Update(b)' /\ artifact'[b].digest = memory[n].key
    BY <1>3, <2>3, <2>6
  <2>. QED
    BY <2>1, <2>5, <2>6 DEF DigestsCoupled, Found, Update
<1>5. DecisionsKept' /\ CreationsKept'
  <2>1. \A d \in decided : Update(d.artifact)
    BY DEF ReviewInvariant, DecisionsKept, Terminal, Update
  <2>2. DecisionsKept'
    BY <1>3, <2>1, Types DEF ReviewInvariant, DecisionsKept
  <2>3. CreationsKept'
    BY <1>3, Types DEF ReviewInvariant, CreationsKept
  <2>. QED
    BY <2>2, <2>3
<1>6. \A h \in Generators : ProposalFits(gen[h])'
  <2>1. \A h \in Generators : gen[h].newMem => memory'[gen[h].mem] = NoMemory
    BY Reserved
  <2>2. \A h \in Generators : gen[h].newArt => artifact'[gen[h].art] = NoArtifact
    BY <1>2, Reserved
  <2>3. \A h \in Generators, b \in Artifacts :
           gen[h].digest \in Digests /\ Update(b) /\ artifact[b].digest = gen[h].digest =>
               IF gen[h].digest \in disturbed' THEN artifact[b].mem \in disturbed'
               ELSE artifact'[b].digest = gen[h].digest
    BY <1>3, ReviewAssumption DEF ReviewInvariant, DigestsCoupled
  <2>4. \A b \in Artifacts : /\ artifact'[b].kind = "update" <=> Update(b)
                             /\ Update(b) => /\ artifact'[b].mem = artifact[b].mem
                                             /\ artifact'[b].digest \in {artifact[b].digest, None}
    BY <1>3 DEF Update
  <2>. QED
    BY <2>1, <2>2, <2>3, <2>4, ProposalsStay
<1>7. ProposalsApart'
  BY DEF ReviewInvariant, ProposalsApart
<1>. QED
  BY <1>1, <1>4, <1>5, <1>6, <1>7 DEF ReviewInvariant

LEMMA ReportStep ==
    ASSUME ReviewInvariant, NEW a \in Artifacts,
           \/ \E status \in {"draft", "reviewed", "needs_review"} : Report(a, status)
           \/ EmptyScan(a)
    PROVE  ReviewInvariant'
<1>1. ASSUME a \in FreeArtifacts
      PROVE  ~Update(a) /\ \A h \in Generators : gen[h].newArt => gen[h].art # a
  BY <1>1, Nothing DEF FreeArtifacts, Update
<1>2. CASE \E status \in {"draft", "reviewed", "needs_review"} : Report(a, status)
  <2>1. PICK status \in {"draft", "reviewed", "needs_review"} : Report(a, status)
    BY <1>2
  <2>2. PICK row : row = [NoArtifact EXCEPT !.kind = "report", !.status = status]
    OBVIOUS
  <2>3. row \in Artifact /\ row.kind # "update"
    BY <2>2 DEF Artifact, NoArtifact, ReportMoves
  <2>. QED
    BY <1>1, <2>1, <2>2, <2>3, PlainRowStep DEF Report
<1>3. CASE EmptyScan(a)
  <2>1. PICK row : row = [NoArtifact EXCEPT !.kind = "scan", !.status = "needs_review"]
    OBVIOUS
  <2>2. row \in Artifact /\ row.kind # "update"
    BY <2>1 DEF Artifact, NoArtifact, ReportMoves
  <2>. QED
    BY <1>1, <1>3, <2>1, <2>2, PlainRowStep DEF EmptyScan
<1>. QED
  BY <1>2, <1>3

LEMMA ReviewReportStep ==
    ASSUME ReviewInvariant, NEW a \in Artifacts, NEW status \in DOMAIN ReportMoves,
           ReviewReport(a, status)
    PROVE  ReviewInvariant'
<1>1. PICK row : row = [artifact[a] EXCEPT !.status = status]
  OBVIOUS
<1>2. /\ artifact' = [artifact EXCEPT ![a] = row] /\ artifact[a] \in Artifact
      /\ artifact[a].kind = "report" /\ UNCHANGED <<memory, created, decided, promotions, gen, disturbed>>
  BY <1>1, Types DEF ReviewReport
<1>3. row \in Artifact /\ row.kind # "update"
  BY <1>1, <1>2 DEF Artifact
<1>4. ~Update(a) /\ \A h \in Generators : gen[h].newArt => gen[h].art # a
  BY <1>2, Reserved, Nothing DEF Update
<1>. QED
  BY <1>2, <1>3, <1>4, PlainRowStep

(* A promotion touches a report and a memory no proposal knows.               *)
LEMMA PromotedRows ==
    ASSUME ReviewInvariant, NEW a \in Artifacts, NEW m \in Memories, Promote(a, m)
    PROVE  /\ TypeOK' /\ artifact[a].kind = "report" /\ artifact'[a].kind = "report"
           /\ \A b \in Artifacts \ {a} : artifact'[b] = artifact[b]
           /\ memory[m] = NoMemory /\ memory'[m].state = "live" /\ memory'[m].key = a
           /\ \A n \in Memories \ {m} : memory'[n] = memory[n] /\ memory[n].key # a
           /\ a \notin Digests /\ a # None /\ \A h \in Generators : gen[h].mem # m
           /\ promotions' = promotions \cup {[artifact |-> a, mem |-> m]}
           /\ artifact[a].status # "promoted_to_memory"
           /\ artifact'[a].status = "promoted_to_memory"
           /\ UNCHANGED <<created, decided, gen, disturbed>>
<1>1. PICK row : row = [artifact[a] EXCEPT !.status = "promoted_to_memory"]
  OBVIOUS
<1>2. PICK new : new = [state |-> "live", key |-> a]
  OBVIOUS
<1>3. /\ artifact' = [artifact EXCEPT ![a] = row] /\ memory' = [memory EXCEPT ![m] = new]
      /\ artifact[a].kind = "report" /\ artifact[a] \in Artifact
      /\ promotions' = promotions \cup {[artifact |-> a, mem |-> m]}
      /\ UNCHANGED <<created, decided, gen, disturbed>>
  BY <1>1, <1>2, Types DEF Promote, Promotable
<1>4. row \in Artifact /\ row.kind = "report" /\ row.status = "promoted_to_memory"
  BY <1>1, <1>3 DEF Artifact, ReportMoves
<1>5. new \in Memory /\ new.state = "live" /\ new.key = a
  BY <1>2 DEF Memory
<1>6. TypeOK'
  <2>1. promotions' \subseteq Promotion
    BY <1>3, Types DEF Promotion
  <2>. QED
    BY <1>3, <1>4, <1>5, <2>1, Types DEF TypeOK
<1>7. a \notin Digests /\ a # None
  BY ReviewAssumption
<1>8. memory[m] = NoMemory /\ \A h \in Generators : gen[h].mem # m
  BY DEF Promote, FreeMemories
<1>9. \A n \in Memories : memory[n].key # a
  BY DEF Promote, Keyed
<1>10. artifact[a].status # "promoted_to_memory"
  BY DEF Promote, Promotable, ReportMoves
<1>. QED
  BY <1>3, <1>4, <1>5, <1>6, <1>7, <1>8, <1>9, <1>10, Types

LEMMA PromoteStep ==
    ASSUME ReviewInvariant, NEW a \in Artifacts, NEW m \in Memories, Promote(a, m)
    PROVE  ReviewInvariant'
<1>1. /\ TypeOK' /\ artifact[a].kind = "report" /\ artifact'[a].kind = "report"
      /\ \A b \in Artifacts \ {a} : artifact'[b] = artifact[b]
      /\ memory[m] = NoMemory /\ memory'[m].state = "live" /\ memory'[m].key = a
      /\ \A n \in Memories \ {m} : memory'[n] = memory[n] /\ memory[n].key # a
      /\ a \notin Digests /\ a # None /\ \A h \in Generators : gen[h].mem # m
      /\ UNCHANGED <<created, decided, gen, disturbed>>
  BY PromotedRows
<1>2. \A b \in Artifacts : /\ Update(b)' <=> Update(b)
                           /\ Update(b) => artifact'[b] = artifact[b]
                           /\ Terminal(b)' <=> Terminal(b)
                           /\ Undecided(b)' <=> Undecided(b)
  BY <1>1 DEF Update, Terminal, Undecided
<1>3. \A n \in Memories : memory[n].state # "absent" => n # m /\ memory'[n] = memory[n]
  BY <1>1, Nothing
<1>4. \A b \in Artifacts : Update(b) =>
         artifact[b].mem \in Memories /\ memory'[artifact[b].mem] = memory[artifact[b].mem]
  BY <1>3, UpdateRow
<1>5. RowsCoupled'
  <2>1. ASSUME NEW n \in Memories, NEW o \in Memories, memory'[n].key = memory'[o].key
        PROVE  n = o \/ memory'[n].key = None
    BY <1>1, <2>1 DEF ReviewInvariant, RowsCoupled
  <2>2. ASSUME NEW n \in Memories, memory'[n].state \in {"absent", "redacted"}
        PROVE  memory'[n].key = None
    BY <1>1, <2>2 DEF ReviewInvariant, RowsCoupled
  <2>3. /\ \A b, c \in Artifacts :
              Update(b)' /\ Update(c)' /\ artifact'[b].digest = artifact'[c].digest =>
                  b = c \/ artifact'[b].digest = None
        /\ \A b \in Artifacts : Update(b)' =>
              /\ artifact'[b].mem \in Memories /\ memory'[artifact'[b].mem].state # "absent"
              /\ artifact'[b].redacted = (artifact'[b].digest = None)
              /\ artifact'[b].redacted =>
                    Terminal(b)' /\ memory'[artifact'[b].mem].state = "redacted"
    BY <1>2, <1>4 DEF ReviewInvariant, RowsCoupled
  <2>. QED
    BY <2>1, <2>2, <2>3 DEF RowsCoupled
<1>6. DigestsCoupled'
  <2>1. \A b \in Artifacts : Update(b)' /\ artifact'[b].digest # None =>
            IF artifact'[b].digest \in disturbed THEN artifact'[b].mem \in disturbed
            ELSE /\ memory'[artifact'[b].mem].key = artifact'[b].digest
                 /\ Undecided(b)' => memory'[artifact'[b].mem].state = "candidate"
    BY <1>2, <1>4 DEF ReviewInvariant, DigestsCoupled
  <2>2. \A b, c \in Artifacts :
            Update(b)' /\ Update(c)' /\ artifact'[b].mem = artifact'[c].mem =>
                b = c \/ artifact'[b].mem \in disturbed
    BY <1>2 DEF ReviewInvariant, DigestsCoupled
  <2>3. ASSUME NEW n \in Memories, memory'[n].key \in Digests \ disturbed,
               memory'[n].state # "candidate"
        PROVE  \E b \in Artifacts : Update(b)' /\ artifact'[b].digest = memory'[n].key
    <3>1. n # m /\ memory'[n] = memory[n]
      BY <1>1, <2>3
    <3>2. \E b \in Artifacts : Update(b) /\ artifact[b].digest = memory[n].key
      BY <2>3, <3>1 DEF ReviewInvariant, DigestsCoupled, Found, Update
    <3>. QED
      BY <1>2, <3>1, <3>2
  <2>. QED
    BY <1>1, <2>1, <2>2, <2>3 DEF DigestsCoupled, Found, Update
<1>7. DecisionsKept'
  <2>1. \A d \in decided : /\ d.artifact \in Artifacts /\ Update(d.artifact)
                           /\ memory'[d.mem] = memory[d.mem]
    BY <1>3, Types DEF ReviewInvariant, DecisionsKept, Terminal, Update
  <2>. QED
    BY <1>1, <1>2, <2>1 DEF ReviewInvariant, DecisionsKept
<1>8. CreationsKept'
  <2>1. \A e \in created : /\ e.artifact \in Artifacts /\ Update(e.artifact)
                           /\ memory'[e.mem] = memory[e.mem]
    BY <1>3, Types DEF ReviewInvariant, CreationsKept
  <2>. QED
    BY <1>1, <1>2, <2>1 DEF ReviewInvariant, CreationsKept
<1>9. \A h \in Generators : ProposalFits(gen[h])'
  <2>1. \A h \in Generators : gen[h].newMem => memory'[gen[h].mem] = NoMemory
    BY <1>1, Reserved
  <2>2. \A h \in Generators : gen[h].newArt => artifact'[gen[h].art] = NoArtifact
    BY <1>1, Reserved, Nothing
  <2>3. \A h \in Generators, b \in Artifacts :
           gen[h].digest \in Digests /\ Update(b) /\ artifact[b].digest = gen[h].digest =>
               IF gen[h].digest \in disturbed' THEN artifact[b].mem \in disturbed'
               ELSE artifact'[b].digest = gen[h].digest
    BY <1>1, <1>2, ReviewAssumption DEF ReviewInvariant, DigestsCoupled
  <2>4. \A b \in Artifacts : /\ artifact'[b].kind = "update" <=> Update(b)
                             /\ Update(b) => /\ artifact'[b].mem = artifact[b].mem
                                             /\ artifact'[b].digest \in {artifact[b].digest, None}
    BY <1>2 DEF Update
  <2>5. \A h \in Generators, n \in Memories :
           gen[h].digest \in Digests \ disturbed' /\ memory[n].key = gen[h].digest =>
               memory'[n].key = gen[h].digest
    BY <1>1, Nothing, ReviewAssumption
  <2>6. \A n \in Memories : memory'[n].key = memory[n].key \/ memory'[n].key \notin Digests
    BY <1>1
  <2>7. \A n \in Memories : memory[n].state # "absent" => memory'[n].state # "absent"
    BY <1>3
  <2>. QED
    BY <1>1, <2>1, <2>2, <2>3, <2>4, <2>5, <2>6, <2>7, ProposalsStay
<1>10. ProposalsApart'
  BY <1>1 DEF ReviewInvariant, ProposalsApart
<1>. QED
  BY <1>1, <1>5, <1>6, <1>7, <1>8, <1>9, <1>10 DEF ReviewInvariant

-----------------------------------------------------------------------------
(* The invariant. *)

LEMMA Initially == Init => ReviewInvariant
<1>. SUFFICES ASSUME Init PROVE ReviewInvariant
  OBVIOUS
<1>1. /\ \A a \in Artifacts : artifact[a] = NoArtifact /\ artifact[a].kind = "none"
      /\ \A m \in Memories : memory[m] = NoMemory /\ memory[m].key = None
      /\ \A g \in Generators : gen[g] = NoGen
      /\ created = {} /\ decided = {} /\ promotions = {} /\ disturbed = {}
  BY Nothing DEF Init
<1>2. TypeOK
  BY Nothing DEF Init, TypeOK
<1>3. RowsCoupled /\ DigestsCoupled
  BY <1>1, ReviewAssumption DEF RowsCoupled, DigestsCoupled, Update
<1>4. DecisionsKept /\ CreationsKept
  BY <1>1 DEF DecisionsKept, CreationsKept, Update, Terminal
<1>5. \A g \in Generators : ProposalFits(gen[g])
  BY <1>1, Nothing DEF ProposalFits
<1>6. ProposalsApart
  BY <1>1, Nothing DEF ProposalsApart
<1>. QED
  BY <1>2, <1>3, <1>4, <1>5, <1>6 DEF ReviewInvariant

LEMMA Stuttering == ReviewInvariant /\ UNCHANGED vars => ReviewInvariant'
<1>. SUFFICES ASSUME ReviewInvariant, UNCHANGED vars PROVE ReviewInvariant'
  OBVIOUS
<1>. USE DEF vars
<1>1. TypeOK' /\ RowsCoupled' /\ DigestsCoupled'
  BY DEF ReviewInvariant, TypeOK, RowsCoupled, DigestsCoupled, Update, Terminal, Undecided, Found
<1>2. DecisionsKept' /\ CreationsKept' /\ ProposalsApart'
  BY DEF ReviewInvariant, DecisionsKept, CreationsKept, Update, Terminal, ProposalsApart
<1>3. ASSUME NEW h \in Generators PROVE ProposalFits(gen[h])'
  <2>1. PICK y : y = gen[h] /\ ProposalFits(y)
    BY DEF ReviewInvariant
  <2>. QED
    BY <2>1 DEF ProposalFits, Update, Keyed, Found
<1>. QED
  BY <1>1, <1>2, <1>3 DEF ReviewInvariant

LEMMA EveryStep == ReviewInvariant /\ [Next]_vars => ReviewInvariant'
<1>. SUFFICES ASSUME ReviewInvariant, [Next]_vars PROVE ReviewInvariant'
  OBVIOUS
<1>1. ASSUME NEW g \in Generators, NEW d \in Digests, Begin(g, d) PROVE ReviewInvariant'
  BY <1>1, BeginStep
<1>2. ASSUME NEW g \in Generators, Plan(g) PROVE ReviewInvariant'
  BY <1>2, PlanStep
<1>3. ASSUME NEW g \in Generators, UpsertMemory(g) PROVE ReviewInvariant'
  BY <1>3, UpsertMemoryStep
<1>4. ASSUME NEW g \in Generators, UpsertArtifact(g) PROVE ReviewInvariant'
  BY <1>4, UpsertArtifactStep
<1>5. ASSUME NEW g \in Generators, Commit(g) PROVE ReviewInvariant'
  BY <1>5, CommitStep
<1>6. ASSUME NEW g \in Generators, Abort(g) PROVE ReviewInvariant'
  BY <1>6, AbortStep
<1>7. ASSUME NEW a \in Artifacts, NEW action \in Actions, Decide(a, action) PROVE ReviewInvariant'
  BY <1>7, DecideStep
<1>8. ASSUME NEW a \in Artifacts,
             \/ \E status \in {"draft", "reviewed", "needs_review"} : Report(a, status)
             \/ EmptyScan(a)
      PROVE  ReviewInvariant'
  BY <1>8, ReportStep
<1>9. ASSUME NEW a \in Artifacts, NEW status \in DOMAIN ReportMoves, ReviewReport(a, status)
      PROVE  ReviewInvariant'
  BY <1>9, ReviewReportStep
<1>10. ASSUME NEW a \in Artifacts, NEW m \in Memories, Promote(a, m) PROVE ReviewInvariant'
  BY <1>10, PromoteStep
<1>11. ASSUME NEW m \in Memories, NEW s \in {"live", "retired"}, LiveOn(m, s)
       PROVE  ReviewInvariant'
  BY <1>11, LiveOnStep
<1>12. ASSUME NEW m \in Memories, Redact(m) PROVE ReviewInvariant'
  BY <1>12, RedactStep
<1>13. CASE UNCHANGED vars
  BY <1>13, Stuttering
<1>. QED
  BY <1>1, <1>2, <1>3, <1>4, <1>5, <1>6, <1>7, <1>8, <1>9, <1>10, <1>11, <1>12, <1>13 DEF Next

(* Rows, records and proposals under way agree in every reachable state,     *)
(* however proposals, reviews, redactions and promotions overlap.            *)
THEOREM ReviewHolds == Spec => []ReviewInvariant
<1>1. Init => ReviewInvariant
  BY Initially
<1>2. ReviewInvariant /\ [Next]_vars => ReviewInvariant'
  BY EveryStep
<1>. QED
  BY <1>1, <1>2, PTL DEF Spec

(* A decided update keeps exactly one decision, which is the one it carries, *)
(* and where no redaction disturbed its proposals every creation event       *)
(* coupled to it names it and its memory: a retry of the review is answered. *)
THEOREM DecisionsHold == Spec => []DecisionsProvable
<1>1. ReviewInvariant => DecisionsProvable
  <2>. SUFFICES ASSUME ReviewInvariant, NEW a \in Artifacts, Terminal(a)
                PROVE  DecisionProven(a) /\ (Undisturbed(a) => CreationProven(a))
    BY DEF DecisionsProvable
  <2>1. Update(a) /\ artifact[a].mem \in Memories
    BY UpdateRow DEF Terminal, Update
  <2>2. DecisionProven(a)
    <3>1. PICK r \in decided : r.artifact = a
      BY DEF ReviewInvariant, DecisionsKept
    <3>2. /\ r.mem = artifact[a].mem /\ r.action = artifact[a].action
          /\ r.redacted = artifact[a].redacted
          /\ (r.action = "reject") = (artifact[a].status = "rejected")
      BY <3>1 DEF ReviewInvariant, DecisionsKept
    <3>3. \A x \in decided : Coupled(x, a) => x.mem = r.mem
      BY <3>2 DEF ReviewInvariant, DecisionsKept, Coupled
    <3>4. {x \in decided : Coupled(x, a)} = {r}
      BY <3>1, <3>3 DEF ReviewInvariant, DecisionsKept, Coupled
    <3>. QED
      BY <3>1, <3>2, <3>4 DEF DecisionProven
  <2>3. ASSUME Undisturbed(a) PROVE CreationProven(a)
    <3>1. artifact[a].mem \notin disturbed
      BY <2>3 DEF Undisturbed
    <3>2. \E e \in created : Coupled(e, a)
      BY <2>1 DEF ReviewInvariant, CreationsKept, Coupled
    <3>3. ASSUME NEW e \in created, Coupled(e, a)
          PROVE  e.artifact = a /\ e.mem = artifact[a].mem /\ e.redacted = artifact[a].redacted
      <4>1. e.artifact \in Artifacts /\ Update(e.artifact)
        BY Types DEF ReviewInvariant, CreationsKept
      <4>2. e.mem = artifact[a].mem
        BY <3>1, <3>3 DEF ReviewInvariant, CreationsKept, Coupled
      <4>3. artifact[e.artifact].mem = artifact[a].mem
        BY <3>1, <4>2 DEF ReviewInvariant, CreationsKept
      <4>4. e.artifact = a
        BY <2>1, <3>1, <4>1, <4>3 DEF ReviewInvariant, DigestsCoupled
      <4>. QED
        BY <3>1, <4>2, <4>4 DEF ReviewInvariant, CreationsKept
    <3>. QED
      BY <3>2, <3>3 DEF CreationProven
  <2>. QED
    BY <2>2, <2>3
<1>. QED
  BY <1>1, ReviewHolds, PTL

(* An update waiting for review can be decided: its memory is a candidate    *)
(* that still carries its digest, unless a redaction disturbed its proposals.*)
THEOREM PendingHolds == Spec => []PendingIsReviewable
<1>1. ReviewInvariant => PendingIsReviewable
  <2>. SUFFICES ASSUME ReviewInvariant, NEW a \in Artifacts, Undecided(a), Undisturbed(a)
                PROVE  Reviewable(a)
    BY DEF PendingIsReviewable
  <2>1. Update(a) /\ artifact[a].digest \in Digests /\ artifact[a].digest # None
    BY UpdateRow, ReviewAssumption DEF Undecided, Update
  <2>. QED
    BY <2>1 DEF ReviewInvariant, DigestsCoupled, Undisturbed, Reviewable
<1>. QED
  BY <1>1, ReviewHolds, PTL

-----------------------------------------------------------------------------
(* Promotions. *)

(* What leaves promoted reports and the keys of reports alone, redaction of  *)
(* the memory excepted.                                                      *)
LEMMA PromotionsKept ==
    ASSUME ReviewInvariant, PromotionStands, promotions' = promotions,
           \A a \in Artifacts : artifact[a].kind = "report" => artifact'[a].kind = "report",
           \A a \in Artifacts : artifact'[a].status = "promoted_to_memory"
                                    <=> artifact[a].status = "promoted_to_memory",
           \A m \in Memories : \/ memory'[m].key = memory[m].key
                               \/ memory'[m].key \notin Artifacts
                                  /\ (memory[m].key \in Artifacts => memory'[m].state = "redacted"),
           \A m \in Memories : memory[m].state = "redacted" => memory'[m].state = "redacted"
    PROVE  PromotionStands'
<1>1. \A x \in promotions :
         /\ artifact'[x.artifact].kind = "report"
         /\ artifact'[x.artifact].status = "promoted_to_memory"
         /\ memory'[x.mem].key = x.artifact \/ memory'[x.mem].state = "redacted"
  BY Types DEF PromotionStands
<1>2. \A a \in Artifacts : artifact'[a].status = "promoted_to_memory" =>
         \E x \in promotions : x.artifact = a
  BY DEF PromotionStands
<1>3. \A m \in Memories : memory'[m].key \in Artifacts =>
         [artifact |-> memory'[m].key, mem |-> m] \in promotions
  BY DEF PromotionStands
<1>. QED
  BY <1>1, <1>2, <1>3 DEF PromotionStands

(* The promotion itself: the report had none, and its memory is new.         *)
LEMMA PromotionAdded ==
    ASSUME ReviewInvariant, PromotionStands,
           NEW a \in Artifacts, NEW m \in Memories, Promote(a, m)
    PROVE  PromotionStands'
<1>1. PICK e : e = [artifact |-> a, mem |-> m]
  OBVIOUS
<1>2. e.artifact = a /\ e.mem = m /\ promotions' = promotions \cup {e}
  BY <1>1, PromotedRows
<1>3. /\ artifact[a].status # "promoted_to_memory"
      /\ artifact'[a].kind = "report" /\ artifact'[a].status = "promoted_to_memory"
      /\ \A b \in Artifacts \ {a} : artifact'[b] = artifact[b]
      /\ memory[m] = NoMemory /\ memory'[m].key = a
      /\ \A n \in Memories \ {m} : memory'[n] = memory[n]
  BY PromotedRows
<1>4. \A x \in promotions : x.artifact \in Artifacts \ {a} /\ x.mem \in Memories \ {m}
  BY <1>3, Types, Nothing, ReviewAssumption DEF PromotionStands
<1>5. \A x \in promotions' :
         /\ artifact'[x.artifact].kind = "report"
         /\ artifact'[x.artifact].status = "promoted_to_memory"
         /\ memory'[x.mem].key = x.artifact \/ memory'[x.mem].state = "redacted"
  BY <1>2, <1>3, <1>4 DEF PromotionStands
<1>6. \A x, y \in promotions' : x.artifact = y.artifact \/ x.mem = y.mem => x = y
  BY <1>2, <1>4 DEF PromotionStands
<1>7. \A b \in Artifacts : artifact'[b].status = "promoted_to_memory" =>
         \E x \in promotions' : x.artifact = b
  BY <1>2, <1>3 DEF PromotionStands
<1>8. ASSUME NEW n \in Memories, memory'[n].key \in Artifacts
      PROVE  [artifact |-> memory'[n].key, mem |-> n] \in promotions'
  <2>1. CASE n = m
    BY <1>1, <1>2, <1>3, <2>1
  <2>2. CASE n # m
    BY <1>2, <1>3, <1>8, <2>2 DEF PromotionStands
  <2>. QED
    BY <2>1, <2>2
<1>. QED
  BY <1>5, <1>6, <1>7, <1>8 DEF PromotionStands

(* Whatever reviewers, redactions and proposals do later, a promoted report  *)
(* stays promoted, has one memory and the event that names it, and nothing   *)
(* else carries its key.                                                     *)
THEOREM PromotionHolds == Spec => []PromotionStands
<1>1. Init => PromotionStands
  BY Nothing, ReviewAssumption DEF Init, PromotionStands, NoArtifact
<1>2. ReviewInvariant /\ PromotionStands /\ [Next]_vars => PromotionStands'
  <2>. SUFFICES ASSUME ReviewInvariant, PromotionStands, [Next]_vars PROVE PromotionStands'
    OBVIOUS
  <2>0. /\ \A d \in Digests : d \notin Artifacts
        /\ None \notin Artifacts
    BY ReviewAssumption
  <2>1. ASSUME NEW g \in Generators, Commit(g) PROVE PromotionStands'
    <3>1. PICK x : x = gen[g]
      OBVIOUS
    <3>2. x.digest \in Digests /\ promotions' = promotions
      BY <2>1, <3>1, Committing
    <3>3. \A n \in Memories : memory'[n].key # memory[n].key =>
             memory'[n].key = x.digest /\ memory[n] = NoMemory
      BY <2>1, <3>1, CommitKeeps
    <3>4. \A n \in Memories : memory[n].state # "absent" => memory'[n] = memory[n]
      BY <2>1, <3>1, CommitKeeps
    <3>5. \A a \in Artifacts : artifact[a].kind # "none" => artifact'[a] = artifact[a]
      BY <2>1, <3>1, CommitKeeps
    <3>6. \A a \in Artifacts : artifact'[a] = artifact[a]
                               \/ /\ artifact'[a].status = "needs_review"
                                  /\ artifact[a] = NoArtifact
      <4>1. x.newArt => artifact[x.art] = NoArtifact
        BY <3>1, Reserved
      <4>. QED
        BY <2>1, <3>1, <4>1, CommittedRows
    <3>. QED
      BY <2>0, <3>2, <3>3, <3>4, <3>5, <3>6, Nothing, PromotionsKept DEF NoArtifact
  <2>2. ASSUME NEW b \in Artifacts, NEW action \in Actions, Decide(b, action)
        PROVE  PromotionStands'
    <3>1. /\ memory' = [memory EXCEPT ![artifact[b].mem].state =
                           IF action # "reject" THEN "live" ELSE "rejected"]
          /\ artifact' = [artifact EXCEPT ![b].status = IF action # "reject" THEN "accepted"
                                                        ELSE "rejected",
                                          ![b].action = action]
          /\ promotions' = promotions /\ artifact[b].kind = "update"
          /\ artifact[b].status = "needs_review" /\ memory[artifact[b].mem].state = "candidate"
      BY <2>2 DEF Decide, Undecided, Reviewable
    <3>2. /\ \A n \in Memories : memory'[n].key = memory[n].key
          /\ \A n \in Memories : memory[n].state = "redacted" => memory'[n].state = "redacted"
      BY <3>1, Types DEF Memory
    <3>3. \A c \in Artifacts \ {b} : artifact'[c] = artifact[c]
      BY <3>1, Types
    <3>4. artifact'[b].status \in {"accepted", "rejected"}
      BY <3>1, Types DEF Artifact
    <3>. QED
      BY <3>1, <3>2, <3>3, <3>4, PromotionsKept
  <2>3. ASSUME NEW n \in Memories, NEW s \in {"live", "retired"}, LiveOn(n, s)
        PROVE  PromotionStands'
    <3>1. /\ memory' = [memory EXCEPT ![n].state = s] /\ memory[n].state # "redacted"
          /\ artifact' = artifact /\ promotions' = promotions
      BY <2>3 DEF LiveOn, OpenToLifecycle
    <3>2. /\ \A k \in Memories : memory'[k].key = memory[k].key
          /\ \A k \in Memories : memory[k].state = "redacted" => memory'[k].state = "redacted"
      BY <3>1, Types DEF Memory
    <3>. QED
      BY <3>1, <3>2, PromotionsKept
  <2>4. ASSUME NEW n \in Memories, Redact(n) PROVE PromotionStands'
    <3>1. /\ promotions' = promotions
          /\ memory'[n].state = "redacted" /\ memory'[n].key = None
          /\ \A k \in Memories \ {n} : memory'[k] = memory[k]
      BY <2>4, RedactedRows
    <3>2. \A a \in Artifacts : /\ artifact'[a].kind = artifact[a].kind
                              /\ artifact'[a].status = artifact[a].status
      BY <2>4, RedactedRows
    <3>3. \A k \in Memories : \/ memory'[k].key = memory[k].key
                              \/ /\ memory'[k].key \notin Artifacts
                                 /\ memory[k].key \in Artifacts => memory'[k].state = "redacted"
      BY <2>0, <3>1
    <3>. QED
      BY <3>1, <3>2, <3>3, PromotionsKept
  <2>5. ASSUME NEW b \in Artifacts, NEW n \in Memories, Promote(b, n) PROVE PromotionStands'
    BY <2>5, PromotionAdded
  <2>6. ASSUME NEW b \in Artifacts,
               \/ \E status \in {"draft", "reviewed", "needs_review"} : Report(b, status)
               \/ EmptyScan(b)
        PROVE  PromotionStands'
    <3>1. artifact[b] = NoArtifact /\ memory' = memory /\ promotions' = promotions
      BY <2>6 DEF Report, EmptyScan, FreeArtifacts
    <3>2. PICK row \in Artifact : row.status # "promoted_to_memory"
                                  /\ artifact' = [artifact EXCEPT ![b] = row]
      <4>1. CASE EmptyScan(b)
        BY <4>1 DEF EmptyScan, Artifact, NoArtifact, ReportMoves
      <4>2. CASE \E status \in {"draft", "reviewed", "needs_review"} : Report(b, status)
        BY <4>2 DEF Report, Artifact, NoArtifact, ReportMoves
      <4>. QED
        BY <2>6, <4>1, <4>2
    <3>3. /\ artifact'[b].status # "promoted_to_memory"
          /\ \A c \in Artifacts \ {b} : artifact'[c] = artifact[c]
      BY <3>2, Types
    <3>4. artifact[b].status # "promoted_to_memory" /\ artifact[b].kind # "report"
      BY <3>1 DEF NoArtifact
    <3>. QED
      BY <3>1, <3>3, <3>4, PromotionsKept
  <2>7. ASSUME NEW b \in Artifacts, NEW status \in DOMAIN ReportMoves, ReviewReport(b, status)
        PROVE  PromotionStands'
    <3>1. /\ artifact' = [artifact EXCEPT ![b].status = status]
          /\ memory' = memory /\ promotions' = promotions
          /\ status \in ReportMoves[artifact[b].status] \ {"promoted_to_memory"}
      BY <2>7 DEF ReviewReport
    <3>2. artifact[b].status # "promoted_to_memory" /\ status # "promoted_to_memory"
      BY <3>1 DEF ReportMoves
    <3>3. /\ artifact'[b].status = status /\ artifact'[b].kind = artifact[b].kind
          /\ \A c \in Artifacts \ {b} : artifact'[c] = artifact[c]
      BY <3>1, Types DEF Artifact
    <3>. QED
      BY <3>1, <3>2, <3>3, PromotionsKept
  <2>8. CASE UNCHANGED <<artifact, memory, promotions>>
    BY <2>8, PromotionsKept
  <2>. QED
    BY <2>1, <2>2, <2>3, <2>4, <2>5, <2>6, <2>7, <2>8
       DEF Next, vars, Begin, Plan, UpsertMemory, UpsertArtifact, Abort
<1>. QED
  BY <1>1, <1>2, ReviewHolds, PTL DEF Spec
=============================================================================
