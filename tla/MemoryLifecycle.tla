--------------------------- MODULE MemoryLifecycle ---------------------------
(***************************************************************************)
(* The life of memory rows: commits, inline confirmations, corrections,    *)
(* retirements, reviews, expiry, and the consolidation and roll-up         *)
(* candidates derived from other memories.                                 *)
(*                                                                         *)
(* Every operation of VNextMemoryCommitService and of the two review       *)
(* surfaces takes the per-user advisory lock of lock_supersession_graph    *)
(* before it touches a row and holds it until its transaction commits, so  *)
(* each is one action.  Scheduled jobs do not: a job reads rows, stages    *)
(* its writes, and publishes them later in another transaction (Read... /  *)
(* Publish... below).  Everything the other operations do in between is    *)
(* invisible to it.                                                        *)
(*                                                                         *)
(* Text, scope, policy decisions, revisions and events are left out; the   *)
(* age at which the sweep finds a row due is left open.  `rev' stands for  *)
(* updated_at, which every UPDATE moves.                                   *)
(***************************************************************************)
EXTENDS Naturals, FiniteSets

CONSTANTS
  Memories,  \* rows the store can hold
  Sessions,  \* scheduled jobs that can be under way at once
  Jobs,      \* which jobs run: "sweep" and the candidate kinds
  Modes,     \* write modes of a commit
  MaxRev,    \* bound, for each row: how often it is updated
  None       \* NULL

ASSUME ConstantAssumption ==
  /\ None \notin Memories
  /\ MaxRev \in [Memories -> Nat]
  /\ Jobs \subseteq {"sweep", "dedup", "merge", "rollup"}
  /\ Modes \subseteq {"commit", "confirm_inline", "propose_review"}

VARIABLES
  rows,    \* the memories table
  staged   \* what each job has read and not yet published

vars == <<rows, staged>>

-----------------------------------------------------------------------------
(* Statuses and the transition table.                                      *)

LIVE == {"candidate", "active", "accepted", "needs_review", "private_only", "stale"}
RETIRED == {"superseded", "rejected", "archived"}
SUCCESSOR == {"active", "accepted", "private_only"}
ACCEPTABLE == {"candidate", "needs_review"}
Confirmations ==
  {"none", "pending", "lapsed", "confirmed", "rejected", "expired", "superseded"}

To(target, sources) == [s \in sources |-> target]

\* The domain of an operation's entry is where it is legal.
Transitions ==
  [confirm_accept   |-> To("active", {"needs_review"}),
   confirm_reject   |-> To("rejected", {"needs_review"}),
   confirm_expire   |-> To("rejected", {"needs_review"}),
   review_approve   |-> To("active", LIVE),
   review_reject    |-> To("rejected", LIVE),
   review_supersede |-> To("superseded", LIVE),
   correct          |-> To("active", LIVE),
   undo             |-> To("superseded", LIVE),
   forget           |-> To("superseded", LIVE),
   supersede_member |-> To("superseded", LIVE),
   expire           |-> [s \in LIVE |-> s],
   unexpire         |-> [s \in LIVE |-> IF s = "stale" THEN "active" ELSE s]]

(* Faulty variant: a retired row can be corrected. *)
LegalToCorrectAny(op, m) ==
  IF op = "correct" THEN rows[m].status # "absent"
  ELSE rows[m].status \in DOMAIN Transitions[op]

(* Faulty variant: confirming trusts the nested flag and not the row. *)
LegalByFlag(op, m) ==
  \/ op = "confirm_accept"
  \/ rows[m].status \in DOMAIN Transitions[op]

Legal(op, m) == rows[m].status \in DOMAIN Transitions[op]
After(op, m) == Transitions[op][rows[m].status]

-----------------------------------------------------------------------------
(* Rows.                                                                   *)

Blank == [status |-> "absent", conf |-> "none", superseded_by |-> None,
          supersedes |-> None, bounded |-> FALSE, proposal |-> None, rev |-> 0]

Snapshot(m) == [status |-> rows[m].status, rev |-> rows[m].rev]

\* is_pending_consolidation_candidate: derived and not yet accepted.
Pending(m) == rows[m].proposal # None /\ ~ rows[m].proposal.accepted

\* UPDATE of the given rows.
Write(f) ==
  /\ \A m \in DOMAIN f : rows[m].rev < MaxRev[m]
  /\ rows' = [m \in Memories |->
       IF m \in DOMAIN f THEN [f[m] EXCEPT !.rev = rows[m].rev + 1] ELSE rows[m]]

Update(m, row) == Write([x \in {m} |-> row])

\* Closing the nested confirmation along with the row's decision.
Answered(conf, outcome) == IF conf \in {"pending", "lapsed"} THEN outcome ELSE conf

Decided(m, status, outcome) ==
  [rows[m] EXCEPT !.status = status, !.conf = Answered(@, outcome)]

-----------------------------------------------------------------------------
(* The supersession graph and the candidates derived from a row.           *)

Closed(S) == \A x \in S : rows[x].superseded_by \in S \cup {None}

\* m lies on the chain of superseded_by pointers that starts at s.
OnChain(m, s) == \A S \in SUBSET Memories : s \in S /\ Closed(S) => m \in S

(* Faulty variant: the chain is not walked. *)
SucceedsByStatus(m, s, statuses) == rows[s].status \in statuses

(* Faulty variant: only the chain is checked. *)
SucceedsByChain(m, s, statuses) == ~ OnChain(m, s)

\* A row may become the head of m's chain.
MaySucceed(m, s, statuses) == rows[s].status \in statuses /\ ~ OnChain(m, s)

Dependents(S, except) ==
  {d \in Memories \ {except} :
     /\ rows[d].status \in ACCEPTABLE
     /\ Pending(d)
     /\ DOMAIN rows[d].proposal.members \cap S # {}}

\* UPDATE of f, and of the candidates derived from the rows S.
WriteInvalidating(f, S, except) ==
  LET stale == Dependents(S, except) \ DOMAIN f IN
  Write([m \in DOMAIN f \cup stale |->
           IF m \in DOMAIN f THEN f[m] ELSE [rows[m] EXCEPT !.status = "stale"]])

-----------------------------------------------------------------------------
(* The commit service.                                                     *)

Init ==
  /\ rows = [m \in Memories |-> Blank]
  /\ staged = [w \in Sessions |-> None]

Committed(mode) ==
  CASE mode = "commit"         -> [Blank EXCEPT !.status = "active"]
    [] mode = "confirm_inline" -> [Blank EXCEPT !.status = "needs_review", !.conf = "pending"]
    [] mode = "propose_review" -> [Blank EXCEPT !.status = "candidate"]

Commit(m, mode) ==
  /\ rows[m].status = "absent"
  /\ rows' = [rows EXCEPT ![m] = Committed(mode)]
  /\ UNCHANGED staged

\* The clock passes a pending confirmation's expires_at.
Lapse(m) ==
  /\ rows[m].conf = "pending"
  /\ rows' = [rows EXCEPT ![m].conf = "lapsed"]
  /\ UNCHANGED staged

\* confirm() with action "confirm" or "edit", before the deadline.
Confirm(m) ==
  /\ rows[m].conf = "pending"
  /\ Legal("confirm_accept", m)
  /\ Update(m, Decided(m, "active", "confirmed"))
  /\ UNCHANGED staged

RejectConfirmation(m) ==
  /\ rows[m].conf = "pending"
  /\ Legal("confirm_reject", m)
  /\ Update(m, Decided(m, "rejected", "rejected"))
  /\ UNCHANGED staged

\* Any answer after the deadline rejects the row.
ExpireConfirmation(m) ==
  /\ rows[m].conf = "lapsed"
  /\ Legal("confirm_expire", m)
  /\ Update(m, Decided(m, "rejected", "expired"))
  /\ UNCHANGED staged

\* A repeated "confirm" only refreshes last_confirmed_at.
ReplayConfirmation(m) ==
  /\ rows[m].conf = "confirmed"
  /\ Update(m, rows[m])
  /\ UNCHANGED staged

Undo(m, s) ==
  /\ Legal("undo", m)
  /\ s # None => s # m /\ MaySucceed(m, s, SUCCESSOR)
  /\ LET old == [rows[m] EXCEPT !.status = "superseded",
                                !.superseded_by = IF s = None THEN @ ELSE s,
                                !.bounded = @ \/ s # None]
     IN WriteInvalidating(
          [x \in {m, s} \ {None} |->
             IF x = m THEN old ELSE [rows[s] EXCEPT !.supersedes = m]], {m}, None)
  /\ UNCHANGED staged

Correct(m) ==
  /\ Legal("correct", m)
  /\ ~ Pending(m)
  /\ WriteInvalidating([x \in {m} |-> [rows[m] EXCEPT !.status = "active"]], {m}, None)
  /\ UNCHANGED staged

Forget(m) ==
  /\ Legal("forget", m)
  /\ WriteInvalidating([x \in {m} |-> [rows[m] EXCEPT !.status = "superseded"]], {m}, None)
  /\ UNCHANGED staged

Expire(m) ==
  /\ Legal("expire", m)
  /\ Update(m, [rows[m] EXCEPT !.bounded = TRUE])
  /\ UNCHANGED staged

Unexpire(m) ==
  /\ Legal("unexpire", m)
  /\ rows[m].bounded
  /\ Update(m, [rows[m] EXCEPT !.status = After("unexpire", m), !.bounded = FALSE])
  /\ UNCHANGED staged

(* Faulty variant: the inputs are not compared. *)
NotReviewed(c) == TRUE

(* Faulty variant: only the statuses of the inputs are compared. *)
ReviewedByStatus(c) ==
  \A m \in DOMAIN rows[c].proposal.members :
    rows[c].proposal.members[m].status = rows[m].status

\* memory_matches_snapshot, for every reviewed input of c.
AsReviewed(c) ==
  \A m \in DOMAIN rows[c].proposal.members : rows[c].proposal.members[m] = Snapshot(m)

\* accept_consolidation_candidate.  Members that already have a successor
\* are skipped; the others are retired in favour of c.
Accept(c) ==
  /\ Pending(c)
  /\ rows[c].status \in ACCEPTABLE
  /\ AsReviewed(c)
  /\ LET p == rows[c].proposal
         retired == {m \in p.retires : rows[m].status # "superseded"
                                         /\ rows[m].superseded_by = None}
     IN /\ \A m \in retired : Legal("supersede_member", m)
                                /\ MaySucceed(m, c, SUCCESSOR \cup ACCEPTABLE)
        /\ WriteInvalidating(
             [m \in retired \cup {c} |->
                IF m = c
                THEN [rows[c] EXCEPT !.status = "active",
                                     !.supersedes = IF p.survivor = None THEN @ ELSE p.survivor,
                                     !.proposal.accepted = TRUE]
                ELSE [rows[m] EXCEPT !.status = "superseded", !.superseded_by = c,
                                     !.bounded = TRUE]], retired, c)
  /\ UNCHANGED staged

-----------------------------------------------------------------------------
(* The review surfaces.  A pending candidate is approved through Accept    *)
(* only; rejecting it or keeping it private is allowed over HTTP.          *)

Approve(m) ==
  /\ Legal("review_approve", m)
  /\ ~ Pending(m)
  /\ Update(m, Decided(m, "active", "confirmed"))
  /\ UNCHANGED staged

Reject(m) ==
  /\ Legal("review_reject", m)
  /\ Update(m, Decided(m, "rejected", "rejected"))
  /\ UNCHANGED staged

KeepPrivate(m) ==
  /\ rows[m].status \in LIVE
  /\ Update(m, [rows[m] EXCEPT !.status = "private_only"])
  /\ UNCHANGED staged

AssignProject(m) ==
  /\ rows[m].status \in LIVE
  /\ ~ Pending(m)
  /\ Update(m, rows[m])
  /\ UNCHANGED staged

\* supersede-existing: the replacement row n takes over m's metadata.
Replace(m, n) ==
  /\ Legal("review_supersede", m)
  /\ ~ Pending(m)
  /\ rows[n].status = "absent"
  /\ Write([x \in {m, n} |->
       IF x = m
       THEN [Decided(m, "superseded", "superseded") EXCEPT !.superseded_by = n]
       ELSE [Blank EXCEPT !.status = "active", !.supersedes = m,
                          !.conf = Answered(rows[m].conf, "confirmed"),
                          !.proposal = rows[m].proposal]])
  /\ UNCHANGED staged

-----------------------------------------------------------------------------
(* Scheduled jobs: read now, publish later.                                *)

\* The staleness sweep reads active rows that are due; the rest of the scan
\* is staged writes, each carrying the metadata of the row as it was read.
ReadSweep(w, due) ==
  /\ "sweep" \in Jobs
  /\ staged[w] = None
  /\ due # {}
  /\ \A m \in due : rows[m].status = "active"
  /\ staged' = [staged EXCEPT ![w] = [job |-> "sweep", read |-> [m \in due |-> rows[m]]]]
  /\ UNCHANGED rows

\* The staged UPDATE names no expected status or version.
Swept(m, read) ==
  [rows[m] EXCEPT !.status = "stale", !.conf = read.conf, !.proposal = read.proposal]

PublishSweep(w) ==
  /\ staged[w] # None
  /\ staged[w].job = "sweep"
  /\ Write([m \in DOMAIN staged[w].read |-> Swept(m, staged[w].read[m])])
  /\ staged' = [staged EXCEPT ![w] = None]

Proposal(kind, members, retires, survivor) ==
  [kind |-> kind, members |-> [m \in members |-> Snapshot(m)],
   retires |-> retires, survivor |-> survivor, accepted |-> FALSE]

IsRollup(m) == rows[m].proposal # None /\ rows[m].proposal.kind = "rollup"

Readable == {m \in Memories : rows[m].status \in {"active", "accepted"}}

\* Cards that a new proposal may revise; the topic is not modelled.
Cards(members) == {c \in Readable \ members : IsRollup(c)}

(* Faulty variant: duplicates keep the survivor (as proposals once did). *)
ProposalsKeepingSurvivor(members) ==
  {Proposal("dedup", members, members \ {s}, s) : s \in members}

\* A cluster of near duplicates, or a topic with its previous card.
Proposals(members) ==
  {Proposal("merge", members, members, None)}
    \cup {Proposal("dedup", members, members, s) : s \in members}
    \cup {Proposal("rollup", members, {}, None)}
    \cup {Proposal("rollup", members \cup {card}, {card}, None) :
            card \in Cards(members)}

\* Clusters draw on every readable row, topics on those that are no cards.
ReadMembers(w, members) ==
  /\ staged[w] = None
  /\ members \subseteq Readable
  /\ Cardinality(members) >= 2
  /\ \E p \in Proposals(members) :
       /\ p.kind \in Jobs
       /\ p.kind = "rollup" => \A m \in members : ~ IsRollup(m)
       /\ staged' = [staged EXCEPT ![w] = [job |-> "propose", proposal |-> p]]
  /\ UNCHANGED rows

PublishProposal(w, c) ==
  /\ staged[w] # None
  /\ staged[w].job = "propose"
  /\ rows[c].status = "absent"
  /\ rows' = [rows EXCEPT ![c] =
       [Blank EXCEPT !.status = "candidate", !.proposal = staged[w].proposal]]
  /\ staged' = [staged EXCEPT ![w] = None]

\* The plan is thrown away: the run failed, or its claim was lost.
Discard(w) ==
  /\ staged[w] # None
  /\ staged' = [staged EXCEPT ![w] = None]
  /\ UNCHANGED rows

-----------------------------------------------------------------------------
ServiceStep ==
  \E m \in Memories :
    \/ \E mode \in Modes : Commit(m, mode)
    \/ Lapse(m)
    \/ Confirm(m)
    \/ RejectConfirmation(m)
    \/ ExpireConfirmation(m)
    \/ ReplayConfirmation(m)
    \/ \E s \in Memories \cup {None} : Undo(m, s)
    \/ Correct(m)
    \/ Forget(m)
    \/ Expire(m)
    \/ Unexpire(m)
    \/ Accept(m)

ReviewStep ==
  \E m \in Memories :
    \/ Approve(m)
    \/ Reject(m)
    \/ KeepPrivate(m)
    \/ AssignProject(m)
    \/ \E n \in Memories : Replace(m, n)

JobStep ==
  \E w \in Sessions :
    \/ \E S \in SUBSET Memories : ReadSweep(w, S) \/ ReadMembers(w, S)
    \/ PublishSweep(w)
    \/ \E c \in Memories : PublishProposal(w, c)
    \/ Discard(w)

Next == ServiceStep \/ ReviewStep \/ JobStep

Spec == Init /\ [][Next]_vars

-----------------------------------------------------------------------------
(* Properties. *)

Statuses == LIVE \cup RETIRED \cup {"absent"}

ProposalOK(p) ==
  /\ p.kind \in Jobs
  /\ p.accepted \in BOOLEAN
  /\ DOMAIN p.members \subseteq Memories
  /\ \A m \in DOMAIN p.members : p.members[m].rev \in 0 .. MaxRev[m]
  /\ p.retires \subseteq DOMAIN p.members
  /\ p.survivor \in DOMAIN p.members \cup {None}

RowOK(m, row) ==
  /\ row.status \in Statuses
  /\ row.conf \in Confirmations
  /\ row.superseded_by \in Memories \cup {None}
  /\ row.supersedes \in Memories \cup {None}
  /\ row.bounded \in BOOLEAN
  /\ row.rev \in 0 .. MaxRev[m]
  /\ row.proposal # None => ProposalOK(row.proposal)

(* Rows and staged plans are well formed; whatever a proposal would retire   *)
(* is among the inputs it was reviewed with (member_snapshots covers         *)
(* cluster_member_ids and proposed_supersede).                               *)
TypeOK ==
  /\ DOMAIN rows = Memories
  /\ \A m \in Memories : RowOK(m, rows[m]) /\ (rows[m].status = "absent" => rows[m] = Blank)
  /\ DOMAIN staged = Sessions
  /\ \A w \in Sessions : staged[w] # None =>
       \/ /\ staged[w].job = "sweep"
          /\ DOMAIN staged[w].read \subseteq Memories
          /\ \A m \in DOMAIN staged[w].read : RowOK(m, staged[w].read[m])
       \/ /\ staged[w].job = "propose"
          /\ ProposalOK(staged[w].proposal)

(* No set of rows keeps all its superseded_by pointers inside: every chain   *)
(* ends (_guard_supersession_acyclic), also when the sweep has brought a     *)
(* retired row back to life and that row is offered as a successor.          *)
SupersessionAcyclic ==
  \A S \in SUBSET Memories : S # {} => \E m \in S : rows[m].superseded_by \notin S

(* A row that becomes the head of another's chain is an accepted, visible or *)
(* private, row once the step is done (require_valid_supersession_successor),*)
(* through undo, acceptance and replacement alike.                           *)
HeadIsLive ==
  [][\A m \in Memories :
       LET s == rows'[m].superseded_by IN
       s # rows[m].superseded_by => rows'[s].status \in SUCCESSOR]_vars

(* When a candidate is accepted, every input is exactly the row the          *)
(* generator read, whatever happened while the candidate was being           *)
(* generated, published and reviewed (memory_matches_snapshot).              *)
AcceptedAsReviewed ==
  [][\A c \in Memories :
       /\ Pending(c)
       /\ rows'[c].proposal # None
       /\ rows'[c].proposal.accepted
       => \A m \in DOMAIN rows[c].proposal.members :
            /\ rows[m].rev = rows[c].proposal.members[m].rev
            /\ rows[m].status \in LIVE]_vars

(* A row never says at once that its confirmation was refused or ran out and *)
(* that it is live: no correction, review, replay or reopened window brings  *)
(* such a row back, and a sweep that does writes back, with the status, the  *)
(* confirmation it had read (_retired_review_metadata, confirm).             *)
RefusedIsOut ==
  \A m \in Memories : rows[m].conf \in {"rejected", "expired"} => rows[m].status \in RETIRED

(* Retirement is terminal (vnext_lifecycle: "retirement is terminal and must *)
(* not be reversible").                                                      *)
RetiredStaysRetired ==
  [][\A m \in Memories : rows[m].status \in RETIRED => rows'[m].status \in RETIRED]_vars

(* A supersedes pointer is answered: the row it names was retired in favour  *)
(* of the row that holds it.                                                 *)
SupersedesAnswered ==
  \A m \in Memories :
    rows[m].supersedes # None =>
      /\ rows[rows[m].supersedes].superseded_by = m
      /\ rows[rows[m].supersedes].status = "superseded"

(* Once a candidate is accepted, every row it was to retire is retired and   *)
(* its chain of successors passes through the card, so that audit and        *)
(* explain can follow it (superseded_member_ids).                            *)
MergedLeadsToCard ==
  \A c \in Memories :
    rows[c].proposal # None /\ rows[c].proposal.accepted =>
      \A m \in rows[c].proposal.retires :
        /\ rows[m].status \in RETIRED
        /\ OnChain(c, m)

-----------------------------------------------------------------------------
(* What makes the properties inductive. *)

\* A proposal retires inputs only, its survivor among them, and all of them
\* could be read when it was made.
ProposalFits(p) ==
  /\ DOMAIN p = {"kind", "members", "retires", "survivor", "accepted"}
  /\ p.accepted \in BOOLEAN
  /\ DOMAIN p.members \subseteq Memories
  /\ \A m \in DOMAIN p.members : p.members[m].status \in {"active", "accepted"}
  /\ p.retires \subseteq DOMAIN p.members
  /\ p.survivor \in p.retires \cup {None}

ProposalsFit ==
  /\ \A m \in Memories :
       /\ rows[m].supersedes \in Memories \cup {None}
       /\ rows[m].proposal # None => ProposalFits(rows[m].proposal)
       /\ rows[m].status = "absent" => rows[m].supersedes = None /\ rows[m].proposal = None
  /\ \A w \in Sessions : staged[w] # None /\ staged[w].job = "propose" =>
       ProposalFits(staged[w].proposal) /\ ~ staged[w].proposal.accepted

\* A row that was active once is no candidate again, so what it derives from
\* stays as a sweep has read it.
SweepsStand ==
  \A w \in Sessions : staged[w] # None /\ staged[w].job = "sweep" =>
    /\ "sweep" \in Jobs
    /\ DOMAIN staged[w].read \subseteq Memories
    /\ \A m \in DOMAIN staged[w].read :
         /\ rows[m].status \notin ACCEPTABLE \cup {"absent"}
         /\ staged[w].read[m].proposal = rows[m].proposal

\* Without the sweep a row that has a successor stays superseded, its pointer is
\* answered, and it leads to the card it was merged into.
PointersFinal ==
  /\ \A m \in Memories : rows[m].superseded_by # None => rows[m].status = "superseded"
  /\ SupersedesAnswered
  /\ \A c \in Memories :
       rows[c].proposal # None /\ rows[c].proposal.accepted =>
         \A m \in rows[c].proposal.retires : rows[m].status = "superseded" /\ OnChain(c, m)

DerivationInvariant ==
  ProposalsFit /\ SweepsStand /\ ("sweep" \notin Jobs => PointersFinal)

=============================================================================
