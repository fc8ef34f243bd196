------------------------ MODULE MemoryLifecycleProofs ------------------------
(***************************************************************************)
(* The properties of MemoryLifecycle for every set of memories, sessions   *)
(* and jobs: first the supersession graph is acyclic and no row is live    *)
(* while it says that its confirmation was refused; then, from the shapes  *)
(* a step can have, the successors, the acceptance of candidates, and what *)
(* the pointers say where no staleness sweep runs.  Nothing is assumed of  *)
(* the constants but ConstantAssumption and, where it is stated, that.     *)
(***************************************************************************)
EXTENDS MemoryLifecycle, TLAPS

Fields ==
  {"status", "conf", "superseded_by", "supersedes", "bounded", "proposal", "rev"}

Refused == {"rejected", "expired"}

\* What a single row is like in every reachable state.
RowInvariant(r) ==
  /\ DOMAIN r = Fields
  /\ r.superseded_by \in Memories \cup {None}
  /\ r.status = "absent" => r.superseded_by = None
  /\ r.conf \in Refused => r.status \in RETIRED

RowsInvariant ==
  /\ rows = [m \in Memories |-> rows[m]]
  /\ \A m \in Memories : RowInvariant(rows[m])

\* What a staged sweep would write back was not refused when it was read.
SweepInvariant ==
  /\ staged = [w \in Sessions |-> staged[w]]
  /\ \A w \in Sessions :
       staged[w] # None /\ staged[w].job = "sweep" =>
         \A m \in DOMAIN staged[w].read : staged[w].read[m].conf \notin Refused

LifecycleInvariant == RowsInvariant /\ SweepInvariant /\ SupersessionAcyclic

-----------------------------------------------------------------------------
(* The graph. *)

(* A step that leaves the pointers alone leaves the graph acyclic. *)
LEMMA GraphUnchanged ==
  ASSUME SupersessionAcyclic,
         \A m \in Memories : rows'[m].superseded_by = rows[m].superseded_by
  PROVE  SupersessionAcyclic'
  BY DEF SupersessionAcyclic

(* Rows may be given the successor s at once if none of them is on the chain *)
(* that starts at s: a set that traps its pointers afterwards would have     *)
(* trapped them before, on the part of it that the chain of s covers.        *)
LEMMA GraphExtended ==
  ASSUME SupersessionAcyclic,
         NEW D \in SUBSET Memories, NEW s \in Memories,
         None \notin Memories,
         \A m \in Memories : rows[m].superseded_by \in Memories \cup {None},
         \A m \in D : ~ OnChain(m, s) /\ rows'[m].superseded_by = s,
         \A m \in Memories \ D : rows'[m].superseded_by = rows[m].superseded_by
  PROVE  SupersessionAcyclic'
<1> DEFINE Chain == {x \in Memories : OnChain(x, s)}
<1>1. Chain \in SUBSET Memories /\ s \in Chain
  BY DEF OnChain
<1>2. Closed(Chain)
  <2> SUFFICES ASSUME NEW x \in Chain, rows[x].superseded_by # None
               PROVE  rows[x].superseded_by \in Chain
    BY DEF Closed
  <2> DEFINE y == rows[x].superseded_by
  <2>1. y \in Memories
    OBVIOUS
  <2>2. ASSUME NEW T \in SUBSET Memories, s \in T, Closed(T)
        PROVE  y \in T
    <3>1. x \in T
      BY <2>2 DEF OnChain
    <3> QED
      BY <3>1, <2>2 DEF Closed
  <2> QED
    BY <2>1, <2>2 DEF OnChain
<1>3. D \cap Chain = {}
  OBVIOUS
<1> SUFFICES ASSUME NEW S \in SUBSET Memories, S # {},
                    \A m \in S : rows'[m].superseded_by \in S
             PROVE  FALSE
  BY DEF SupersessionAcyclic
<1>4. CASE S \cap D = {}
  <2>1. \A m \in S : rows[m].superseded_by \in S
    BY <1>4
  <2> QED
    BY <2>1 DEF SupersessionAcyclic
<1>5. CASE S \cap D # {}
  <2>1. s \in S \cap Chain
    BY <1>5, <1>1
  <2>2. ASSUME NEW m \in S \cap Chain
        PROVE  rows[m].superseded_by \in S \cap Chain
    <3>1. m \in Memories \ D
      BY <1>3
    <3>2. rows[m].superseded_by \in S
      BY <3>1
    <3>3. rows[m].superseded_by # None
      BY <3>2
    <3> QED
      BY <3>2, <3>3, <1>2 DEF Closed
  <2> QED
    BY <2>1, <2>2 DEF SupersessionAcyclic
<1> QED
  BY <1>4, <1>5

-----------------------------------------------------------------------------
(* Updates. *)

(* Bumping rev leaves the rest of a row alone. *)
LEMMA Bumped ==
  ASSUME NEW r, NEW v, RowInvariant(r)
  PROVE  /\ RowInvariant([r EXCEPT !.rev = v])
         /\ [r EXCEPT !.rev = v].superseded_by = r.superseded_by
  BY DEF RowInvariant, Fields

(* An UPDATE that writes rows satisfying the row invariant keeps it, and     *)
(* moves the pointers of the rows it names only.                             *)
LEMMA WriteRows ==
  ASSUME RowsInvariant, NEW f, Write(f),
         \A m \in DOMAIN f \cap Memories : RowInvariant(f[m])
  PROVE  /\ RowsInvariant'
         /\ \A m \in Memories :
              rows'[m].superseded_by =
                IF m \in DOMAIN f THEN f[m].superseded_by ELSE rows[m].superseded_by
<1>1. rows' = [m \in Memories |->
         IF m \in DOMAIN f THEN [f[m] EXCEPT !.rev = rows[m].rev + 1] ELSE rows[m]]
  BY DEF Write
<1>2. \A m \in Memories : m \in DOMAIN f =>
        /\ RowInvariant(rows'[m])
        /\ rows'[m].superseded_by = f[m].superseded_by
  BY <1>1, Bumped
<1>3. \A m \in Memories : m \notin DOMAIN f => rows'[m] = rows[m]
  BY <1>1
<1>4. rows' = [m \in Memories |-> rows'[m]]
  BY <1>1
<1>5. \A m \in Memories : RowInvariant(rows'[m])
  BY <1>2, <1>3 DEF RowsInvariant
<1>6. RowsInvariant'
  BY <1>4, <1>5 DEF RowsInvariant, RowInvariant
<1> QED
  BY <1>2, <1>3, <1>6

(* The same with the candidates that depend on S marked stale: a pending     *)
(* candidate was not refused, so it may be live.                             *)
LEMMA WriteInvalidatingRows ==
  ASSUME RowsInvariant, NEW f, NEW S, NEW e, WriteInvalidating(f, S, e),
         \A m \in DOMAIN f \cap Memories : RowInvariant(f[m])
  PROVE  /\ RowsInvariant'
         /\ \A m \in Memories :
              rows'[m].superseded_by =
                IF m \in DOMAIN f THEN f[m].superseded_by ELSE rows[m].superseded_by
<1> DEFINE stale == Dependents(S, e) \ DOMAIN f
           g == [m \in DOMAIN f \cup stale |->
                   IF m \in DOMAIN f THEN f[m] ELSE [rows[m] EXCEPT !.status = "stale"]]
<1>1. Write(g)
  BY DEF WriteInvalidating
<1>2. ASSUME NEW m \in stale
      PROVE  /\ m \in Memories
             /\ RowInvariant([rows[m] EXCEPT !.status = "stale"])
             /\ [rows[m] EXCEPT !.status = "stale"].superseded_by = rows[m].superseded_by
  <2>1. m \in Memories /\ rows[m].status \in ACCEPTABLE
    BY DEF Dependents
  <2>2. RowInvariant(rows[m]) /\ rows[m].conf \notin Refused
    BY <2>1 DEF RowsInvariant, RowInvariant, ACCEPTABLE, RETIRED
  <2> QED
    BY <2>1, <2>2 DEF RowInvariant, Fields
<1>3. \A m \in DOMAIN g \cap Memories : RowInvariant(g[m])
  BY <1>2
<1>4. /\ RowsInvariant'
      /\ \A m \in Memories :
           rows'[m].superseded_by =
             IF m \in DOMAIN g THEN g[m].superseded_by ELSE rows[m].superseded_by
  <2> HIDE DEF g
  <2> QED
    BY <1>1, <1>3, WriteRows
<1>5. ASSUME NEW m \in Memories
      PROVE  rows'[m].superseded_by =
               IF m \in DOMAIN f THEN f[m].superseded_by ELSE rows[m].superseded_by
  <2>1. CASE m \in DOMAIN f
    BY <2>1, <1>4
  <2>2. CASE m \in stale
    BY <2>2, <1>2, <1>4
  <2>3. CASE m \notin DOMAIN f /\ m \notin stale
    BY <2>3, <1>4
  <2> QED
    BY <2>1, <2>2, <2>3
<1> QED
  BY <1>4, <1>5

(* An UPDATE of one row that keeps its pointer. *)
LEMMA UpdateRow ==
  ASSUME RowsInvariant, SupersessionAcyclic, NEW m \in Memories, NEW row,
         Update(m, row), RowInvariant(row), row.superseded_by = rows[m].superseded_by
  PROVE  RowsInvariant' /\ SupersessionAcyclic'
<1> DEFINE f == [x \in {m} |-> row]
<1>1. Write(f) /\ \A x \in DOMAIN f : RowInvariant(f[x])
  BY DEF Update
<1>2. /\ RowsInvariant'
      /\ \A x \in Memories :
           rows'[x].superseded_by =
             IF x \in DOMAIN f THEN f[x].superseded_by ELSE rows[x].superseded_by
  <2> HIDE DEF f
  <2> QED
    BY <1>1, WriteRows
<1>3. \A x \in Memories : rows'[x].superseded_by = rows[x].superseded_by
  BY <1>2
<1> QED
  BY <1>2, <1>3, GraphUnchanged

(* A legal operation finds a row that was not refused. *)
LEMMA LegalNotRefused ==
  ASSUME RowsInvariant, NEW m \in Memories, rows[m].status \in LIVE
  PROVE  rows[m].conf \notin Refused
  BY DEF RowsInvariant, RowInvariant, LIVE, RETIRED

LEMMA LegalIsLive ==
  ASSUME NEW m,
         NEW op \in {"confirm_accept", "confirm_reject", "confirm_expire",
                     "review_approve", "review_reject", "review_supersede", "correct",
                     "undo", "forget", "supersede_member", "expire", "unexpire"},
         Legal(op, m)
  PROVE  rows[m].status \in LIVE
  BY DEF Legal, Transitions, To, LIVE

-----------------------------------------------------------------------------
(* Each operation keeps the rows and the graph. *)

LEMMA ServiceKeeps ==
  ASSUME ConstantAssumption, RowsInvariant, SupersessionAcyclic, ServiceStep
  PROVE  RowsInvariant' /\ SupersessionAcyclic'
<1> PICK m \in Memories :
      \/ \E mode \in Modes : Commit(m, mode)
      \/ Lapse(m)
      \/ Confirm(m)
      \/ RejectConfirmation(m)
      \/ ExpireConfirmation(m)
      \/ ReplayConfirmation(m)
      \/ \E s \in Memories \cup {None} : Undo(m, s)
      \/ Correct(m)
      \/ Forget(m)
      \/ Expire(m)
      \/ Unexpire(m)
      \/ Accept(m)
  BY DEF ServiceStep
<1>row. RowInvariant(rows[m])
  BY DEF RowsInvariant
<1>1. ASSUME NEW mode \in Modes, Commit(m, mode)
      PROVE  RowsInvariant' /\ SupersessionAcyclic'
  <2>1. RowInvariant(Committed(mode)) /\ Committed(mode).superseded_by = None
    BY ConstantAssumption DEF Committed, Blank, RowInvariant, Fields, Refused
  <2>2. rows[m].superseded_by = None
    BY <1>1, <1>row DEF Commit, RowInvariant
  <2>3. rows' = [rows EXCEPT ![m] = Committed(mode)]
    BY <1>1 DEF Commit
  <2>4. RowsInvariant'
    BY <2>1, <2>3 DEF RowsInvariant, RowInvariant
  <2>5. \A x \in Memories : rows'[x].superseded_by = rows[x].superseded_by
    BY <2>1, <2>2, <2>3 DEF RowsInvariant
  <2> QED
    BY <2>4, <2>5, GraphUnchanged
<1>2. CASE Lapse(m)
  <2>1. rows' = [rows EXCEPT ![m].conf = "lapsed"]
    BY <1>2 DEF Lapse
  <2>2. RowInvariant([rows[m] EXCEPT !.conf = "lapsed"])
    BY <1>row DEF RowInvariant, Fields, Refused
  <2>3. RowsInvariant'
    BY <2>1, <2>2 DEF RowsInvariant, RowInvariant
  <2>4. \A x \in Memories : rows'[x].superseded_by = rows[x].superseded_by
    BY <2>1, <1>row DEF RowsInvariant, RowInvariant, Fields
  <2> QED
    BY <2>3, <2>4, GraphUnchanged
<1>3. CASE Confirm(m)
  <2> DEFINE row == Decided(m, "active", "confirmed")
  <2>1. RowInvariant(row) /\ row.superseded_by = rows[m].superseded_by
    BY <1>3, <1>row
       DEF Confirm, Decided, Answered, RowInvariant, Fields, Refused
  <2> QED
    BY <1>3, <2>1, UpdateRow DEF Confirm
<1>4. CASE RejectConfirmation(m)
  <2> DEFINE row == Decided(m, "rejected", "rejected")
  <2>1. RowInvariant(row) /\ row.superseded_by = rows[m].superseded_by
    BY <1>4, <1>row
       DEF RejectConfirmation, Decided, Answered, RowInvariant, Fields, RETIRED
  <2> QED
    BY <1>4, <2>1, UpdateRow DEF RejectConfirmation
<1>5. CASE ExpireConfirmation(m)
  <2> DEFINE row == Decided(m, "rejected", "expired")
  <2>1. RowInvariant(row) /\ row.superseded_by = rows[m].superseded_by
    BY <1>5, <1>row
       DEF ExpireConfirmation, Decided, Answered, RowInvariant, Fields, RETIRED
  <2> QED
    BY <1>5, <2>1, UpdateRow DEF ExpireConfirmation
<1>6. CASE ReplayConfirmation(m)
  BY <1>6, <1>row, UpdateRow DEF ReplayConfirmation
<1>7. ASSUME NEW s \in Memories \cup {None}, Undo(m, s)
      PROVE  RowsInvariant' /\ SupersessionAcyclic'
  <2> DEFINE old == [rows[m] EXCEPT !.status = "superseded",
                                    !.superseded_by = IF s = None THEN @ ELSE s,
                                    !.bounded = @ \/ s # None]
             f == [x \in {m, s} \ {None} |->
                     IF x = m THEN old ELSE [rows[s] EXCEPT !.supersedes = m]]
  <2>1. WriteInvalidating(f, {m}, None)
    BY <1>7 DEF Undo
  <2>2. /\ RowInvariant(old)
        /\ old.superseded_by = IF s = None THEN rows[m].superseded_by ELSE s
    BY <1>row DEF RowInvariant, Fields, RETIRED
  <2>3. ASSUME s # None, s # m
        PROVE  /\ RowInvariant([rows[s] EXCEPT !.supersedes = m])
               /\ [rows[s] EXCEPT !.supersedes = m].superseded_by = rows[s].superseded_by
    <3>1. RowInvariant(rows[s])
      BY <2>3 DEF RowsInvariant
    <3> QED
      BY <3>1 DEF RowInvariant, Fields
  <2>4. s # None => s # m /\ ~ OnChain(m, s)
    BY <1>7 DEF Undo, MaySucceed
  <2>5. \A x \in DOMAIN f : RowInvariant(f[x])
    <3> SUFFICES ASSUME NEW x \in {m, s} \ {None}
                 PROVE  RowInvariant(f[x])
      OBVIOUS
    <3>1. CASE x = m
      BY <3>1, <2>2
    <3>2. CASE x # m
      BY <3>2, <2>3, <2>4
    <3> QED
      BY <3>1, <3>2
  <2>6. /\ RowsInvariant'
        /\ \A x \in Memories :
             rows'[x].superseded_by =
               IF x \in DOMAIN f THEN f[x].superseded_by ELSE rows[x].superseded_by
    <3> HIDE DEF f
    <3> QED
      BY <2>1, <2>5, WriteInvalidatingRows
  <2>7. \A x \in Memories \ {m} : rows'[x].superseded_by = rows[x].superseded_by
    BY <2>3, <2>4, <2>6
  <2>8. m \in DOMAIN f /\ f[m] = old
    BY ConstantAssumption DEF ConstantAssumption
  <2>9. rows'[m].superseded_by = IF s = None THEN rows[m].superseded_by ELSE s
    BY <2>2, <2>6, <2>8
  <2>10. CASE s = None
    <3>1. \A x \in Memories : rows'[x].superseded_by = rows[x].superseded_by
      BY <2>7, <2>9, <2>10
    <3> QED
      BY <2>6, <3>1, GraphUnchanged
  <2>11. CASE s # None
    <3> DEFINE D == {m}
    <3>1. s \in Memories /\ D \in SUBSET Memories
      BY <2>11
    <3>2. \A x \in D : ~ OnChain(x, s) /\ rows'[x].superseded_by = s
      BY <2>4, <2>9, <2>11
    <3>3. \A x \in Memories \ D : rows'[x].superseded_by = rows[x].superseded_by
      BY <2>7
    <3>4. /\ \A x \in Memories : rows[x].superseded_by \in Memories \cup {None}
          /\ None \notin Memories
      BY ConstantAssumption DEF ConstantAssumption, RowsInvariant, RowInvariant
    <3> HIDE DEF D
    <3>5. SupersessionAcyclic'
      BY <3>1, <3>2, <3>3, <3>4, GraphExtended
    <3> QED
      BY <2>6, <3>5
  <2> QED
    BY <2>10, <2>11
<1>8. CASE Correct(m)
  <2> DEFINE f == [x \in {m} |-> [rows[m] EXCEPT !.status = "active"]]
  <2>1. rows[m].conf \notin Refused
    BY <1>8, LegalIsLive, LegalNotRefused DEF Correct
  <2>2. /\ RowInvariant([rows[m] EXCEPT !.status = "active"])
        /\ [rows[m] EXCEPT !.status = "active"].superseded_by = rows[m].superseded_by
    BY <2>1, <1>row DEF RowInvariant, Fields
  <2>3. WriteInvalidating(f, {m}, None) /\ \A x \in DOMAIN f : RowInvariant(f[x])
    BY <1>8, <2>2 DEF Correct
  <2>4. /\ RowsInvariant'
        /\ \A x \in Memories :
             rows'[x].superseded_by =
               IF x \in DOMAIN f THEN f[x].superseded_by ELSE rows[x].superseded_by
    <3> HIDE DEF f
    <3> QED
      BY <2>3, WriteInvalidatingRows
  <2>5. \A x \in Memories : rows'[x].superseded_by = rows[x].superseded_by
    BY <2>2, <2>4
  <2> QED
    BY <2>4, <2>5, GraphUnchanged
<1>9. CASE Forget(m)
  <2> DEFINE f == [x \in {m} |-> [rows[m] EXCEPT !.status = "superseded"]]
  <2>2. /\ RowInvariant([rows[m] EXCEPT !.status = "superseded"])
        /\ [rows[m] EXCEPT !.status = "superseded"].superseded_by = rows[m].superseded_by
    BY <1>row DEF RowInvariant, Fields, RETIRED
  <2>3. WriteInvalidating(f, {m}, None) /\ \A x \in DOMAIN f : RowInvariant(f[x])
    BY <1>9, <2>2 DEF Forget
  <2>4. /\ RowsInvariant'
        /\ \A x \in Memories :
             rows'[x].superseded_by =
               IF x \in DOMAIN f THEN f[x].superseded_by ELSE rows[x].superseded_by
    <3> HIDE DEF f
    <3> QED
      BY <2>3, WriteInvalidatingRows
  <2>5. \A x \in Memories : rows'[x].superseded_by = rows[x].superseded_by
    BY <2>2, <2>4
  <2> QED
    BY <2>4, <2>5, GraphUnchanged
<1>10. CASE Expire(m)
  <2>1. /\ RowInvariant([rows[m] EXCEPT !.bounded = TRUE])
        /\ [rows[m] EXCEPT !.bounded = TRUE].superseded_by = rows[m].superseded_by
    BY <1>row DEF RowInvariant, Fields
  <2> QED
    BY <1>10, <2>1, UpdateRow DEF Expire
<1>11. CASE Unexpire(m)
  <2> DEFINE row == [rows[m] EXCEPT !.status = After("unexpire", m), !.bounded = FALSE]
  <2>1. rows[m].status \in LIVE
    BY <1>11, LegalIsLive DEF Unexpire
  <2>2. rows[m].conf \notin Refused
    BY <2>1, LegalNotRefused
  <2>3. After("unexpire", m) # "absent"
    BY <2>1 DEF After, Transitions, LIVE
  <2>4. RowInvariant(row) /\ row.superseded_by = rows[m].superseded_by
    BY <2>2, <2>3, <1>row DEF RowInvariant, Fields
  <2> QED
    BY <1>11, <2>4, UpdateRow DEF Unexpire
<1>12. CASE Accept(m)
  <2> DEFINE p == rows[m].proposal
             R == {x \in p.retires : rows[x].status # "superseded"
                                        /\ rows[x].superseded_by = None}
             card == [rows[m] EXCEPT !.status = "active",
                                     !.supersedes = IF p.survivor = None THEN @ ELSE p.survivor,
                                     !.proposal.accepted = TRUE]
             f == [x \in R \cup {m} |->
                     IF x = m THEN card
                     ELSE [rows[x] EXCEPT !.status = "superseded", !.superseded_by = m,
                                          !.bounded = TRUE]]
  <2>1. /\ \A x \in R : Legal("supersede_member", x)
                          /\ MaySucceed(x, m, SUCCESSOR \cup ACCEPTABLE)
        /\ WriteInvalidating(f, R, m)
        /\ rows[m].status \in ACCEPTABLE
    BY <1>12 DEF Accept
  <2>2. rows[m].conf \notin Refused
    BY <2>1, LegalNotRefused DEF ACCEPTABLE, LIVE
  <2>3. RowInvariant(card) /\ card.superseded_by = rows[m].superseded_by
    BY <2>2, <1>row DEF RowInvariant, Fields
  <2>4. m \notin R
    BY <2>1 DEF MaySucceed, OnChain
  <2>5. ASSUME NEW x \in R \cap Memories
        PROVE  RowInvariant(f[x]) /\ f[x].superseded_by = m
    <3>1. RowInvariant(rows[x]) /\ x # m
      BY <2>4 DEF RowsInvariant
    <3> QED
      BY <3>1 DEF RowInvariant, Fields, RETIRED
  <2>6. \A x \in DOMAIN f \cap Memories : RowInvariant(f[x])
    BY <2>3, <2>5
  <2>7. /\ RowsInvariant'
        /\ \A x \in Memories :
             rows'[x].superseded_by =
               IF x \in DOMAIN f THEN f[x].superseded_by ELSE rows[x].superseded_by
    <3> HIDE DEF f
    <3> QED
      BY <2>1, <2>6, WriteInvalidatingRows
  <2> DEFINE D == R \cap Memories
  <2>8. \A x \in D : ~ OnChain(x, m) /\ rows'[x].superseded_by = m
    BY <2>1, <2>5, <2>7 DEF MaySucceed
  <2>9. \A x \in Memories \ D : rows'[x].superseded_by = rows[x].superseded_by
    BY <2>3, <2>7
  <2>10. /\ \A x \in Memories : rows[x].superseded_by \in Memories \cup {None}
         /\ None \notin Memories
    BY ConstantAssumption DEF ConstantAssumption, RowsInvariant, RowInvariant
  <2>11. D \in SUBSET Memories
    OBVIOUS
  <2>12. SupersessionAcyclic'
    <3> HIDE DEF D
    <3> QED
      BY <2>8, <2>9, <2>10, <2>11, GraphExtended
  <2> QED
    BY <2>7, <2>12
<1> QED
  BY <1>1, <1>2, <1>3, <1>4, <1>5, <1>6, <1>7, <1>8, <1>9, <1>10, <1>11, <1>12

LEMMA ReviewKeeps ==
  ASSUME ConstantAssumption, RowsInvariant, SupersessionAcyclic, ReviewStep
  PROVE  RowsInvariant' /\ SupersessionAcyclic'
<1> PICK m \in Memories :
      \/ Approve(m)
      \/ Reject(m)
      \/ KeepPrivate(m)
      \/ AssignProject(m)
      \/ \E n \in Memories : Replace(m, n)
  BY DEF ReviewStep
<1>row. RowInvariant(rows[m])
  BY DEF RowsInvariant
<1>1. CASE Approve(m)
  <2> DEFINE row == Decided(m, "active", "confirmed")
  <2>1. rows[m].conf \notin Refused
    BY <1>1, LegalIsLive, LegalNotRefused DEF Approve
  <2>2. RowInvariant(row) /\ row.superseded_by = rows[m].superseded_by
    BY <2>1, <1>row DEF Decided, Answered, RowInvariant, Fields, Refused
  <2> QED
    BY <1>1, <2>2, UpdateRow DEF Approve
<1>2. CASE Reject(m)
  <2> DEFINE row == Decided(m, "rejected", "rejected")
  <2>1. RowInvariant(row) /\ row.superseded_by = rows[m].superseded_by
    BY <1>row DEF Decided, Answered, RowInvariant, Fields, RETIRED
  <2> QED
    BY <1>2, <2>1, UpdateRow DEF Reject
<1>3. CASE KeepPrivate(m)
  <2> DEFINE row == [rows[m] EXCEPT !.status = "private_only"]
  <2>1. rows[m].conf \notin Refused
    BY <1>3, LegalNotRefused DEF KeepPrivate
  <2>2. RowInvariant(row) /\ row.superseded_by = rows[m].superseded_by
    BY <2>1, <1>row DEF RowInvariant, Fields
  <2> QED
    BY <1>3, <2>2, UpdateRow DEF KeepPrivate
<1>4. CASE AssignProject(m)
  BY <1>4, <1>row, UpdateRow DEF AssignProject
<1>5. ASSUME NEW n \in Memories, Replace(m, n)
      PROVE  RowsInvariant' /\ SupersessionAcyclic'
  <2> DEFINE old == [Decided(m, "superseded", "superseded") EXCEPT !.superseded_by = n]
             new == [Blank EXCEPT !.status = "active", !.supersedes = m,
                                  !.conf = Answered(rows[m].conf, "confirmed"),
                                  !.proposal = rows[m].proposal]
             f == [x \in {m, n} |-> IF x = m THEN old ELSE new]
  <2>1. rows[m].status \in LIVE /\ rows[m].conf \notin Refused
    BY <1>5, LegalIsLive, LegalNotRefused DEF Replace
  <2>2. m # n /\ rows[n].superseded_by = None
    <3>1. rows[n].status = "absent" /\ RowInvariant(rows[n])
      BY <1>5 DEF Replace, RowsInvariant
    <3> QED
      BY <2>1, <3>1 DEF RowInvariant, LIVE
  <2>3. RowInvariant(old) /\ old.superseded_by = n
    BY <1>row DEF Decided, Answered, RowInvariant, Fields, RETIRED
  <2>4. RowInvariant(new) /\ new.superseded_by = None
    BY <2>1 DEF Blank, Answered, RowInvariant, Fields, Refused
  <2>5. Write(f) /\ \A x \in DOMAIN f \cap Memories : RowInvariant(f[x])
    BY <1>5, <2>3, <2>4 DEF Replace
  <2>6. /\ RowsInvariant'
        /\ \A x \in Memories :
             rows'[x].superseded_by =
               IF x \in DOMAIN f THEN f[x].superseded_by ELSE rows[x].superseded_by
    <3> HIDE DEF f
    <3> QED
      BY <2>5, WriteRows
  <2>7. ~ OnChain(m, n)
    <3>1. {n} \in SUBSET Memories /\ n \in {n} /\ Closed({n}) /\ m \notin {n}
      BY <2>2 DEF Closed
    <3> QED
      BY <3>1 DEF OnChain
  <2> DEFINE D == {m}
  <2>8. \A x \in D : ~ OnChain(x, n) /\ rows'[x].superseded_by = n
    BY <2>3, <2>6, <2>7
  <2>9. \A x \in Memories \ D : rows'[x].superseded_by = rows[x].superseded_by
    BY <2>2, <2>4, <2>6
  <2>10. /\ \A x \in Memories : rows[x].superseded_by \in Memories \cup {None}
         /\ None \notin Memories
    BY ConstantAssumption DEF ConstantAssumption, RowsInvariant, RowInvariant
  <2>11. D \in SUBSET Memories
    OBVIOUS
  <2>12. SupersessionAcyclic'
    <3> HIDE DEF D
    <3> QED
      BY <2>8, <2>9, <2>10, <2>11, GraphExtended
  <2> QED
    BY <2>6, <2>12
<1> QED
  BY <1>1, <1>2, <1>3, <1>4, <1>5

(* A published sweep writes whatever it read, over whatever the rows have    *)
(* become since; it moves no pointer, and the confirmation it writes back    *)
(* was not refused.                                                          *)
LEMMA JobKeeps ==
  ASSUME LifecycleInvariant, JobStep
  PROVE  LifecycleInvariant'
<1> PICK w \in Sessions :
      \/ \E S \in SUBSET Memories : ReadSweep(w, S) \/ ReadMembers(w, S)
      \/ PublishSweep(w)
      \/ \E c \in Memories : PublishProposal(w, c)
      \/ Discard(w)
  BY DEF JobStep
<1> USE DEF LifecycleInvariant
<1>1. ASSUME NEW S \in SUBSET Memories, ReadSweep(w, S)
      PROVE  LifecycleInvariant'
  <2> DEFINE read == [m \in S |-> rows[m]]
  <2>1. /\ rows' = rows
        /\ staged' = [staged EXCEPT ![w] = [job |-> "sweep", read |-> read]]
    BY <1>1 DEF ReadSweep
  <2>2. \A m \in S : rows[m].conf \notin Refused
    BY <1>1, LegalNotRefused DEF ReadSweep, LIVE
  <2>3. SweepInvariant'
    BY <2>1, <2>2 DEF SweepInvariant
  <2> QED
    BY <2>1, <2>3 DEF RowsInvariant, RowInvariant, SupersessionAcyclic
<1>2. ASSUME NEW S \in SUBSET Memories, ReadMembers(w, S)
      PROVE  LifecycleInvariant'
  <2>1. PICK p \in Proposals(S) :
          staged' = [staged EXCEPT ![w] = [job |-> "propose", proposal |-> p]]
    BY <1>2 DEF ReadMembers
  <2>2. rows' = rows
    BY <1>2 DEF ReadMembers
  <2>3. SweepInvariant'
    BY <2>1 DEF SweepInvariant
  <2> QED
    BY <2>2, <2>3 DEF RowsInvariant, RowInvariant, SupersessionAcyclic
<1>3. CASE PublishSweep(w)
  <2> DEFINE f == [m \in DOMAIN staged[w].read |-> Swept(m, staged[w].read[m])]
  <2>1. /\ Write(f)
        /\ staged' = [staged EXCEPT ![w] = None]
        /\ \A m \in DOMAIN staged[w].read : staged[w].read[m].conf \notin Refused
    BY <1>3 DEF PublishSweep, SweepInvariant
  <2>2. ASSUME NEW m \in DOMAIN f \cap Memories
        PROVE  RowInvariant(f[m]) /\ f[m].superseded_by = rows[m].superseded_by
    <3>1. RowInvariant(rows[m])
      BY DEF RowsInvariant
    <3> QED
      BY <2>1, <3>1 DEF Swept, RowInvariant, Fields
  <2>3. /\ RowsInvariant'
        /\ \A m \in Memories :
             rows'[m].superseded_by =
               IF m \in DOMAIN f THEN f[m].superseded_by ELSE rows[m].superseded_by
    <3> HIDE DEF f
    <3> QED
      BY <2>1, <2>2, WriteRows
  <2>4. \A m \in Memories : rows'[m].superseded_by = rows[m].superseded_by
    BY <2>2, <2>3
  <2>5. SweepInvariant'
    BY <2>1 DEF SweepInvariant
  <2> QED
    BY <2>3, <2>4, <2>5, GraphUnchanged
<1>4. ASSUME NEW c \in Memories, PublishProposal(w, c)
      PROVE  LifecycleInvariant'
  <2> DEFINE row == [Blank EXCEPT !.status = "candidate", !.proposal = staged[w].proposal]
  <2>1. /\ rows' = [rows EXCEPT ![c] = row]
        /\ staged' = [staged EXCEPT ![w] = None]
        /\ rows[c].superseded_by = None
    BY <1>4 DEF PublishProposal, RowsInvariant, RowInvariant
  <2>2. RowInvariant(row) /\ row.superseded_by = None
    BY DEF Blank, RowInvariant, Fields, Refused
  <2>3. RowsInvariant'
    BY <2>1, <2>2 DEF RowsInvariant, RowInvariant
  <2>4. \A x \in Memories : rows'[x].superseded_by = rows[x].superseded_by
    BY <2>1, <2>2 DEF RowsInvariant
  <2>5. SweepInvariant'
    BY <2>1 DEF SweepInvariant
  <2> QED
    BY <2>3, <2>4, <2>5, GraphUnchanged
<1>5. CASE Discard(w)
  <2>1. rows' = rows /\ staged' = [staged EXCEPT ![w] = None]
    BY <1>5 DEF Discard
  <2>2. SweepInvariant'
    BY <2>1 DEF SweepInvariant
  <2> QED
    BY <2>1, <2>2 DEF RowsInvariant, RowInvariant, SupersessionAcyclic
<1> QED
  BY <1>1, <1>2, <1>3, <1>4, <1>5

-----------------------------------------------------------------------------
(* The service and the reviews leave the staged plans alone. *)
LEMMA OnlyJobsStage ==
  ASSUME ServiceStep \/ ReviewStep
  PROVE  staged' = staged
  BY DEF ServiceStep, ReviewStep, Commit, Lapse, Confirm, RejectConfirmation,
         ExpireConfirmation, ReplayConfirmation, Undo, Correct, Forget, Expire,
         Unexpire, Accept, Approve, Reject, KeepPrivate, AssignProject, Replace

(* The inductive invariant of the memory lifecycle holds in every reachable  *)
(* state.                                                                    *)
THEOREM LifecycleHolds == Spec => []LifecycleInvariant
<1>1. Init => LifecycleInvariant
  <2> SUFFICES ASSUME Init PROVE LifecycleInvariant
    OBVIOUS
  <2>1. RowsInvariant
    BY DEF Init, RowsInvariant, RowInvariant, Blank, Fields, Refused
  <2>2. SweepInvariant
    BY DEF Init, SweepInvariant
  <2>3. SupersessionAcyclic
    BY ConstantAssumption DEF Init, Blank, SupersessionAcyclic, ConstantAssumption
  <2> QED
    BY <2>1, <2>2, <2>3 DEF LifecycleInvariant
<1>2. LifecycleInvariant /\ [Next]_vars => LifecycleInvariant'
  <2> SUFFICES ASSUME LifecycleInvariant, [Next]_vars PROVE LifecycleInvariant'
    OBVIOUS
  <2>1. CASE ServiceStep
    BY <2>1, ConstantAssumption, ServiceKeeps, OnlyJobsStage
       DEF LifecycleInvariant, SweepInvariant
  <2>2. CASE ReviewStep
    BY <2>2, ConstantAssumption, ReviewKeeps, OnlyJobsStage
       DEF LifecycleInvariant, SweepInvariant
  <2>3. CASE JobStep
    BY <2>3, JobKeeps
  <2>4. CASE UNCHANGED vars
    BY <2>4 DEF vars, LifecycleInvariant, RowsInvariant, RowInvariant,
                SweepInvariant, SupersessionAcyclic
  <2> QED
    BY <2>1, <2>2, <2>3, <2>4 DEF Next
<1> QED
  BY <1>1, <1>2, PTL DEF Spec

(* Whatever undo, acceptance, replacement and the sweep do to the rows, the  *)
(* superseded_by pointers never form a cycle.                                *)
THEOREM ChainsEnd == Spec => []SupersessionAcyclic
<1>1. LifecycleInvariant => SupersessionAcyclic
  BY DEF LifecycleInvariant
<1> QED
  BY <1>1, LifecycleHolds, PTL

(* A row that says its confirmation was refused or ran out is retired, also  *)
(* when a sweep that read it earlier is published afterwards (the sweep      *)
(* writes the confirmation it read along with the status).                   *)
THEOREM RefusalHolds == Spec => []RefusedIsOut
<1>1. LifecycleInvariant => RefusedIsOut
  BY DEF LifecycleInvariant, RowsInvariant, RowInvariant, RefusedIsOut, Refused
<1> QED
  BY <1>1, LifecycleHolds, PTL

-----------------------------------------------------------------------------
(* What a step makes of the rows.                                            *)

\* The parts of a row that say what it came from and where it went.
Same(m) ==
  /\ rows'[m].superseded_by = rows[m].superseded_by
  /\ rows'[m].supersedes = rows[m].supersedes
  /\ rows'[m].proposal = rows[m].proposal

\* No row becomes a candidate again, and only the sweep brings one back.
Steady(m) ==
  /\ rows[m].status \notin ACCEPTABLE \cup {"absent"} =>
       rows'[m].status \notin ACCEPTABLE \cup {"absent"}
  /\ rows'[m].status = "absent" => rows[m].status = "absent"
  /\ "sweep" \notin Jobs /\ rows[m].status \in RETIRED => rows'[m].status = rows[m].status

\* A row is inserted.
Created(c) ==
  /\ rows[c].status = "absent" /\ rows'[c].status # "absent"
  /\ rows'[c].superseded_by = None /\ rows'[c].supersedes = None
  /\ rows'[c].proposal # None =>
       ProposalFits(rows'[c].proposal) /\ ~ rows'[c].proposal.accepted
  /\ \A m \in Memories \ {c} : Same(m)

\* m is undone in favour of s.
Succeeded(m, s) ==
  /\ s # m /\ rows[m].status \in LIVE /\ rows'[m].status = "superseded"
  /\ rows'[m].superseded_by = s /\ rows'[m].supersedes = rows[m].supersedes
  /\ rows'[m].proposal = rows[m].proposal
  /\ rows'[s].superseded_by = rows[s].superseded_by /\ rows'[s].supersedes = m
  /\ rows'[s].proposal = rows[s].proposal /\ rows'[s].status \in SUCCESSOR
  /\ \A x \in Memories \ {m, s} : Same(x)

Retiring(c) ==
  {m \in rows[c].proposal.retires : rows[m].status # "superseded"
                                      /\ rows[m].superseded_by = None}

\* c is accepted over its members.
Merged(c) ==
  /\ Pending(c) /\ rows[c].status \in ACCEPTABLE /\ AsReviewed(c) /\ c \notin Retiring(c)
  /\ rows'[c].status = "active" /\ rows'[c].superseded_by = rows[c].superseded_by
  /\ rows'[c].supersedes = IF rows[c].proposal.survivor = None THEN rows[c].supersedes
                           ELSE rows[c].proposal.survivor
  /\ rows'[c].proposal = [rows[c].proposal EXCEPT !.accepted = TRUE]
  /\ \A m \in Memories \cap Retiring(c) :
       /\ rows[m].status \in LIVE /\ rows'[m].status = "superseded"
       /\ rows'[m].superseded_by = c /\ rows'[m].supersedes = rows[m].supersedes
       /\ rows'[m].proposal = rows[m].proposal
  /\ \A m \in Memories \ {c} : m \notin Retiring(c) => Same(m)

\* n is inserted in the place of m.
Replaced(m, n) ==
  /\ m # n /\ rows[m].status \in LIVE /\ ~ Pending(m) /\ rows[n].status = "absent"
  /\ rows'[m].status = "superseded" /\ rows'[m].superseded_by = n
  /\ rows'[m].supersedes = rows[m].supersedes /\ rows'[m].proposal = rows[m].proposal
  /\ rows'[n].status = "active" /\ rows'[n].superseded_by = None
  /\ rows'[n].supersedes = m /\ rows'[n].proposal = rows[m].proposal
  /\ \A x \in Memories \ {m, n} : Same(x)

Shaped ==
  /\ \A m \in Memories : Steady(m)
  /\ \/ \A m \in Memories : Same(m)
     \/ \E c \in Memories : Created(c) \/ Merged(c)
     \/ \E m, n \in Memories : Succeeded(m, n) \/ Replaced(m, n)

(* An UPDATE writes the fields it is given and moves rev.                     *)
LEMMA Written ==
  ASSUME RowsInvariant, NEW f, Write(f), \A m \in DOMAIN f \cap Memories : DOMAIN f[m] = Fields
  PROVE  /\ \A m \in DOMAIN f \cap Memories :
              /\ rows'[m].status = f[m].status /\ rows'[m].superseded_by = f[m].superseded_by
              /\ rows'[m].supersedes = f[m].supersedes /\ rows'[m].proposal = f[m].proposal
         /\ \A m \in Memories : m \notin DOMAIN f => rows'[m] = rows[m]
<1>1. rows' = [m \in Memories |->
         IF m \in DOMAIN f THEN [f[m] EXCEPT !.rev = rows[m].rev + 1] ELSE rows[m]]
  BY DEF Write
<1>2. ASSUME NEW m \in DOMAIN f \cap Memories
      PROVE  /\ rows'[m].status = f[m].status /\ rows'[m].superseded_by = f[m].superseded_by
             /\ rows'[m].supersedes = f[m].supersedes /\ rows'[m].proposal = f[m].proposal
  <2>1. rows'[m] = [f[m] EXCEPT !.rev = rows[m].rev + 1] /\ DOMAIN f[m] = Fields
    BY <1>1
  <2>. QED
    BY <2>1 DEF Fields
<1>. QED
  BY <1>1, <1>2

(* The same when the candidates derived from S are marked stale with it.      *)
LEMMA WrittenInvalidating ==
  ASSUME RowsInvariant, NEW f, NEW S, NEW e, WriteInvalidating(f, S, e),
         \A m \in DOMAIN f \cap Memories : DOMAIN f[m] = Fields
  PROVE  /\ \A m \in DOMAIN f \cap Memories :
              /\ rows'[m].status = f[m].status /\ rows'[m].superseded_by = f[m].superseded_by
              /\ rows'[m].supersedes = f[m].supersedes /\ rows'[m].proposal = f[m].proposal
         /\ \A m \in Memories : m \notin DOMAIN f => Same(m) /\ Steady(m)
<1>. DEFINE stale == Dependents(S, e) \ DOMAIN f
            g == [m \in DOMAIN f \cup stale |->
                    IF m \in DOMAIN f THEN f[m] ELSE [rows[m] EXCEPT !.status = "stale"]]
<1>1. Write(g)
  BY DEF WriteInvalidating
<1>2. \A m \in stale : m \in Memories /\ rows[m].status \in ACCEPTABLE /\ m \notin DOMAIN f
  BY DEF Dependents
<1>3. ASSUME NEW m \in stale
      PROVE  /\ DOMAIN g[m] = Fields /\ g[m].status = "stale"
             /\ g[m].superseded_by = rows[m].superseded_by
             /\ g[m].supersedes = rows[m].supersedes /\ g[m].proposal = rows[m].proposal
  <2>1. g[m] = [rows[m] EXCEPT !.status = "stale"] /\ DOMAIN rows[m] = Fields
    BY <1>2 DEF RowsInvariant, RowInvariant
  <2>. HIDE DEF g
  <2>. QED
    BY <2>1 DEF Fields
<1>4. /\ DOMAIN g = DOMAIN f \cup stale /\ \A m \in DOMAIN f : g[m] = f[m]
  OBVIOUS
<1>. HIDE DEF g, stale
<1>5. \A m \in DOMAIN g \cap Memories : DOMAIN g[m] = Fields
  BY <1>3, <1>4
<1>6. /\ \A m \in DOMAIN g \cap Memories :
            /\ rows'[m].status = g[m].status /\ rows'[m].superseded_by = g[m].superseded_by
            /\ rows'[m].supersedes = g[m].supersedes /\ rows'[m].proposal = g[m].proposal
      /\ \A m \in Memories : m \notin DOMAIN g => rows'[m] = rows[m]
  BY <1>1, <1>5, Written
<1>7. ASSUME NEW m \in Memories, m \notin DOMAIN f
      PROVE  Same(m) /\ Steady(m)
  <2>1. CASE m \in stale
    BY <1>2, <1>3, <1>4, <1>6, <2>1 DEF Same, Steady, ACCEPTABLE, RETIRED
  <2>2. CASE m \notin stale
    BY <1>4, <1>6, <1>7, <2>2 DEF Same, Steady
  <2>. QED
    BY <2>1, <2>2
<1>. QED
  BY <1>4, <1>6, <1>7

(* Operations on one row that touch neither its pointers nor its proposal.   *)
LEMMA UpdateShape ==
  ASSUME RowsInvariant, NEW m \in Memories, NEW row, Update(m, row), DOMAIN row = Fields,
         row.superseded_by = rows[m].superseded_by, row.supersedes = rows[m].supersedes,
         row.proposal = rows[m].proposal,
         \/ row.status = rows[m].status
         \/ rows[m].status \in LIVE /\ row.status \notin ACCEPTABLE \cup {"absent"}
  PROVE  Shaped
<1>. DEFINE f == [x \in {m} |-> row]
<1>1. Write(f) /\ DOMAIN f = {m} /\ f[m] = row
  BY DEF Update
<1>. HIDE DEF f
<1>2. /\ rows'[m].status = row.status /\ Same(m)
      /\ \A x \in Memories \ {m} : rows'[x] = rows[x]
  BY <1>1, Written DEF Same
<1>3. Steady(m)
  BY <1>2 DEF Steady, LIVE, RETIRED, ACCEPTABLE
<1>. QED
  BY <1>2, <1>3 DEF Shaped, Same, Steady

LEMMA InvalidatingShape ==
  ASSUME RowsInvariant, NEW m \in Memories, NEW row, WriteInvalidating([x \in {m} |-> row], {m}, None),
         DOMAIN row = Fields,
         row.superseded_by = rows[m].superseded_by, row.supersedes = rows[m].supersedes,
         row.proposal = rows[m].proposal,
         rows[m].status \in LIVE, row.status \notin ACCEPTABLE \cup {"absent"}
  PROVE  Shaped
<1>. DEFINE f == [x \in {m} |-> row]
<1>1. WriteInvalidating(f, {m}, None) /\ DOMAIN f = {m} /\ f[m] = row
  OBVIOUS
<1>. HIDE DEF f
<1>2. /\ rows'[m].status = row.status /\ Same(m)
      /\ \A x \in Memories \ {m} : Same(x) /\ Steady(x)
  BY <1>1, WrittenInvalidating DEF Same
<1>3. Steady(m)
  BY <1>2 DEF Steady, LIVE, RETIRED, ACCEPTABLE
<1>. QED
  BY <1>2, <1>3 DEF Shaped

(* Undo in favour of a successor, acceptance and replacement move pointers.  *)
LEMMA UndoShape ==
  ASSUME ConstantAssumption, RowsInvariant, NEW m \in Memories,
         NEW s \in Memories \cup {None}, Undo(m, s)
  PROVE  Shaped
<1>. DEFINE old == [rows[m] EXCEPT !.status = "superseded",
                                   !.superseded_by = IF s = None THEN @ ELSE s,
                                   !.bounded = @ \/ s # None]
            f == [x \in {m, s} \ {None} |->
                    IF x = m THEN old ELSE [rows[s] EXCEPT !.supersedes = m]]
<1>1. /\ WriteInvalidating(f, {m}, None) /\ rows[m].status \in LIVE
      /\ s # None => s # m /\ rows[s].status \in SUCCESSOR
  BY LegalIsLive DEF Undo, MaySucceed
<1>2. \A x \in Memories : DOMAIN rows[x] = Fields
  BY DEF RowsInvariant, RowInvariant
<1>3. None \notin Memories
  BY ConstantAssumption DEF ConstantAssumption
<1>4. DOMAIN f = {m, s} \ {None} /\ f[m] = old
  BY <1>3
<1>5. /\ DOMAIN old = Fields /\ old.status = "superseded"
      /\ old.superseded_by = IF s = None THEN rows[m].superseded_by ELSE s
      /\ old.supersedes = rows[m].supersedes /\ old.proposal = rows[m].proposal
  BY <1>2 DEF Fields
<1>6. ASSUME s # None
      PROVE  /\ DOMAIN f[s] = Fields /\ f[s].status = rows[s].status
             /\ f[s].superseded_by = rows[s].superseded_by /\ f[s].supersedes = m
             /\ f[s].proposal = rows[s].proposal
  <2>1. f[s] = [rows[s] EXCEPT !.supersedes = m] /\ s \in Memories
    BY <1>1, <1>6
  <2>. HIDE DEF f
  <2>. QED
    BY <1>2, <2>1 DEF Fields
<1>. HIDE DEF f, old
<1>7. /\ \A x \in DOMAIN f \cap Memories :
            /\ rows'[x].status = f[x].status /\ rows'[x].superseded_by = f[x].superseded_by
            /\ rows'[x].supersedes = f[x].supersedes /\ rows'[x].proposal = f[x].proposal
      /\ \A x \in Memories : x \notin DOMAIN f => Same(x) /\ Steady(x)
  BY <1>1, <1>4, <1>5, <1>6, WrittenInvalidating
<1>8. /\ rows'[m].status = "superseded" /\ rows'[m].supersedes = rows[m].supersedes
      /\ rows'[m].superseded_by = IF s = None THEN rows[m].superseded_by ELSE s
      /\ rows'[m].proposal = rows[m].proposal
  BY <1>3, <1>4, <1>5, <1>7
<1>9. Steady(m)
  BY <1>1, <1>8 DEF Steady, LIVE, RETIRED, ACCEPTABLE
<1>10. CASE s = None
  <2>1. \A x \in Memories : Same(x) /\ Steady(x)
    BY <1>4, <1>7, <1>8, <1>9, <1>10 DEF Same
  <2>. QED
    BY <2>1 DEF Shaped
<1>11. CASE s # None
  <2>1. /\ rows'[s].status = rows[s].status /\ rows'[s].supersedes = m
        /\ rows'[s].superseded_by = rows[s].superseded_by
        /\ rows'[s].proposal = rows[s].proposal
    BY <1>4, <1>6, <1>7, <1>11
  <2>2. Steady(s)
    BY <2>1 DEF Steady
  <2>3. \A x \in Memories \ {m, s} : Same(x) /\ Steady(x)
    BY <1>4, <1>7
  <2>4. Succeeded(m, s)
    BY <1>1, <1>8, <1>11, <2>1, <2>3 DEF Succeeded
  <2>. QED
    BY <1>9, <1>11, <2>2, <2>3, <2>4 DEF Shaped
<1>. QED
  BY <1>10, <1>11

LEMMA AcceptShape ==
  ASSUME RowsInvariant, ProposalsFit, NEW c \in Memories, Accept(c)
  PROVE  Shaped
<1>. DEFINE p == rows[c].proposal
            R == {x \in p.retires : rows[x].status # "superseded"
                                      /\ rows[x].superseded_by = None}
            card == [rows[c] EXCEPT !.status = "active",
                                    !.supersedes = IF p.survivor = None THEN @ ELSE p.survivor,
                                    !.proposal.accepted = TRUE]
            f == [x \in R \cup {c} |->
                    IF x = c THEN card
                    ELSE [rows[x] EXCEPT !.status = "superseded", !.superseded_by = c,
                                         !.bounded = TRUE]]
<1>1. /\ \A x \in R : rows[x].status \in LIVE /\ ~ OnChain(x, c)
      /\ WriteInvalidating(f, R, c)
      /\ Pending(c) /\ rows[c].status \in ACCEPTABLE /\ AsReviewed(c)
  BY LegalIsLive DEF Accept, MaySucceed
<1>2. R = Retiring(c)
  BY DEF Retiring
<1>3. c \notin R
  BY <1>1 DEF OnChain
<1>4. /\ DOMAIN card = Fields /\ card.status = "active"
      /\ card.superseded_by = rows[c].superseded_by
      /\ card.supersedes = IF p.survivor = None THEN rows[c].supersedes ELSE p.survivor
      /\ card.proposal = [p EXCEPT !.accepted = TRUE]
  <2>1. DOMAIN rows[c] = Fields
    BY DEF RowsInvariant, RowInvariant
  <2>. QED
    BY <2>1 DEF Fields
<1>5. ASSUME NEW x \in R \cap Memories
      PROVE  /\ DOMAIN f[x] = Fields /\ f[x].status = "superseded" /\ f[x].superseded_by = c
             /\ f[x].supersedes = rows[x].supersedes /\ f[x].proposal = rows[x].proposal
  <2>1. /\ DOMAIN rows[x] = Fields
        /\ f[x] = [rows[x] EXCEPT !.status = "superseded", !.superseded_by = c,
                                  !.bounded = TRUE]
    BY <1>3 DEF RowsInvariant, RowInvariant
  <2>. HIDE DEF f, R
  <2>. QED
    BY <2>1 DEF Fields
<1>6. DOMAIN f = R \cup {c} /\ f[c] = card
  OBVIOUS
<1>. HIDE DEF f, card, R, p
<1>7. /\ \A x \in DOMAIN f \cap Memories :
            /\ rows'[x].status = f[x].status /\ rows'[x].superseded_by = f[x].superseded_by
            /\ rows'[x].supersedes = f[x].supersedes /\ rows'[x].proposal = f[x].proposal
      /\ \A x \in Memories : x \notin DOMAIN f => Same(x) /\ Steady(x)
  BY <1>1, <1>4, <1>5, <1>6, WrittenInvalidating
<1>8. /\ rows'[c].status = "active" /\ rows'[c].superseded_by = rows[c].superseded_by
      /\ rows'[c].supersedes = IF p.survivor = None THEN rows[c].supersedes ELSE p.survivor
      /\ rows'[c].proposal = [p EXCEPT !.accepted = TRUE]
  BY <1>4, <1>6, <1>7
<1>9. \A x \in Memories \cap R :
        /\ rows[x].status \in LIVE /\ rows'[x].status = "superseded"
        /\ rows'[x].superseded_by = c /\ rows'[x].supersedes = rows[x].supersedes
        /\ rows'[x].proposal = rows[x].proposal
  BY <1>1, <1>5, <1>6, <1>7
<1>10. \A x \in Memories \ {c} : x \notin R => Same(x) /\ Steady(x)
  BY <1>6, <1>7
<1>11. Merged(c)
  BY <1>1, <1>2, <1>3, <1>8, <1>9, <1>10 DEF Merged, p
<1>12. \A x \in Memories : Steady(x)
  <2>1. Steady(c)
    BY <1>1, <1>8 DEF Steady, ACCEPTABLE, RETIRED
  <2>2. \A x \in Memories \cap R : Steady(x)
    BY <1>9 DEF Steady, LIVE, RETIRED, ACCEPTABLE
  <2>. QED
    BY <1>10, <2>1, <2>2
<1>. QED
  BY <1>11, <1>12 DEF Shaped

LEMMA ReplaceShape ==
  ASSUME RowsInvariant, NEW m \in Memories, NEW n \in Memories, Replace(m, n)
  PROVE  Shaped
<1>. DEFINE old == [Decided(m, "superseded", "superseded") EXCEPT !.superseded_by = n]
            new == [Blank EXCEPT !.status = "active", !.supersedes = m,
                                 !.conf = Answered(rows[m].conf, "confirmed"),
                                 !.proposal = rows[m].proposal]
            f == [x \in {m, n} |-> IF x = m THEN old ELSE new]
<1>1. /\ rows[m].status \in LIVE /\ ~ Pending(m) /\ rows[n].status = "absent" /\ Write(f)
  BY LegalIsLive DEF Replace
<1>2. m # n
  BY <1>1 DEF LIVE
<1>3. /\ DOMAIN old = Fields /\ old.status = "superseded" /\ old.superseded_by = n
      /\ old.supersedes = rows[m].supersedes /\ old.proposal = rows[m].proposal
  <2>1. DOMAIN rows[m] = Fields
    BY DEF RowsInvariant, RowInvariant
  <2>. QED
    BY <2>1 DEF Decided, Fields
<1>4. /\ DOMAIN new = Fields /\ new.status = "active" /\ new.superseded_by = None
      /\ new.supersedes = m /\ new.proposal = rows[m].proposal
  BY DEF Blank, Fields
<1>5. DOMAIN f = {m, n} /\ f[m] = old /\ f[n] = new
  BY <1>2
<1>. HIDE DEF f, old, new
<1>6. /\ \A x \in DOMAIN f \cap Memories :
            /\ rows'[x].status = f[x].status /\ rows'[x].superseded_by = f[x].superseded_by
            /\ rows'[x].supersedes = f[x].supersedes /\ rows'[x].proposal = f[x].proposal
      /\ \A x \in Memories : x \notin DOMAIN f => rows'[x] = rows[x]
  BY <1>1, <1>3, <1>4, <1>5, Written
<1>7. /\ rows'[m].status = "superseded" /\ rows'[m].superseded_by = n
      /\ rows'[m].supersedes = rows[m].supersedes /\ rows'[m].proposal = rows[m].proposal
      /\ rows'[n].status = "active" /\ rows'[n].superseded_by = None
      /\ rows'[n].supersedes = m /\ rows'[n].proposal = rows[m].proposal
  BY <1>3, <1>4, <1>5, <1>6
<1>8. \A x \in Memories \ {m, n} : Same(x) /\ Steady(x)
  BY <1>5, <1>6 DEF Same, Steady
<1>9. Steady(m) /\ Steady(n)
  BY <1>1, <1>7 DEF Steady, LIVE, RETIRED, ACCEPTABLE
<1>10. Replaced(m, n)
  BY <1>1, <1>2, <1>7, <1>8 DEF Replaced
<1>. QED
  BY <1>8, <1>9, <1>10 DEF Shaped

(* A row is inserted by a commit or by the publication of a proposal.        *)
LEMMA InsertShape ==
  ASSUME RowsInvariant, NEW c \in Memories, rows[c].status = "absent", NEW row,
         rows' = [rows EXCEPT ![c] = row], row.status # "absent",
         row.superseded_by = None, row.supersedes = None,
         row.proposal # None => ProposalFits(row.proposal) /\ ~ row.proposal.accepted
  PROVE  Shaped
<1>1. rows'[c] = row /\ \A x \in Memories \ {c} : rows'[x] = rows[x]
  BY DEF RowsInvariant
<1>2. Created(c)
  BY <1>1 DEF Created, Same
<1>3. \A x \in Memories : Steady(x)
  BY <1>1 DEF Steady, RETIRED
<1>. QED
  BY <1>2, <1>3 DEF Shaped

(* Every operation of the commit service has one of the shapes.              *)
LEMMA ServiceShape ==
  ASSUME ConstantAssumption, RowsInvariant, ProposalsFit, ServiceStep
  PROVE  Shaped
<1>. PICK m \in Memories :
       \/ \E mode \in Modes : Commit(m, mode)
       \/ Lapse(m)
       \/ Confirm(m)
       \/ RejectConfirmation(m)
       \/ ExpireConfirmation(m)
       \/ ReplayConfirmation(m)
       \/ \E s \in Memories \cup {None} : Undo(m, s)
       \/ Correct(m)
       \/ Forget(m)
       \/ Expire(m)
       \/ Unexpire(m)
       \/ Accept(m)
  BY DEF ServiceStep
<1>row. DOMAIN rows[m] = Fields
  BY DEF RowsInvariant, RowInvariant
<1>1. ASSUME NEW mode \in Modes, Commit(m, mode)
      PROVE  Shaped
  <2>1. /\ Committed(mode).status # "absent" /\ Committed(mode).superseded_by = None
        /\ Committed(mode).supersedes = None /\ Committed(mode).proposal = None
    BY ConstantAssumption DEF ConstantAssumption, Committed, Blank
  <2>. QED
    BY <1>1, <2>1, InsertShape DEF Commit
<1>2. CASE Lapse(m)
  <2>1. /\ rows'[m].status = rows[m].status /\ Same(m)
        /\ \A x \in Memories \ {m} : rows'[x] = rows[x]
    BY <1>2, <1>row DEF Lapse, Same, RowsInvariant, Fields
  <2>. QED
    BY <2>1 DEF Shaped, Same, Steady
<1>3. CASE Confirm(m)
  <2>. DEFINE row == Decided(m, "active", "confirmed")
  <2>1. /\ DOMAIN row = Fields /\ row.status = "active"
        /\ row.superseded_by = rows[m].superseded_by /\ row.supersedes = rows[m].supersedes
        /\ row.proposal = rows[m].proposal
    BY <1>row DEF Decided, Fields
  <2>2. Update(m, row) /\ rows[m].status \in LIVE
    BY <1>3, LegalIsLive DEF Confirm
  <2>. HIDE DEF row
  <2>. QED
    BY <2>1, <2>2, UpdateShape DEF ACCEPTABLE
<1>4. CASE RejectConfirmation(m)
  <2>. DEFINE row == Decided(m, "rejected", "rejected")
  <2>1. /\ DOMAIN row = Fields /\ row.status = "rejected"
        /\ row.superseded_by = rows[m].superseded_by /\ row.supersedes = rows[m].supersedes
        /\ row.proposal = rows[m].proposal
    BY <1>row DEF Decided, Fields
  <2>2. Update(m, row) /\ rows[m].status \in LIVE
    BY <1>4, LegalIsLive DEF RejectConfirmation
  <2>. HIDE DEF row
  <2>. QED
    BY <2>1, <2>2, UpdateShape DEF ACCEPTABLE
<1>5. CASE ExpireConfirmation(m)
  <2>. DEFINE row == Decided(m, "rejected", "expired")
  <2>1. /\ DOMAIN row = Fields /\ row.status = "rejected"
        /\ row.superseded_by = rows[m].superseded_by /\ row.supersedes = rows[m].supersedes
        /\ row.proposal = rows[m].proposal
    BY <1>row DEF Decided, Fields
  <2>2. Update(m, row) /\ rows[m].status \in LIVE
    BY <1>5, LegalIsLive DEF ExpireConfirmation
  <2>. HIDE DEF row
  <2>. QED
    BY <2>1, <2>2, UpdateShape DEF ACCEPTABLE
<1>6. CASE ReplayConfirmation(m)
  BY <1>6, <1>row, UpdateShape DEF ReplayConfirmation
<1>7. ASSUME NEW s \in Memories \cup {None}, Undo(m, s)
      PROVE  Shaped
  BY <1>7, UndoShape
<1>8. CASE Correct(m)
  <2>. DEFINE row == [rows[m] EXCEPT !.status = "active"]
  <2>1. /\ DOMAIN row = Fields /\ row.status = "active"
        /\ row.superseded_by = rows[m].superseded_by /\ row.supersedes = rows[m].supersedes
        /\ row.proposal = rows[m].proposal
    BY <1>row DEF Fields
  <2>2. WriteInvalidating([x \in {m} |-> row], {m}, None) /\ rows[m].status \in LIVE
    BY <1>8, LegalIsLive DEF Correct
  <2>. HIDE DEF row
  <2>. QED
    BY <2>1, <2>2, InvalidatingShape DEF ACCEPTABLE
<1>9. CASE Forget(m)
  <2>. DEFINE row == [rows[m] EXCEPT !.status = "superseded"]
  <2>1. /\ DOMAIN row = Fields /\ row.status = "superseded"
        /\ row.superseded_by = rows[m].superseded_by /\ row.supersedes = rows[m].supersedes
        /\ row.proposal = rows[m].proposal
    BY <1>row DEF Fields
  <2>2. WriteInvalidating([x \in {m} |-> row], {m}, None) /\ rows[m].status \in LIVE
    BY <1>9, LegalIsLive DEF Forget
  <2>. HIDE DEF row
  <2>. QED
    BY <2>1, <2>2, InvalidatingShape DEF ACCEPTABLE
<1>10. CASE Expire(m)
  <2>. DEFINE row == [rows[m] EXCEPT !.bounded = TRUE]
  <2>1. /\ DOMAIN row = Fields /\ row.status = rows[m].status
        /\ row.superseded_by = rows[m].superseded_by /\ row.supersedes = rows[m].supersedes
        /\ row.proposal = rows[m].proposal
    BY <1>row DEF Fields
  <2>2. Update(m, row)
    BY <1>10 DEF Expire
  <2>. HIDE DEF row
  <2>. QED
    BY <2>1, <2>2, UpdateShape
<1>11. CASE Unexpire(m)
  <2>. DEFINE row == [rows[m] EXCEPT !.status = After("unexpire", m), !.bounded = FALSE]
  <2>1. /\ DOMAIN row = Fields /\ row.status = After("unexpire", m)
        /\ row.superseded_by = rows[m].superseded_by /\ row.supersedes = rows[m].supersedes
        /\ row.proposal = rows[m].proposal
    BY <1>row DEF Fields
  <2>2. Update(m, row) /\ rows[m].status \in LIVE
    BY <1>11, LegalIsLive DEF Unexpire
  <2>3. After("unexpire", m) \in {rows[m].status, "active"}
    BY <2>2 DEF After, Transitions
  <2>. HIDE DEF row
  <2>. QED
    BY <2>1, <2>2, <2>3, UpdateShape DEF ACCEPTABLE
<1>12. CASE Accept(m)
  BY <1>12, AcceptShape
<1>. QED
  BY <1>1, <1>2, <1>3, <1>4, <1>5, <1>6, <1>7, <1>8, <1>9, <1>10, <1>11, <1>12

LEMMA ReviewShape ==
  ASSUME RowsInvariant, ReviewStep
  PROVE  Shaped
<1>. PICK m \in Memories :
       \/ Approve(m)
       \/ Reject(m)
       \/ KeepPrivate(m)
       \/ AssignProject(m)
       \/ \E n \in Memories : Replace(m, n)
  BY DEF ReviewStep
<1>row. DOMAIN rows[m] = Fields
  BY DEF RowsInvariant, RowInvariant
<1>1. CASE Approve(m)
  <2>. DEFINE row == Decided(m, "active", "confirmed")
  <2>1. /\ DOMAIN row = Fields /\ row.status = "active"
        /\ row.superseded_by = rows[m].superseded_by /\ row.supersedes = rows[m].supersedes
        /\ row.proposal = rows[m].proposal
    BY <1>row DEF Decided, Fields
  <2>2. Update(m, row) /\ rows[m].status \in LIVE
    BY <1>1, LegalIsLive DEF Approve
  <2>. HIDE DEF row
  <2>. QED
    BY <2>1, <2>2, UpdateShape DEF ACCEPTABLE
<1>2. CASE Reject(m)
  <2>. DEFINE row == Decided(m, "rejected", "rejected")
  <2>1. /\ DOMAIN row = Fields /\ row.status = "rejected"
        /\ row.superseded_by = rows[m].superseded_by /\ row.supersedes = rows[m].supersedes
        /\ row.proposal = rows[m].proposal
    BY <1>row DEF Decided, Fields
  <2>2. Update(m, row) /\ rows[m].status \in LIVE
    BY <1>2, LegalIsLive DEF Reject
  <2>. HIDE DEF row
  <2>. QED
    BY <2>1, <2>2, UpdateShape DEF ACCEPTABLE
<1>3. CASE KeepPrivate(m)
  <2>. DEFINE row == [rows[m] EXCEPT !.status = "private_only"]
  <2>1. /\ DOMAIN row = Fields /\ row.status = "private_only"
        /\ row.superseded_by = rows[m].superseded_by /\ row.supersedes = rows[m].supersedes
        /\ row.proposal = rows[m].proposal
    BY <1>row DEF Fields
  <2>2. Update(m, row) /\ rows[m].status \in LIVE
    BY <1>3 DEF KeepPrivate
  <2>. HIDE DEF row
  <2>. QED
    BY <2>1, <2>2, UpdateShape DEF ACCEPTABLE
<1>4. CASE AssignProject(m)
  BY <1>4, <1>row, UpdateShape DEF AssignProject
<1>5. ASSUME NEW n \in Memories, Replace(m, n)
      PROVE  Shaped
  BY <1>5, ReplaceShape
<1>. QED
  BY <1>1, <1>2, <1>3, <1>4, <1>5

(* A published sweep finds the proposals of the rows it writes as it read    *)
(* them, for none of them has been a candidate since.                        *)
LEMMA JobShape ==
  ASSUME RowsInvariant, ProposalsFit, SweepsStand, JobStep
  PROVE  Shaped
<1>. PICK w \in Sessions :
       \/ \E S \in SUBSET Memories : ReadSweep(w, S) \/ ReadMembers(w, S)
       \/ PublishSweep(w)
       \/ \E c \in Memories : PublishProposal(w, c)
       \/ Discard(w)
  BY DEF JobStep
<1>1. CASE rows' = rows
  BY <1>1 DEF Shaped, Same, Steady
<1>2. CASE PublishSweep(w)
  <2>. DEFINE f == [m \in DOMAIN staged[w].read |-> Swept(m, staged[w].read[m])]
  <2>1. /\ Write(f) /\ DOMAIN f = DOMAIN staged[w].read
        /\ "sweep" \in Jobs
        /\ \A m \in DOMAIN f : /\ m \in Memories
                               /\ rows[m].status \notin ACCEPTABLE \cup {"absent"}
                               /\ staged[w].read[m].proposal = rows[m].proposal
    BY <1>2 DEF PublishSweep, SweepsStand
  <2>2. ASSUME NEW m \in DOMAIN f
        PROVE  /\ DOMAIN f[m] = Fields /\ f[m].status = "stale"
               /\ f[m].superseded_by = rows[m].superseded_by
               /\ f[m].supersedes = rows[m].supersedes /\ f[m].proposal = rows[m].proposal
    <3>1. f[m] = [rows[m] EXCEPT !.status = "stale", !.conf = staged[w].read[m].conf,
                                 !.proposal = staged[w].read[m].proposal]
      BY DEF Swept
    <3>2. DOMAIN rows[m] = Fields /\ staged[w].read[m].proposal = rows[m].proposal
      BY <2>1 DEF RowsInvariant, RowInvariant
    <3>. HIDE DEF f
    <3>. QED
      BY <3>1, <3>2 DEF Fields
  <2>. HIDE DEF f
  <2>3. /\ \A m \in DOMAIN f \cap Memories :
              /\ rows'[m].status = f[m].status /\ rows'[m].superseded_by = f[m].superseded_by
              /\ rows'[m].supersedes = f[m].supersedes /\ rows'[m].proposal = f[m].proposal
        /\ \A m \in Memories : m \notin DOMAIN f => rows'[m] = rows[m]
    BY <2>1, <2>2, Written
  <2>4. \A m \in Memories : Same(m) /\ Steady(m)
    BY <2>1, <2>2, <2>3 DEF Same, Steady, ACCEPTABLE
  <2>. QED
    BY <2>4 DEF Shaped
<1>3. ASSUME NEW c \in Memories, PublishProposal(w, c)
      PROVE  Shaped
  <2>. DEFINE row == [Blank EXCEPT !.status = "candidate", !.proposal = staged[w].proposal]
  <2>1. /\ row.status # "absent" /\ row.superseded_by = None /\ row.supersedes = None
        /\ row.proposal = staged[w].proposal
    BY DEF Blank
  <2>2. /\ rows[c].status = "absent" /\ rows' = [rows EXCEPT ![c] = row]
        /\ ProposalFits(staged[w].proposal) /\ ~ staged[w].proposal.accepted
    BY <1>3 DEF PublishProposal, ProposalsFit
  <2>. HIDE DEF row
  <2>. QED
    BY <2>1, <2>2, InsertShape
<1>. QED
  BY <1>1, <1>2, <1>3 DEF ReadSweep, ReadMembers, Discard

LEMMA NextShape ==
  ASSUME ConstantAssumption, LifecycleInvariant, DerivationInvariant, [Next]_vars
  PROVE  Shaped
<1>1. CASE UNCHANGED vars
  BY <1>1 DEF vars, Shaped, Same, Steady
<1>. QED
  BY <1>1, ServiceShape, ReviewShape, JobShape
     DEF Next, LifecycleInvariant, DerivationInvariant

-----------------------------------------------------------------------------
(* The derivation invariant is kept.                                         *)

(* What a row derives from is settled once it is no candidate any more.      *)
LEMMA ProposalKept ==
  ASSUME Shaped, NEW m \in Memories, rows[m].status \notin ACCEPTABLE \cup {"absent"}
  PROVE  rows'[m].proposal = rows[m].proposal
<1>1. CASE \A x \in Memories : Same(x)
  BY <1>1 DEF Same
<1>2. ASSUME NEW c \in Memories, Created(c)
      PROVE  rows'[m].proposal = rows[m].proposal
  BY <1>2 DEF Created, Same
<1>3. ASSUME NEW c \in Memories, Merged(c)
      PROVE  rows'[m].proposal = rows[m].proposal
  <2>1. m # c
    BY <1>3 DEF Merged
  <2>. QED
    BY <1>3, <2>1 DEF Merged, Same
<1>4. ASSUME NEW x \in Memories, NEW y \in Memories, Succeeded(x, y)
      PROVE  rows'[m].proposal = rows[m].proposal
  BY <1>4 DEF Succeeded, Same
<1>5. ASSUME NEW x \in Memories, NEW y \in Memories, Replaced(x, y)
      PROVE  rows'[m].proposal = rows[m].proposal
  <2>1. m # y
    BY <1>5 DEF Replaced
  <2>. QED
    BY <1>5, <2>1 DEF Replaced, Same
<1>. QED
  BY <1>1, <1>2, <1>3, <1>4, <1>5 DEF Shaped

RowFits(r) ==
  /\ r.supersedes \in Memories \cup {None}
  /\ r.proposal # None => ProposalFits(r.proposal)
  /\ r.status = "absent" => r.supersedes = None /\ r.proposal = None

LEMMA RowsFit ==
  ASSUME Shaped, \A m \in Memories : RowFits(rows[m]), NEW m \in Memories
  PROVE  RowFits(rows'[m])
<1>1. Steady(m)
  BY DEF Shaped
<1>2. CASE Same(m)
  BY <1>1, <1>2 DEF Same, Steady, RowFits
<1>3. ASSUME NEW c \in Memories, Created(c)
      PROVE  RowFits(rows'[m])
  <2>1. CASE m = c
    BY <1>3, <2>1 DEF Created, RowFits
  <2>2. CASE m # c
    BY <1>2, <1>3, <2>2 DEF Created
  <2>. QED
    BY <2>1, <2>2
<1>4. ASSUME NEW c \in Memories, Merged(c)
      PROVE  RowFits(rows'[m])
  <2>. PICK p : p = rows[c].proposal
    OBVIOUS
  <2>1. ProposalFits(p) /\ p.survivor \in Memories \cup {None}
    BY <1>4 DEF Merged, Pending, RowFits, ProposalFits
  <2>2. CASE m = c
    <3>1. ProposalFits([p EXCEPT !.accepted = TRUE])
      BY <2>1 DEF ProposalFits
    <3>2. /\ rows'[m].status = "active" /\ rows'[m].proposal = [p EXCEPT !.accepted = TRUE]
          /\ rows'[m].supersedes \in {rows[m].supersedes, p.survivor}
      BY <1>4, <2>2 DEF Merged
    <3>. QED
      BY <2>1, <3>1, <3>2 DEF RowFits
  <2>3. CASE m # c
    <3>1. CASE m \in Retiring(c)
      BY <1>4, <2>3, <3>1 DEF Merged, RowFits
    <3>2. CASE m \notin Retiring(c)
      BY <1>2, <1>4, <2>3, <3>2 DEF Merged
    <3>. QED
      BY <3>1, <3>2
  <2>. QED
    BY <2>2, <2>3
<1>5. ASSUME NEW x \in Memories, NEW y \in Memories, Succeeded(x, y)
      PROVE  RowFits(rows'[m])
  <2>1. CASE m = x
    BY <1>5, <2>1 DEF Succeeded, RowFits
  <2>2. CASE m = y
    BY <1>5, <2>2 DEF Succeeded, RowFits, SUCCESSOR
  <2>3. CASE m \notin {x, y}
    BY <1>2, <1>5, <2>3 DEF Succeeded
  <2>. QED
    BY <2>1, <2>2, <2>3
<1>6. ASSUME NEW x \in Memories, NEW y \in Memories, Replaced(x, y)
      PROVE  RowFits(rows'[m])
  <2>1. CASE m = x
    BY <1>6, <2>1 DEF Replaced, RowFits
  <2>2. CASE m = y
    BY <1>6, <2>2 DEF Replaced, RowFits
  <2>3. CASE m \notin {x, y}
    BY <1>2, <1>6, <2>3 DEF Replaced
  <2>. QED
    BY <2>1, <2>2, <2>3
<1>. QED
  BY <1>2, <1>3, <1>4, <1>5, <1>6 DEF Shaped

(* A cluster, or a topic with its previous card: what would be retired was   *)
(* read, and could be read.                                                  *)
LEMMA ProposalsFitting ==
  ASSUME NEW S \in SUBSET Memories, S \subseteq Readable, NEW p \in Proposals(S)
  PROVE  ProposalFits(p) /\ ~ p.accepted
<1>1. ASSUME NEW kind, NEW T, T \subseteq Readable, NEW R, R \subseteq T,
             NEW s \in R \cup {None}, p = Proposal(kind, T, R, s)
      PROVE  ProposalFits(p) /\ ~ p.accepted
  <2>1. \A m \in T : m \in Memories /\ rows[m].status \in {"active", "accepted"}
    BY <1>1 DEF Readable
  <2>2. /\ DOMAIN p = {"kind", "members", "retires", "survivor", "accepted"}
        /\ p.members = [m \in T |-> Snapshot(m)] /\ p.retires = R /\ p.survivor = s
        /\ p.accepted = FALSE
    BY <1>1 DEF Proposal
  <2>3. \A m \in T : p.members[m].status \in {"active", "accepted"}
    BY <2>1, <2>2 DEF Snapshot
  <2>4. DOMAIN p.members = T
    BY <2>2
  <2>. QED
    BY <1>1, <2>1, <2>2, <2>3, <2>4 DEF ProposalFits
<1>2. CASE p = Proposal("merge", S, S, None)
  BY <1>1, <1>2
<1>3. ASSUME NEW s \in S, p = Proposal("dedup", S, S, s)
      PROVE  ProposalFits(p) /\ ~ p.accepted
  BY <1>1, <1>3
<1>4. CASE p = Proposal("rollup", S, {}, None)
  BY <1>1, <1>4
<1>5. ASSUME NEW card \in Cards(S), p = Proposal("rollup", S \cup {card}, {card}, None)
      PROVE  ProposalFits(p) /\ ~ p.accepted
  <2>1. S \cup {card} \subseteq Readable
    BY DEF Cards
  <2>. QED
    BY <1>1, <1>5, <2>1
<1>. QED
  BY <1>2, <1>3, <1>4, <1>5 DEF Proposals

(* What a job stages fits, and a staged sweep stands, whatever happens.      *)
LEMMA StagedKept ==
  ASSUME ConstantAssumption, LifecycleInvariant, DerivationInvariant, [Next]_vars,
         Shaped, NEW w \in Sessions, staged'[w] # None
  PROVE  /\ staged'[w].job = "propose" =>
              ProposalFits(staged'[w].proposal) /\ ~ staged'[w].proposal.accepted
         /\ staged'[w].job = "sweep" =>
              /\ "sweep" \in Jobs
              /\ DOMAIN staged'[w].read \subseteq Memories
              /\ \A m \in DOMAIN staged'[w].read :
                   /\ rows'[m].status \notin ACCEPTABLE \cup {"absent"}
                   /\ staged'[w].read[m].proposal = rows'[m].proposal
<1>. DEFINE Goal ==
       /\ staged'[w].job = "propose" =>
            ProposalFits(staged'[w].proposal) /\ ~ staged'[w].proposal.accepted
       /\ staged'[w].job = "sweep" =>
            /\ "sweep" \in Jobs
            /\ DOMAIN staged'[w].read \subseteq Memories
            /\ \A m \in DOMAIN staged'[w].read :
                 /\ rows'[m].status \notin ACCEPTABLE \cup {"absent"}
                 /\ staged'[w].read[m].proposal = rows'[m].proposal
<1>0. staged = [v \in Sessions |-> staged[v]]
  BY DEF LifecycleInvariant, SweepInvariant
<1>1. CASE staged'[w] = staged[w]
  <2>1. CASE staged[w].job = "sweep"
    <3>1. /\ "sweep" \in Jobs
          /\ DOMAIN staged[w].read \subseteq Memories
          /\ \A m \in DOMAIN staged[w].read :
               /\ rows[m].status \notin ACCEPTABLE \cup {"absent"}
               /\ staged[w].read[m].proposal = rows[m].proposal
      BY <1>1, <2>1 DEF DerivationInvariant, SweepsStand
    <3>2. ASSUME NEW m \in DOMAIN staged[w].read
          PROVE  /\ rows'[m].status \notin ACCEPTABLE \cup {"absent"}
                 /\ staged[w].read[m].proposal = rows'[m].proposal
      <4>1. m \in Memories /\ Steady(m)
        BY <3>1 DEF Shaped
      <4>2. rows'[m].proposal = rows[m].proposal
        BY <3>1, <4>1, ProposalKept
      <4>. QED
        BY <3>1, <4>1, <4>2 DEF Steady
    <3>. QED
      BY <1>1, <2>1, <3>1, <3>2
  <2>2. CASE staged[w].job # "sweep"
    BY <1>1, <2>2 DEF DerivationInvariant, ProposalsFit
  <2>. QED
    BY <2>1, <2>2
<1>2. ASSUME NEW S \in SUBSET Memories, ReadSweep(w, S)
      PROVE  Goal
  <2>1. /\ staged'[w] = [job |-> "sweep", read |-> [m \in S |-> rows[m]]]
        /\ rows' = rows /\ "sweep" \in Jobs /\ \A m \in S : rows[m].status = "active"
    BY <1>0, <1>2 DEF ReadSweep
  <2>. QED
    BY <2>1 DEF ACCEPTABLE
<1>3. ASSUME NEW S \in SUBSET Memories, ReadMembers(w, S)
      PROVE  Goal
  <2>1. PICK p \in Proposals(S) :
          staged' = [staged EXCEPT ![w] = [job |-> "propose", proposal |-> p]]
    BY <1>3 DEF ReadMembers
  <2>2. staged'[w] = [job |-> "propose", proposal |-> p]
    BY <1>0, <2>1
  <2>3. ProposalFits(p) /\ ~ p.accepted
    BY <1>3, ProposalsFitting DEF ReadMembers
  <2>. QED
    BY <2>2, <2>3
<1>4. CASE ServiceStep \/ ReviewStep \/ UNCHANGED vars
  BY <1>1, <1>4, OnlyJobsStage DEF vars
<1>5. CASE JobStep
  <2>. PICK v \in Sessions :
         \/ \E S \in SUBSET Memories : ReadSweep(v, S) \/ ReadMembers(v, S)
         \/ PublishSweep(v)
         \/ \E c \in Memories : PublishProposal(v, c)
         \/ Discard(v)
    BY <1>5 DEF JobStep
  <2>1. CASE v = w
    <3>1. ~ PublishSweep(v) /\ (\A c \in Memories : ~ PublishProposal(v, c)) /\ ~ Discard(v)
      BY <1>0, <2>1 DEF PublishSweep, PublishProposal, Discard
    <3>. QED
      BY <1>2, <1>3, <2>1, <3>1
  <2>2. CASE v # w
    <3>1. staged'[w] = staged[w]
      BY <1>0, <2>2 DEF ReadSweep, ReadMembers, PublishSweep, PublishProposal, Discard
    <3>. QED
      BY <1>1, <3>1
  <2>. QED
    BY <2>1, <2>2
<1>. QED
  BY <1>4, <1>5 DEF Next

-----------------------------------------------------------------------------
(* Without the sweep: pointers are set once, from a live row, for good.      *)

(* Every input of a candidate that is accepted as reviewed is still readable *)
(* and has no successor, so all it would retire are retired.                 *)
LEMMA AllRetire ==
  ASSUME ConstantAssumption, \A m \in Memories : RowFits(rows[m]), PointersFinal,
         NEW c \in Memories, Merged(c), NEW m \in rows[c].proposal.retires
  PROVE  m \in Memories /\ m \in Retiring(c)
<1>. PICK p : p = rows[c].proposal
  OBVIOUS
<1>1. ProposalFits(p) /\ \A x \in DOMAIN p.members : p.members[x] = Snapshot(x)
  BY DEF Merged, Pending, RowFits, AsReviewed
<1>2. m \in Memories /\ m \in DOMAIN p.members /\ p.members[m].status \in {"active", "accepted"}
  BY <1>1 DEF ProposalFits
<1>3. rows[m].status \in {"active", "accepted"}
  <2>1. p.members[m] = Snapshot(m)
    BY <1>1, <1>2
  <2>2. Snapshot(m).status = rows[m].status
    BY DEF Snapshot
  <2>. QED
    BY <1>2, <2>1, <2>2
<1>4. rows[m].superseded_by = None
  BY <1>2, <1>3 DEF PointersFinal
<1>. QED
  BY <1>2, <1>3, <1>4 DEF Retiring

(* A pointer that is set is never moved, and its row stays superseded.       *)
LEMMA PointerKept ==
  ASSUME ConstantAssumption, "sweep" \notin Jobs, RowsInvariant, PointersFinal, Shaped,
         NEW m \in Memories, rows[m].status = "superseded" \/ rows[m].superseded_by # None
  PROVE  /\ rows[m].status = "superseded" /\ rows'[m].status = "superseded"
         /\ rows'[m].superseded_by = rows[m].superseded_by
<1>1. rows[m].status = "superseded"
  BY DEF PointersFinal
<1>2. rows'[m].status = "superseded"
  BY <1>1 DEF Shaped, Steady, RETIRED
<1>3. ASSUME NEW c \in Memories, Created(c)
      PROVE  rows'[m].superseded_by = rows[m].superseded_by
  BY <1>1, <1>3 DEF Created, Same
<1>4. ASSUME NEW c \in Memories, Merged(c)
      PROVE  rows'[m].superseded_by = rows[m].superseded_by
  <2>1. m # c /\ m \notin Retiring(c)
    BY <1>1, <1>4 DEF Merged, Retiring, ACCEPTABLE
  <2>. QED
    BY <1>4, <2>1 DEF Merged, Same
<1>5. ASSUME NEW x \in Memories, NEW y \in Memories, Succeeded(x, y)
      PROVE  rows'[m].superseded_by = rows[m].superseded_by
  <2>1. m # x
    BY <1>1, <1>5 DEF Succeeded, LIVE
  <2>. QED
    BY <1>5, <2>1 DEF Succeeded, Same
<1>6. ASSUME NEW x \in Memories, NEW y \in Memories, Replaced(x, y)
      PROVE  rows'[m].superseded_by = rows[m].superseded_by
  <2>1. m # x /\ m # y
    BY <1>1, <1>6 DEF Replaced, LIVE
  <2>. QED
    BY <1>6, <2>1 DEF Replaced, Same
<1>. QED
  BY <1>1, <1>2, <1>3, <1>4, <1>5, <1>6 DEF Shaped, Same

(* So a chain of successors only ever grows at its end.                      *)
LEMMA ChainKept ==
  ASSUME ConstantAssumption, "sweep" \notin Jobs, RowsInvariant, PointersFinal, Shaped,
         NEW c \in Memories, NEW m \in Memories, OnChain(c, m)
  PROVE  OnChain(c, m)'
<1>. SUFFICES ASSUME NEW S \in SUBSET Memories, m \in S,
                     \A x \in S : rows'[x].superseded_by \in S \cup {None}
              PROVE  c \in S
  BY DEF OnChain, Closed
<1>1. ASSUME NEW x \in S
      PROVE  rows[x].superseded_by \in S \cup {None}
  <2>1. CASE rows[x].superseded_by = None
    BY <2>1
  <2>2. CASE rows[x].superseded_by # None
    BY <2>2, PointerKept
  <2>. QED
    BY <2>1, <2>2
<1>. QED
  BY <1>1 DEF OnChain, Closed

(* Every pointer back is answered after the step as well.                    *)
LEMMA AnsweredKept ==
  ASSUME ConstantAssumption, "sweep" \notin Jobs, RowsInvariant,
         \A m \in Memories : RowFits(rows[m]), PointersFinal, Shaped,
         NEW m \in Memories, rows'[m].supersedes # None
  PROVE  /\ rows'[rows'[m].supersedes].superseded_by = m
         /\ rows'[rows'[m].supersedes].status = "superseded"
<1>. DEFINE Goal == /\ rows'[rows'[m].supersedes].superseded_by = m
                    /\ rows'[rows'[m].supersedes].status = "superseded"
<1>1. CASE rows'[m].supersedes = rows[m].supersedes
  <2>. PICK x : x = rows[m].supersedes
    OBVIOUS
  <2>1. x \in Memories /\ rows[x].superseded_by = m /\ rows[x].status = "superseded"
    BY <1>1 DEF RowFits, PointersFinal, SupersedesAnswered
  <2>2. rows'[x].superseded_by = m /\ rows'[x].status = "superseded"
    BY <2>1, PointerKept
  <2>. QED
    BY <1>1, <2>2
<1>2. ASSUME NEW c \in Memories, Created(c)
      PROVE  Goal
  BY <1>1, <1>2 DEF Created, Same
<1>3. ASSUME NEW c \in Memories, Merged(c)
      PROVE  Goal
  <2>. PICK p : p = rows[c].proposal
    OBVIOUS
  <2>1. CASE m = c /\ p.survivor # None
    <3>. PICK x : x = p.survivor
      OBVIOUS
    <3>1. x \in p.retires
      BY <1>3, <2>1 DEF Merged, Pending, RowFits, ProposalFits
    <3>2. x \in Memories /\ x \in Retiring(c)
      BY <1>3, <3>1, AllRetire
    <3>3. rows'[x].superseded_by = c /\ rows'[x].status = "superseded"
      BY <1>3, <3>2 DEF Merged
    <3>4. rows'[m].supersedes = x
      BY <1>3, <2>1 DEF Merged
    <3>. QED
      BY <2>1, <3>3, <3>4
  <2>2. CASE m = c /\ p.survivor = None
    BY <1>1, <1>3, <2>2 DEF Merged
  <2>3. CASE m # c
    <3>1. rows'[m].supersedes = rows[m].supersedes
      BY <1>3, <2>3 DEF Merged, Same
    <3>. QED
      BY <1>1, <3>1
  <2>. QED
    BY <2>1, <2>2, <2>3
<1>4. ASSUME NEW x \in Memories, NEW y \in Memories, Succeeded(x, y)
      PROVE  Goal
  <2>1. CASE m = y
    <3>1. /\ rows'[y].supersedes = x /\ rows'[x].superseded_by = y
          /\ rows'[x].status = "superseded"
      BY <1>4 DEF Succeeded
    <3>. QED
      BY <2>1, <3>1
  <2>2. CASE m # y
    <3>1. rows'[m].supersedes = rows[m].supersedes
      BY <1>4, <2>2 DEF Succeeded, Same
    <3>. QED
      BY <1>1, <3>1
  <2>. QED
    BY <2>1, <2>2
<1>5. ASSUME NEW x \in Memories, NEW y \in Memories, Replaced(x, y)
      PROVE  Goal
  <2>1. CASE m = y
    <3>1. /\ rows'[y].supersedes = x /\ rows'[x].superseded_by = y
          /\ rows'[x].status = "superseded"
      BY <1>5 DEF Replaced
    <3>. QED
      BY <2>1, <3>1
  <2>2. CASE m # y
    <3>1. rows'[m].supersedes = rows[m].supersedes
      BY <1>5, <2>2 DEF Replaced, Same
    <3>. QED
      BY <1>1, <3>1
  <2>. QED
    BY <2>1, <2>2
<1>. QED
  BY <1>1, <1>2, <1>3, <1>4, <1>5 DEF Shaped, Same

(* What an accepted card retired leads to it, and to the row that replaces   *)
(* the card.                                                                 *)
LEMMA MergedKept ==
  ASSUME ConstantAssumption, "sweep" \notin Jobs, RowsInvariant,
         \A m \in Memories : RowFits(rows[m]), PointersFinal, Shaped,
         NEW c \in Memories, rows'[c].proposal # None, rows'[c].proposal.accepted,
         NEW m \in rows'[c].proposal.retires
  PROVE  rows'[m].status = "superseded" /\ OnChain(c, m)'
<1>. DEFINE Goal == rows'[m].status = "superseded" /\ OnChain(c, m)'
<1>0. ASSUME NEW d \in Memories, rows'[c].proposal = rows[d].proposal
      PROVE  /\ m \in Memories /\ rows'[m].status = "superseded" /\ OnChain(d, m)
             /\ OnChain(d, m)'
  <2>1. ProposalFits(rows[d].proposal) /\ m \in rows[d].proposal.retires
    BY <1>0 DEF RowFits
  <2>2. m \in Memories /\ rows[m].status = "superseded" /\ OnChain(d, m)
    BY <1>0, <2>1 DEF PointersFinal, ProposalFits
  <2>. QED
    BY <2>2, PointerKept, ChainKept
<1>1. CASE rows'[c].proposal = rows[c].proposal
  BY <1>0, <1>1
<1>2. ASSUME NEW x \in Memories, Created(x)
      PROVE  Goal
  <2>1. c # x
    BY <1>2 DEF Created
  <2>. QED
    BY <1>1, <1>2, <2>1 DEF Created, Same
<1>3. ASSUME NEW x \in Memories, Merged(x)
      PROVE  Goal
  <2>1. CASE c = x
    <3>. PICK p : p = rows[c].proposal
      OBVIOUS
    <3>1. m \in p.retires
      <4>1. ProposalFits(p) /\ rows'[c].proposal = [p EXCEPT !.accepted = TRUE]
        BY <1>3, <2>1 DEF Merged, Pending, RowFits
      <4>2. [p EXCEPT !.accepted = TRUE].retires = p.retires
        BY <4>1 DEF ProposalFits
      <4>. QED
        BY <4>1, <4>2
    <3>2. m \in Memories /\ m \in Retiring(c)
      BY <1>3, <2>1, <3>1, AllRetire
    <3>3. rows'[m].superseded_by = c /\ rows'[m].status = "superseded"
      BY <1>3, <2>1, <3>2 DEF Merged
    <3>4. OnChain(c, m)'
      BY <3>3, ConstantAssumption DEF OnChain, Closed, ConstantAssumption
    <3>. QED
      BY <3>3, <3>4
  <2>2. CASE c # x
    <3>1. rows'[c].proposal = rows[c].proposal
      BY <1>3, <2>2 DEF Merged, Same
    <3>. QED
      BY <1>1, <3>1
  <2>. QED
    BY <2>1, <2>2
<1>4. ASSUME NEW x \in Memories, NEW y \in Memories, Succeeded(x, y)
      PROVE  Goal
  BY <1>1, <1>4 DEF Succeeded, Same
<1>5. ASSUME NEW x \in Memories, NEW y \in Memories, Replaced(x, y)
      PROVE  Goal
  <2>1. CASE c = y
    <3>1. rows'[c].proposal = rows[x].proposal /\ rows'[x].superseded_by = c
      BY <1>5, <2>1 DEF Replaced
    <3>2. m \in Memories /\ rows'[m].status = "superseded" /\ OnChain(x, m)'
      BY <1>0, <3>1
    <3>3. ASSUME NEW S \in SUBSET Memories, m \in S,
                 \A z \in S : rows'[z].superseded_by \in S \cup {None}
          PROVE  c \in S
      <4>1. x \in S
        BY <3>2, <3>3 DEF OnChain, Closed
      <4>. QED
        BY <3>1, <3>3, <4>1, ConstantAssumption DEF ConstantAssumption
    <3>4. OnChain(c, m)'
      BY <3>3 DEF OnChain, Closed
    <3>. QED
      BY <3>2, <3>4
  <2>2. CASE c # y
    <3>1. rows'[c].proposal = rows[c].proposal
      BY <1>5, <2>2 DEF Replaced, Same
    <3>. QED
      BY <1>1, <3>1
  <2>. QED
    BY <2>1, <2>2
<1>. QED
  BY <1>1, <1>2, <1>3, <1>4, <1>5 DEF Shaped, Same

LEMMA PointersKept ==
  ASSUME ConstantAssumption, "sweep" \notin Jobs, RowsInvariant,
         \A m \in Memories : RowFits(rows[m]), PointersFinal, Shaped
  PROVE  PointersFinal'
<1>1. ASSUME NEW m \in Memories, rows'[m].superseded_by # None
      PROVE  rows'[m].status = "superseded"
  <2>1. CASE rows[m].superseded_by # None
    BY <2>1, PointerKept
  <2>2. CASE rows[m].superseded_by = None
    <3>1. ASSUME NEW c \in Memories, Merged(c)
          PROVE  rows'[m].status = "superseded"
      <4>1. m # c
        BY <1>1, <2>2, <3>1 DEF Merged
      <4>2. m \in Retiring(c)
        BY <1>1, <2>2, <3>1, <4>1 DEF Merged, Same
      <4>. QED
        BY <3>1, <4>2 DEF Merged
    <3>2. ASSUME NEW x \in Memories, NEW y \in Memories, Succeeded(x, y) \/ Replaced(x, y)
          PROVE  rows'[m].status = "superseded"
      <4>1. m = x
        BY <1>1, <2>2, <3>2 DEF Succeeded, Replaced, Same
      <4>. QED
        BY <3>2, <4>1 DEF Succeeded, Replaced
    <3>3. \A c \in Memories : ~ Created(c)  \/ rows'[m].superseded_by = None
      BY <2>2 DEF Created, Same
    <3>. QED
      BY <1>1, <2>2, <3>1, <3>2, <3>3 DEF Shaped, Same
  <2>. QED
    BY <2>1, <2>2
<1>2. SupersedesAnswered'
  BY AnsweredKept DEF SupersedesAnswered
<1>3. \A c \in Memories :
        rows'[c].proposal # None /\ rows'[c].proposal.accepted =>
          \A m \in rows'[c].proposal.retires :
            rows'[m].status = "superseded" /\ OnChain(c, m)'
  BY MergedKept
<1>. QED
  BY <1>1, <1>2, <1>3 DEF PointersFinal

-----------------------------------------------------------------------------
LEMMA DerivationKept ==
  ASSUME ConstantAssumption, LifecycleInvariant, DerivationInvariant, [Next]_vars
  PROVE  DerivationInvariant'
<1>1. Shaped /\ RowsInvariant
  BY NextShape DEF LifecycleInvariant
<1>2. \A m \in Memories : RowFits(rows[m])
  BY DEF DerivationInvariant, ProposalsFit, RowFits
<1>3. \A m \in Memories : RowFits(rows'[m])
  BY <1>1, <1>2, RowsFit
<1>4. ProposalsFit'
  <2>1. \A m \in Memories :
          /\ rows'[m].supersedes \in Memories \cup {None}
          /\ rows'[m].proposal # None => ProposalFits(rows'[m].proposal)
          /\ rows'[m].status = "absent" =>
               rows'[m].supersedes = None /\ rows'[m].proposal = None
    BY <1>3 DEF RowFits
  <2>2. \A w \in Sessions : staged'[w] # None /\ staged'[w].job = "propose" =>
          ProposalFits(staged'[w].proposal) /\ ~ staged'[w].proposal.accepted
    BY <1>1, StagedKept
  <2>. QED
    BY <2>1, <2>2 DEF ProposalsFit, ProposalFits
<1>5. SweepsStand'
  BY <1>1, StagedKept DEF SweepsStand
<1>6. "sweep" \notin Jobs => PointersFinal'
  BY <1>1, <1>2, PointersKept DEF DerivationInvariant
<1>. QED
  BY <1>4, <1>5, <1>6 DEF DerivationInvariant

(* Every proposal retires inputs that could be read, a staged sweep reads    *)
(* rows whose proposal no longer changes, and without the sweep a pointer,   *)
(* once set, stays answered and leads on to the card.                        *)
THEOREM DerivationHolds == Spec => [](LifecycleInvariant /\ DerivationInvariant)
<1>1. Init => DerivationInvariant
  <2> SUFFICES ASSUME Init PROVE DerivationInvariant
    OBVIOUS
  <2>1. ProposalsFit /\ SweepsStand
    BY DEF Init, Blank, ProposalsFit, SweepsStand
  <2>2. PointersFinal
    BY DEF Init, Blank, PointersFinal, SupersedesAnswered
  <2> QED
    BY <2>1, <2>2 DEF DerivationInvariant
<1>2. LifecycleInvariant /\ DerivationInvariant /\ [Next]_vars => DerivationInvariant'
  BY ConstantAssumption, DerivationKept
<1> QED
  BY <1>1, <1>2, LifecycleHolds, PTL DEF Spec

(* Whatever gives a row a successor (undo, acceptance, replacement), the     *)
(* successor is an accepted row once the step is done.                       *)
THEOREM HeadsLive == Spec => HeadIsLive
<1>1. LifecycleInvariant /\ DerivationInvariant /\ [Next]_vars =>
        [\A m \in Memories :
           LET s == rows'[m].superseded_by IN
           s # rows[m].superseded_by => rows'[s].status \in SUCCESSOR]_vars
  <2> SUFFICES ASSUME LifecycleInvariant, DerivationInvariant, [Next]_vars,
                      NEW m \in Memories,
                      rows'[m].superseded_by # rows[m].superseded_by
               PROVE  rows'[rows'[m].superseded_by].status \in SUCCESSOR
    OBVIOUS
  <2>1. Shaped
    BY ConstantAssumption, NextShape
  <2>2. ASSUME NEW c \in Memories, Created(c)
        PROVE  FALSE
    <3>1. rows[c].superseded_by = None
      BY <2>2 DEF Created, LifecycleInvariant, RowsInvariant, RowInvariant
    <3> QED
      BY <2>2, <3>1 DEF Created, Same
  <2>3. ASSUME NEW c \in Memories, Merged(c)
        PROVE  rows'[rows'[m].superseded_by].status \in SUCCESSOR
    <3>1. rows'[m].superseded_by = c /\ rows'[c].status = "active"
      BY <2>3 DEF Merged, Same
    <3> QED
      BY <3>1 DEF SUCCESSOR
  <2>4. ASSUME NEW x \in Memories, NEW y \in Memories, Succeeded(x, y)
        PROVE  rows'[rows'[m].superseded_by].status \in SUCCESSOR
    <3>1. rows'[m].superseded_by = y /\ rows'[y].status \in SUCCESSOR
      BY <2>4 DEF Succeeded, Same
    <3> QED
      BY <3>1
  <2>5. ASSUME NEW x \in Memories, NEW y \in Memories, Replaced(x, y)
        PROVE  rows'[rows'[m].superseded_by].status \in SUCCESSOR
    <3>1. rows[y].superseded_by = None
      BY <2>5 DEF Replaced, LifecycleInvariant, RowsInvariant, RowInvariant
    <3>2. rows'[m].superseded_by = y /\ rows'[y].status = "active"
      BY <2>5, <3>1 DEF Replaced, Same
    <3> QED
      BY <3>2 DEF SUCCESSOR
  <2> QED
    BY <2>1, <2>2, <2>3, <2>4, <2>5 DEF Shaped, Same
<1> QED
  BY <1>1, DerivationHolds, PTL DEF Spec, HeadIsLive

(* A candidate becomes accepted in Accept only, which finds every input      *)
(* exactly as the generator read it, and live.                               *)
THEOREM ReviewedAccepted == Spec => AcceptedAsReviewed
<1>1. LifecycleInvariant /\ DerivationInvariant /\ [Next]_vars =>
        [\A c \in Memories :
           /\ Pending(c)
           /\ rows'[c].proposal # None
           /\ rows'[c].proposal.accepted
           => \A m \in DOMAIN rows[c].proposal.members :
                /\ rows[m].rev = rows[c].proposal.members[m].rev
                /\ rows[m].status \in LIVE]_vars
  <2> SUFFICES ASSUME LifecycleInvariant, DerivationInvariant, [Next]_vars,
                      NEW c \in Memories, Pending(c), rows'[c].proposal # None,
                      rows'[c].proposal.accepted,
                      NEW m \in DOMAIN rows[c].proposal.members
               PROVE  /\ rows[m].rev = rows[c].proposal.members[m].rev
                      /\ rows[m].status \in LIVE
    OBVIOUS
  <2>1. Shaped
    BY ConstantAssumption, NextShape
  <2>2. rows'[c].proposal # rows[c].proposal
    BY DEF Pending
  <2>3. ASSUME NEW x \in Memories, Created(x)
        PROVE  FALSE
    <3>1. rows[x].proposal = None
      BY <2>3 DEF Created, DerivationInvariant, ProposalsFit
    <3> QED
      BY <2>2, <2>3, <3>1 DEF Created, Same, Pending
  <2>4. ASSUME NEW x \in Memories, Merged(x)
        PROVE  Merged(c)
    <3>1. c = x
      BY <2>2, <2>4 DEF Merged, Same
    <3> QED
      BY <2>4, <3>1
  <2>5. ASSUME NEW x \in Memories, NEW y \in Memories, Succeeded(x, y)
        PROVE  FALSE
    BY <2>2, <2>5 DEF Succeeded, Same
  <2>6. ASSUME NEW x \in Memories, NEW y \in Memories, Replaced(x, y)
        PROVE  FALSE
    <3>1. rows[y].proposal = None
      BY <2>6 DEF Replaced, DerivationInvariant, ProposalsFit
    <3> QED
      BY <2>2, <2>6, <3>1 DEF Replaced, Same, Pending
  <2>7. Merged(c)
    BY <2>1, <2>2, <2>3, <2>4, <2>5, <2>6 DEF Shaped, Same
  <2> PICK p : p = rows[c].proposal
    OBVIOUS
  <2>8. ProposalFits(p) /\ p.members[m] = Snapshot(m) /\ m \in DOMAIN p.members
    BY <2>7 DEF Merged, Pending, AsReviewed, DerivationInvariant, ProposalsFit
  <2>9. Snapshot(m).status = rows[m].status /\ Snapshot(m).rev = rows[m].rev
    BY DEF Snapshot
  <2>10. p.members[m].status \in {"active", "accepted"}
    BY <2>8 DEF ProposalFits
  <2> QED
    BY <2>8, <2>9, <2>10 DEF LIVE
<1> QED
  BY <1>1, DerivationHolds, PTL DEF Spec, AcceptedAsReviewed

(* Only the sweep, whose UPDATE names no expected status, takes a row back   *)
(* from retirement: where it does not run, retirement is terminal.           *)
THEOREM RetirementFinal ==
  ASSUME "sweep" \notin Jobs
  PROVE  Spec => RetiredStaysRetired
<1>1. LifecycleInvariant /\ DerivationInvariant /\ [Next]_vars =>
        [\A m \in Memories : rows[m].status \in RETIRED => rows'[m].status \in RETIRED]_vars
  BY ConstantAssumption, NextShape DEF Shaped, Steady
<1> QED
  BY <1>1, DerivationHolds, PTL DEF Spec, RetiredStaysRetired

(* The row that a supersedes pointer names is superseded by the row that     *)
(* holds the pointer, where no sweep brings it back.                         *)
THEOREM AnsweredHolds ==
  ASSUME "sweep" \notin Jobs
  PROVE  Spec => []SupersedesAnswered
<1>1. DerivationInvariant => SupersedesAnswered
  BY DEF DerivationInvariant, PointersFinal
<1> QED
  BY <1>1, DerivationHolds, PTL

(* What an accepted card was to retire is retired and leads to the card,     *)
(* where no sweep brings it back.                                            *)
THEOREM MergedHolds ==
  ASSUME "sweep" \notin Jobs
  PROVE  Spec => []MergedLeadsToCard
<1>1. DerivationInvariant => MergedLeadsToCard
  BY DEF DerivationInvariant, PointersFinal, MergedLeadsToCard, RETIRED
<1> QED
  BY <1>1, DerivationHolds, PTL

=============================================================================
