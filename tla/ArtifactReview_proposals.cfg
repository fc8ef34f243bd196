\* Two overlapping proposals, a third artifact, reviews, promotions and redactions.
\* The ids run out.
CONSTANTS
    None = None
    Artifacts = {a1, a2, a3}
    Memories = {m1, m2, m3}
    Generators = {g1, g2}
    Digests = {d1, d2}
SPECIFICATION Spec
SYMMETRY Symmetry
CHECK_DEADLOCK FALSE
INVARIANTS DecisionsProvable PendingIsReviewable PromotionStands
