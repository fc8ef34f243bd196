\* Candidates built from two memories race with every other operation.
\* The system rests once every row is retired, or at the bounds.
CONSTANTS
    None = None
    Memories = {m1, m2, m3}
    Sessions = {w1}
    Jobs = {"merge", "dedup", "rollup"}
    Modes = {"commit", "confirm_inline"}
    MaxRev <- TwoUpdates
SPECIFICATION Spec
SYMMETRY Symmetry
CHECK_DEADLOCK FALSE
INVARIANTS SupersedesAnswered MergedLeadsToCard
PROPERTIES HeadIsLive AcceptedAsReviewed RetiredStaysRetired
