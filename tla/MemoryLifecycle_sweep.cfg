\* Every service operation on two memories races with the staleness sweep.
\* The system rests once every row is retired, or at the bounds.
CONSTANTS
    None = None
    Memories = {m1, m2}
    Sessions = {w1}
    Jobs = {"sweep"}
    Modes = {"commit", "confirm_inline", "propose_review"}
    MaxRev <- FourUpdates
SPECIFICATION Spec
SYMMETRY Symmetry
CHECK_DEADLOCK FALSE
INVARIANTS SupersessionAcyclic RefusedIsOut
