\* A staged sweep overwrites a row that was retired meanwhile.
\* The system rests once every row is retired, or at the bounds.
CONSTANTS
    None = None
    Memories = {m1, m2}
    Sessions = {w1}
    Jobs = {"sweep"}
    Modes = {"commit"}
    MaxRev <- TwoUpdates
SPECIFICATION Spec
SYMMETRY Symmetry
CHECK_DEADLOCK FALSE
PROPERTIES RetiredStaysRetired
