\* Two requests with one key, corrections, a sweep, a redaction and the backfill.
\* A command or a request may find nothing left to do.
CONSTANTS
    None = None
    Memories <- TwoRows
    Clients = {c1, c2}
    Keys = {k1}
    Texts = {x1, x2}
    Endpoints = {e1, e2}
    BatchSize = 1
    MaxEdits = 2
SPECIFICATION Spec
SYMMETRY Symmetry
CHECK_DEADLOCK FALSE
INVARIANTS KeyNamesOneMemory FoundByItsOwnText ReportedRowsAreCurrent
PROPERTIES RedactionIsFinal
