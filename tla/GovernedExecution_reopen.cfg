\* An approval is given while its waiting run is cancelled.
CONSTANTS
    None = None
    Tasks = {t1}
    Runs = {r1}
    Callers = {c1, c2}
    Workers = {w1}
    Tools = {"plain"}
    Routings = {"approval_required"}
    Checkpoints <- Waiting
    TargetSteps = 1
    MaxTicks = 1
    RetryCap = 1
    BudgetLimit = 1
    MaxCalls = 2
SPECIFICATION Spec
SYMMETRY Symmetry
CHECK_DEADLOCK FALSE
PROPERTIES ResolutionNeverReopensCancelled
