CONSTANTS
    None = None
    Tasks = {t1, t2}
    Runs = {r1}
    Callers = {c1, c2}
    Workers = {w1}
    Tools = {"effect"}
    Routings = {"approval_required", "ready"}
    Checkpoints <- Waiting
    TargetSteps = 1
    MaxTicks = 1
    RetryCap = 1
    BudgetLimit = 1
    MaxCalls = 3
SPECIFICATION FairSpec
CHECK_DEADLOCK FALSE
INVARIANTS ExecutionWasApproved KeyedOnce TaskFollowsItsRecords ExecutionBelongsToItsRun
PROPERTIES DecisionIsFinal EveryTransactionEnds
