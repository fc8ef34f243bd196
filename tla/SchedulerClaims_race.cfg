\* Two workers, a manual run and an editor share one workflow whose leases run out.
CONSTANTS
    None = None
    ManualOnly = ManualOnly
    Workflows = {w1}
    Runs = {r1, r2, r3}
    Workers = {k1, k2}
    Callers = {c1}
    Editors = {e1}
    Changes <- PauseAndResume
    Schedules <- MCSchedules
    SlotAfter <- MCSlotAfter
    Lease = 1
    ScanLimit = 1
    MaxTime = 3
    Horizon = 3
    MaxVersion = 2
SPECIFICATION Spec
SYMMETRY WorkerSymmetry
INVARIANTS TypeOK ClaimRowsAgree SlotPublishedOnce PublishedIffSucceeded LiveClaimHasCurrentConfig
PROPERTIES OutcomeFinal ClaimRevocation ImplementsLedger
