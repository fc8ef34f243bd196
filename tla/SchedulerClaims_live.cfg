\* One worker that may crash and an editor; everything claimed ends.
CONSTANTS
    None = None
    ManualOnly = ManualOnly
    Workflows = {w1}
    Runs = {r1, r2, r3, r4}
    Workers = {k1}
    Callers = {}
    Editors = {e1}
    Changes <- PauseAndResume
    Schedules <- MCSchedules
    SlotAfter <- MCSlotAfter
    Lease = 1
    ScanLimit = 1
    MaxTime = 5
    Horizon = 2
    MaxVersion = 2
SPECIFICATION FairSpec
PROPERTIES ClaimedRunsEnd DueSlotsAdvance
