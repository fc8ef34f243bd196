\* Starts, handoffs, deaths and stops over three numbers; in the end all are dead.
CONSTANTS
    None = None
    Procs = {p1, p2, p3, p4}
    Pids = {n1, n2, n3}
SPECIFICATION Spec
SYMMETRY Symmetry
CHECK_DEADLOCK FALSE
INVARIANTS OneDaemon ServingDaemonIsFound
PROPERTIES LeaseIsNotTaken
