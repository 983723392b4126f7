SPECIFICATION Spec
CONSTANTS
    NoProc = NoProc
    Procs = {p1, p2, p3, p4}
    Commands = {"create", "start", "kill", "delete", "forcedelete"}
    SerialCreate = TRUE
    BundleMayVanish = FALSE
    Faults = TRUE
SYMMETRY Symmetry
INVARIANTS TypeOK LiveMonitorIsKnown RunningMeansReported StartedOnce
PROPERTIES DeleteOnlyStopped ImplementsOCI
CHECK_DEADLOCK FALSE
