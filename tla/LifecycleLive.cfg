SPECIFICATION FairSpec
CONSTANTS
    NoProc = NoProc
    Procs = {p1, p2, p3}
    Commands = {"create", "start", "forcedelete"}
    SerialCreate = TRUE
    BundleMayVanish = FALSE
    Faults = TRUE
PROPERTIES CreateReturns StartReturns OrphansExit
CHECK_DEADLOCK FALSE
