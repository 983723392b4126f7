SPECIFICATION Spec
CONSTANTS
    NoProc = NoProc
    Procs = {p1, p2, p3}
    Commands = {"create", "start", "delete", "forcedelete"}
    SerialCreate = FALSE
    BundleMayVanish = TRUE
    Faults = TRUE
SYMMETRY Symmetry
INVARIANTS NoStaleStartSocket
CHECK_DEADLOCK FALSE
