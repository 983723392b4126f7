SPECIFICATION Spec
CONSTANTS
    NoProc = NoProc
    Procs = {p1, p2, p3}
    Commands = {"create", "start", "forcedelete"}
    SerialCreate = TRUE
    BundleMayVanish = TRUE
    Faults = FALSE
CHECK_DEADLOCK FALSE
PROPERTY ForcedDeleteKills
