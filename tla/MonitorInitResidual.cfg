SPECIFICATION Spec
CONSTANTS
    NoProc = NoProc
    Procs = {p1, p2, p3}
    Commands = {"create", "start", "delete"}
    Errors = FALSE
    Crashes = TRUE
SYMMETRY Symmetry
INVARIANT NoResiduals
CHECK_DEADLOCK FALSE
