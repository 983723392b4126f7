SPECIFICATION FairSpec
CONSTANTS
    NoProc = NoProc
    Procs = {p1, p2, p3}
    Commands = {"create", "start", "kill", "delete", "forcedelete"}
    Errors = TRUE
    Crashes = TRUE
INVARIANTS TypeOK InitIsFound RunningMeansReported StartedOnce ReportArrives
PROPERTIES DeleteOnlyStopped StartReturns
CHECK_DEADLOCK FALSE
