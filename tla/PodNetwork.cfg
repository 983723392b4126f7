SPECIFICATION Spec
CONSTANTS
    d1 = d1  d2 = d2  s1 = s1
    Containers <- MCContainers
    Static <- MCStatic
    OnePerPod = TRUE
    Faults = {"setup", "cleanup"}
    MaxRules = 2
SYMMETRY Symmetry
INVARIANTS TypeOK Wired CleanAfterDelete
