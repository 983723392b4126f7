SPECIFICATION Spec
CONSTANTS
    Containers <- MCContainers
    Hosts <- MCHosts
    ConfigFiles <- MCConfigFiles
    MaxCreates = 2
    MaxEdits = 1
INVARIANTS TypeOK AsAsked LaterAgrees SourcesReachable BootFilesSurvive NotHandedOver
CHECK_DEADLOCK FALSE
