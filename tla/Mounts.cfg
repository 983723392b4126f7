SPECIFICATION Spec
CONSTANTS
    Names <- MCNames
    HostTables <- MCHostTables
    ContainerMounts <- MCContainerMounts
INVARIANTS TypeOK HostUntouched PivotAllowed OptionsHold RootlessRemounts NodesVisible
CHECK_DEADLOCK FALSE
