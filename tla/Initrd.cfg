SPECIFICATION Spec
CONSTANTS
    Components = {"etc", "hosts", "run", "app", "conf", "init"}
    Sources = {"h", "c"}
    Images <- MCImages
    MountLists <- MCMountLists
    MaxInode = 6
    MaxCreates = 3
INVARIANTS TypeOK InodesApart MountsVisible ImageKept
CHECK_DEADLOCK FALSE
