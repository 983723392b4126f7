SPECIFICATION Spec
CONSTANTS
    c1 = c1  c2 = c2  v1 = v1  v2 = v2
    Containers <- MCContainers
    Volumes <- MCVolumes
    Loops <- MCLoops
    Mounts <- MCMounts
    Faults = {"create", "restore", "remove"}
    Overlap = {"create"}
INVARIANTS TypeOK ExclusiveUse HeldDeviceStays RestoredAsFound
