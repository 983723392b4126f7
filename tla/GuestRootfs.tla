----------------------------- MODULE GuestRootfs -----------------------------
(***************************************************************************)
(* The decisions of create: which configuration a container has            *)
(* (annotations.go), which root filesystem its guest gets (ChooseRootfs)   *)
(* and what that asks of the monitor's environment (the rootfs builders).  *)
(* They are functions of the annotations and of what create finds on the   *)
(* host; module Prepare has the steps that use them.                       *)
(*                                                                         *)
(* Annotations are a function on the keys that are there, without their    *)
(* prefix.  The values of binary, initrd, snapshot and block name files of *)
(* the image: "kernel", "initrd", "snapshot", "block".                     *)
(***************************************************************************)
EXTENDS Naturals, Sequences, FiniteSets

Keys == {"type", "hypervisor", "binary", "initrd", "snapshot", "block", "blkMntPoint",
         "mountRootfs", "netDev", "blkDev", "ports", "vAccel", "RPCAddress"}

\* Two maps in one: where both have a key, the first one's value.
Prefer(f, g) == [k \in DOMAIN f \cup DOMAIN g |-> IF k \in DOMAIN f THEN f[k] ELSE g[k]]

\* A key that is not there reads as the empty string.
Value(annot, k) == IF k \in DOMAIN annot THEN annot[k] ELSE ""

-----------------------------------------------------------------------------
(* What guests and monitors can do.                                        *)

SupportedGuestMonitorPairs ==
    ({"hvt", "spt"} \X {"rumprun", "mirage"})
        \cup ({"qemu"} \X {"mewz", "mirage", "unikraft", "linux", "hermit", "freebsd"})
        \cup ({"firecracker"} \X {"linux", "unikraft", "freebsd"})
        \cup {<<"cloud-hypervisor", "linux">>, <<"hyperlight-unikraft", "unikraft">>}

\* SupportsBlock and SupportsFS of every guest.
Linux == [block |-> TRUE, fs |-> {"ext2", "ext3", "ext4", "9pfs", "virtiofs"}]
FreeBSD == [block |-> TRUE, fs |-> {"ext2", "9pfs"}]
Rumprun == [block |-> TRUE, fs |-> {"ext2"}]
Unikraft == [block |-> FALSE, fs |-> {"9pfs"}]
Hermit == [block |-> FALSE, fs |-> {"initrd"}]
Mewz == [block |-> FALSE, fs |-> {}]
Mirage == [block |-> TRUE, fs |-> {}]

NewUnikernel ==
    [linux |-> Linux, freebsd |-> FreeBSD, rumprun |-> Rumprun, unikraft |-> Unikraft,
     hermit |-> Hermit, mewz |-> Mewz, mirage |-> Mirage]

SupportsBlock(guest) == NewUnikernel[guest].block
FileSystems(guest) == NewUnikernel[guest].fs

\* UsesKVM, UsesTUNTAP and SupportsSharedfs of every monitor.
Qemu == [kvm |-> TRUE, tuntap |-> TRUE, sharedfs |-> {"virtio", "9p"}]
Firecracker == [kvm |-> TRUE, tuntap |-> TRUE, sharedfs |-> {}]
CloudHypervisor == [kvm |-> TRUE, tuntap |-> TRUE, sharedfs |-> {"virtio"}]
HVT == [kvm |-> TRUE, tuntap |-> TRUE, sharedfs |-> {}]
SPT == [kvm |-> FALSE, tuntap |-> TRUE, sharedfs |-> {}]
Hyperlight == [kvm |-> TRUE, tuntap |-> FALSE, sharedfs |-> {}]

NewVMM(vmm) ==
    CASE vmm = "qemu" -> Qemu
      [] vmm = "firecracker" -> Firecracker
      [] vmm = "cloud-hypervisor" -> CloudHypervisor
      [] vmm = "hvt" -> HVT
      [] vmm = "spt" -> SPT
      [] OTHER -> Hyperlight

SupportsSharedfs(vmm, fs) == fs \in NewVMM(vmm).sharedfs
UsesTUNTAP(vmm) == NewVMM(vmm).tuntap
UsesKVM(vmm) == NewVMM(vmm).kvm

-----------------------------------------------------------------------------
(* The configuration of a container.                                       *)

\* validate: the mandatory fields.
Validate(c) ==
    /\ c.type # "" /\ c.hypervisor # ""
    /\ c.binary # "" \/ c.hypervisor = "hyperlight-unikraft"

\* The formats of the RPC address of vAccel that the monitors accept.
VAccelAddress(vmm) ==
    IF vmm = "qemu" THEN {"vsock"} ELSE IF vmm = "firecracker" THEN {"unix"} ELSE {}

\* validateValues.  The value "unclean" stands for what the checks of a path, a
\* device name or a list of ports reject.
ValidatePaths(c) == \A k \in {"binary", "initrd", "snapshot", "block", "blkMntPoint"} : c[k] # "unclean"
ValidateSolo5DevName(v) == v # "unclean"
ValidateHyperlightPorts(c) == c.ports # "" => c.hypervisor = "hyperlight-unikraft" /\ c.ports # "unclean"
ValidateSnapshot(c) ==
    c.snapshot # "" => c.hypervisor = "hyperlight-unikraft" /\ c.binary = "" /\ c.initrd = ""
ValidateVAccel(c) ==
    IF c.vAccel = "" THEN c.RPCAddress = ""
    ELSE c.vAccel = "vsock" /\ c.RPCAddress \in VAccelAddress(c.hypervisor)
ValidateValuesUnpaired(c) ==
    /\ ValidateSnapshot(c)
    /\ ValidatePaths(c)
    /\ c.mountRootfs \in {"", "true", "false"}
    /\ ValidateVAccel(c)
ValidateValues(c) ==
    /\ <<c.hypervisor, c.type>> \in SupportedGuestMonitorPairs
    /\ ValidateSnapshot(c)
    /\ ValidatePaths(c)
    /\ c.mountRootfs \in {"", "true", "false"}
    /\ ValidateSolo5DevName(c.netDev) /\ ValidateSolo5DevName(c.blkDev)
    /\ ValidateHyperlightPorts(c)
    /\ ValidateVAccel(c)

GetConfigFromSpec(annot) == [k \in Keys |-> Value(annot, k)]

\* getConfigFromJSON, decode and what is taken from the spec nevertheless: the
\* annotations of vAccel, which are never urunc.json's, and the ports if the
\* spec has them.  A file whose values are not base64 does not decode.
TakenFromSpec(annot) ==
    {"vAccel", "RPCAddress"} \cup {k \in {"ports"} : Value(annot, k) # ""}
GetConfigFromJSON(json, annot) ==
    [k \in Keys |-> IF k \in TakenFromSpec(annot) THEN Value(annot, k) ELSE Value(json.values, k)]

\* GetUnikernelConfig: the annotations if they are complete, else urunc.json,
\* else none: ErrNotUnikernel.
GetUnikernelConfigSpec(annot, json) ==
    {c \in {GetConfigFromSpec(annot)} : Validate(c)}
GetUnikernelConfig(annot, json) ==
    IF Validate(GetConfigFromSpec(annot)) THEN {GetConfigFromSpec(annot)}
    ELSE {c \in {GetConfigFromJSON(json, annot)} : json.decodes /\ Validate(c)}

\* Map: only what is set.
ConfigMap(c) == [k \in {x \in Keys : c[x] # ""} |-> c[k]]

-----------------------------------------------------------------------------
(* ChooseRootfs.  Each of the selectors returns the parameters, or nothing.*)

Params(type, path, mountedPath) == [type |-> type, path |-> path, mountedPath |-> mountedPath]

\* host: the file system type of the mounted snapshot ("" if its mount could
\* not be looked up), whether virtiofsd and the tun device are there.
ShouldMountContainerRootfs(c) == c.mountRootfs = "true"

TryInitrd(c) == {p \in {Params("initrd", c.initrd, "rootfs")} : c.initrd # ""}

TryExplicitBlock(c) ==
    {p \in {Params("block", c.block, "")} :
        c.block # "" /\ c.blkMntPoint = "/" /\ SupportsBlock(c.type)}

TryContainerBlockRootfs(c, host) ==
    {p \in {Params("block", "device", "rootfs")} :
        SupportsBlock(c.type) /\ host.fs \in FileSystems(c.type)}

TryVirtiofs(c, host) ==
    {p \in {Params("virtiofs", "rootfs", "rootfs")} :
        /\ "virtiofs" \in FileSystems(c.type)
        /\ SupportsSharedfs(c.hypervisor, "virtio")
        /\ host.virtiofsd}

Try9pfs(c) ==
    {p \in {Params("9pfs", "rootfs", "rootfs")} :
        "9pfs" \in FileSystems(c.type) /\ SupportsSharedfs(c.hypervisor, "9p")}

\* The first of two tries that finds something.
OrElse(first, second) == IF first # {} THEN first ELSE second

TryContainerSharedFS(c, host) == OrElse(TryVirtiofs(c, host), Try9pfs(c))

TryContainerRootfs(c, host) ==
    IF ShouldMountContainerRootfs(c)
    THEN OrElse(TryContainerBlockRootfs(c, host), TryContainerSharedFS(c, host))
    ELSE {}

\* Nothing is an error; so is a rootfs that was asked for and cannot be had.
NoRootfs(c) == {p \in {Params("", "", "rootfs")} : ~ShouldMountContainerRootfs(c)}

ChooseRootfs(c, host) ==
    OrElse(TryInitrd(c),
        OrElse(TryExplicitBlock(c),
            OrElse(TryContainerRootfs(c, host), NoRootfs(c))))

-----------------------------------------------------------------------------
(* The builders.  What getBlockDevs does with the block devices among the  *)
(* mounts is module Volumes, the postSetup of an initrd module Initrd.     *)

\* A snapshot that becomes the guest's block device: create takes the boot
\* files out of it and unmounts it.
IsDetached(p) == p.type = "block" /\ p.mountedPath # ""

\* extractBootFiles, in its order.
IfSet(f) == IF f = "" THEN <<>> ELSE <<f>>
BootFilesInitrd(c) == IfSet(c.initrd) \o <<"urunc.json">>
BootFiles(c) == <<c.binary>> \o IfSet(c.initrd) \o <<"urunc.json">>

\* getMounts: every other rootfs is bind-mounted at containerRootfsMountPath,
\* read-only if the monitor only reads from it.
ContainerRootfsMount(p, c) ==
    {ro \in BOOLEAN :
        /\ ~IsDetached(p)
        /\ ro = (p.type = "" /\ (c.block = "" \/ c.blkMntPoint = ""))}

\* getBlockDevs.  handleExplicitBlockImage refuses an image without a mount
\* point; one for "/" is no block device of a guest without a rootfs.
ExplicitBlockRefused(p, c) == p.type = "" /\ c.block # "" /\ c.blkMntPoint = ""
BlockDevs(p, c) ==
    IF p.type = "block"
    THEN {[source |-> p.path, explicit |-> p.mountedPath = "",
           mountPoint |-> IF c.type = "rumprun" THEN "/data" ELSE "/"]}
    ELSE {b \in {[source |-> c.block, explicit |-> TRUE, mountPoint |-> c.blkMntPoint]} :
            p.type = "" /\ c.block # "" /\ c.blkMntPoint # "/"}

\* blockDevNodes: device nodes for what is a device of the host.
BlockDevNodes(p, c) ==
    {b.source : b \in {x \in BlockDevs(p, c) :
                        p.type = "block" /\ ~(x.source = p.path /\ p.mountedPath = "")}}

\* getMonitorDevices.  A host without the tun device is only warned about.
MonitorDevices(c, host) ==
    {"null", "urandom"}
        \cup (IF UsesTUNTAP(c.hypervisor) /\ host.tun THEN {"tun"} ELSE {})
        \cup (IF UsesKVM(c.hypervisor) THEN {"kvm"} ELSE {})

\* chooseTmpfsSize: /tmp holds the guest's memory when virtiofsd shares it.
TmpfsSize(p, mem) == IF p.type = "virtiofs" THEN mem ELSE "65536k"

\* preStartCmd.
PreStartCmd(p) == IF p.type = "virtiofs" THEN "virtiofsd" ELSE ""

\* getMonitorResources.
GetMonitorResources(p, c, host, mem) ==
    [rootfs |-> p,
     cntrMount |-> ContainerRootfsMount(p, c),
     devices |-> MonitorDevices(c, host) \cup BlockDevNodes(p, c),
     blocks |-> BlockDevs(p, c),
     tmpfs |-> TmpfsSize(p, mem),
     prestart |-> PreStartCmd(p)]
=============================================================================
