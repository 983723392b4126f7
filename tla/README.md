# A TLA+ verification project for urunc

urunc is an OCI runtime for unikernels and single-application VMs. It is not a
daemon: every `urunc create`, `start`, `kill` or `delete` is a process of its
own, and the processes meet only through files, sockets, the host's mount table
and the network namespace of a pod. That is where its hard behaviour is, and
what these modules are about.

## 1. Inventory

| Component | State it keeps | Operations | Interacts with | What is hard |
|---|---|---|---|---|
| Lifecycle commands (`cmd/urunc/{create,start,kill,delete}.go`, `pkg/unikontainers/unikontainers.go`) | what one invocation holds in memory: a copy of the state, a pid | `createUnikontainer`, `startUnikontainer`, `Signal`, `Kill`, `Delete` | state.json, the reexec process, hooks | invocations overlap and act on stale copies; any of them may be killed |
| Reexec process and monitor (`reexecUnikontainer`, `Exec`, `execMonitor`) | how far it is; its connection to `start` | wait for UC_ACK, listen, wait for UC_START, connect, set up, report, execve | create (init socket, log pipe), start (two Unix sockets) | a handshake of three processes, two of which may die |
| Base directory and state.json (`InitialSetup`, `saveContainerState`, `Get`) | directory, status, pid, monitor.json | save, load, remove | all commands | a save truncates first; a missing bundle looks like a missing container |
| IPC (`ipc.go`, `ipc_message.go`) | socket files | listen, dial, await, send; the ready pipe of the libcontainer mode | start, reexec | stale socket files, no deadlines, no retry |
| Pod network (`pkg/network`, `SetupNet`, `cleanupNetwork`) | tap device, ingress qdiscs, filters, NAT rules | setup step by step, cleanup step by step | the pod's namespace, which outlives containers | no rollback, errors only logged, several containers in one namespace |
| Block volumes (`block.go`) | mount table, loop flags, BlockArgs in monitor.json | take volumes at create, restore at delete | other containers through the mount table | several steps per volume, partial failure, retries |
| Libcontainer mode (`create_libcontainer.go`, `monitor.go`, `libcontainer*.go`) | libcontainer's record of the container, exec fifo, ready FIFO | `libcontainerCreate`, `startMonitorInit`, `ExecMonitor`, `awaitReadyPipe`, `destroyLibcontainer` | libcontainer, state.json | two records of one process; a FIFO that forgets, is inherited, and ends a wait only when every writer is gone |
| Shim and annotations (`pkg/containerd-shim`, `annotations.go`) | the bundle's config.json, urunc.json in the image | patch annotations before create; validate; choose between the annotations and urunc.json | containerd, runc (a container that is no unikernel is handed over) | four sources with a precedence; errors that are only logged |
| urunc configuration (`urunc_config.go`) | config.toml, its copy in state.json | load with defaults, write to and read from the state's annotations | every command | edited between two commands; keys that a user's annotation may have too |
| Guest rootfs (`ChooseRootfs`, `rootfs.go`, `shared_fs.go`, `block.go`) | monitor.json, the container's snapshot | choose, take the boot files out, unmount, list devices and block images | annotations, guest and monitor abilities | the snapshot outlives the bundle; a move is a copy and a removal |
| Initrd (`initrd/initrd.go`, `initrd_rootfs.go`) | the archive in the snapshot | merge (Unikraft), copy (Linux), add the urunit configuration | mounts of the container, the guest's cpio reader | edited in place, again at every create, after a create that was killed |
| Mounts (`mount.go`, `rootfs.go`) | the mount table of the monitor's namespace | propagation, bind, remount, devices, pivot_root | the kernel, the host's mounts through peer groups | two calls for one mount, flags locked in a user namespace, propagation to the host |
| Hypervisors, unikernels (`hypervisors/`, `unikernels/`) | none | say what they support, build command lines, signal | monitor | mostly formatting |
| vAccel (`vaccel.go`) | none | guest CID of a container ID, the agent's socket in the monitor's rootfs | host's vsock | collisions |
| Log forwarding, metrics, `ps`, `run`, CLI | none | output | – | create waits for the end of the log |

Correctness, per component:

* lifecycle: a process that create has released is always found by kill and
  delete; delete never forgets a live one; at most one start of a container
  succeeds, and only on the report of that container's own process; create and
  start return; nothing unreleased stays behind;
* libcontainer mode: an init process whose create failed or was killed can still
  be ended by a delete; its report reaches the start that released it, whatever
  other starts do; a start that waits always returns;
* network: a guest told of a tap device has a complete path; a deleted
  container leaves nothing in the pod;
* volumes: a volume given to a guest is mounted nowhere else, its device stays,
  and it comes back as it was found;
* create's decisions: the configuration is the one that was asked for, whichever
  source it comes from; a unikernel is not run by runc; later commands work with
  what create decided; everything the monitor is told to open is there, and a
  create that breaks off has lost no file;
* initrd: a create that succeeds gives the guest the mounted files and keeps the
  image's; merged records do not become links to each other;
* mounts: nothing reaches the host, the options hold, pivot_root is not refused,
  the devices stay visible.

The hazards behind these properties are listed, at their lines, in
`PROJECT.json`.

## 2. Modules

| Module | What it is |
|---|---|
| `Lifecycle` | one container ID, any number of invocations and the reexec processes they spawn (native mode) |
| `OCIContainer` | what the engine is promised about one container; `Lifecycle` is checked to implement it |
| `LifecycleProofs` | TLAPS proofs about `Lifecycle` |
| `OCIProofs` | the TLAPS proof that `Lifecycle` implements `OCIContainer` |
| `Volumes` | the block volumes of several containers on one host |
| `VolumesProofs` | TLAPS proofs about `Volumes` |
| `PodNetwork` | the network namespace of one pod and its containers |
| `PodNetworkProofs` | TLAPS proofs about `PodNetwork` |
| `MonitorInit` | one container ID in libcontainer mode: the same commands, libcontainer's init process, the ready FIFO |
| `MonitorInitProofs` | TLAPS proofs about `MonitorInit` |
| `GuestRootfs` | what create decides, as functions: annotations, abilities of guests and monitors, `ChooseRootfs`, the builders |
| `Prepare` | the steps from the shim's create to the execve that use those decisions, and the records they leave |
| `PrepareProofs` | TLAPS proofs about `Prepare` |
| `Initrd` | the guest's initrd, edited in place at every create |
| `InitrdProofs` | TLAPS proofs about `Initrd` |
| `Mounts` | the mount table while the reexec process builds the monitor's root |
| `MountsProofs` | TLAPS proofs about `Mounts` |
| `MCLifecycle`, `MCVolumes`, `MCPodNetwork`, `MCMonitorInit`, `MCPrepare`, `MCInitrd`, `MCMounts` | instances for TLC |

### Lifecycle

`Procs` are the invocations. Each runs one command, named by `cmd[p]`, and is at
`pc[p]`; a `create` p also has a reexec process, at `rx[p]`, whose pid is written
p. `view[p]` is `u.State` in memory, `file` is state.json (`absent`, `torn`, or a
status and a pid), `dir` the base directory, labelled with the create that made
it. `rsock` and `usock` are the two socket files, `dialed`, `sent`, `uconn` and
`msg` the connections between a start and a reexec process, `ack` the UC_ACK in
the init socket.

Granularity: one action for each stretch of code that ends where another
process can see or disturb something. A save of state.json is two actions
(`SaveOpen` truncates, `SaveWrite` writes), because `os.WriteFile` is. Hooks,
I/O errors and the building of the monitor are nondeterministic outcomes of the
action they belong to. `CliDies` and `RxDies` kill any process anywhere. Removing
the base directory keeps writers that have the file open writing to the removed
file (`open`).

Command to actions: create is `CreatePrepare`, a save, `CreateSpawn`, a save,
`CreateHooks`, `CreateAck`, `CreateDrain`; start is `Get`, `StartListen`,
`StartDial`, `StartSend`, `StartAwait`, a save, `StartPoststart`; kill is `Get`,
`KillSignal`; delete is `DeleteGet`, (`DeleteKill`, `DeleteReap` with --force),
`DeleteCheck`, `DeleteRelease`, `DeleteRemove`; the reexec process is `RxBoot`,
`RxAwaitAck`, `RxGet`, `RxListen`, `RxAwaitStart`, `RxUnlisten`, `RxConnect`,
`RxExec`, `RxExecMonitor`.

The caller's contract is explicit. `SerialCreate`: no other command of the same
container runs while its create runs, which containerd guarantees. Names are
unique, as create's usage text demands. `~BundleMayVanish`: the engine removes
the bundle after the delete.

Abstractions: pids are not reused; a monitor that ignores a signal is one whose
kill step leaves it alive; Hedge, which has no process, is left out.

### OCIContainer

Status, process and report of one container as the engine sees them. The
refinement mapping reads a save in progress as not yet done (`RecordedStatus`)
and a file that nobody is going to complete as lost; the process is `held` from
UC_ACK on and `ready` from RX_SUCCESS on.

### Volumes

`mounted`, `autoclear` and `dev` are the host: the mount table, the loop flag, and
whether the device still has its backing file. Each container is at one point of
create or delete (`pc`), at position `i` of its list of volumes. `args` is the
BlockArgs list: in memory while create runs, in monitor.json afterwards, lost
when create fails. `Overlap` says what the caller may run at the same time on a
common volume, and `Faults` which steps may fail. Every call that another urunc
process can interleave with (the look at mountinfo, the flag, the unmount, the
remount, the flag again, the removal) is an action. `failed` is a history
variable: the ways in which a command on a volume has ever failed. The
properties use it to say what they still promise after a failure.

### PodNetwork

`have` is the set of objects in the namespace: the tap device, the ingress qdisc
and the redirect filter of the tap and of the pod's interface. A setup follows
`Plan`, the order of `networkSetup`, and stops at the first error without
rollback (`RunWithoutNet`); a cleanup goes through its steps whatever fails and
remembers the error. The kernel's part is external: what goes with a device
(`Without`), and that a device has one ingress qdisc and a single-queue tap one
user (`Possible`). The history variable `spoilt` says that some delete met an
error. There is one tap, since the dynamic network refuses a second
one and the static network always uses the same name.

The static network has no tc rules. After the tap, `EnableForwarding` and
`AppendRule` are `setNATRule`: `forward` is the namespace's ip_forward, `rules`
the number of MASQUERADE rules in its POSTROUTING chain. Delete takes neither
back, and every start appends one more rule: `CleanAfterDelete` is about tap
devices, qdiscs and filters only. `MaxRules` bounds the count, by not starting
another static container.

### MonitorInit

Invocations, `cmd`, `pc`, `view` and `dir` are as in `Lifecycle`; `state` is
state.json, and a save of it is two steps (`SaveOpen` truncates, `SaveWrite`
writes; either may fail, and `Unsaved` says where that leads). `lc` is
libcontainer's directory of the container, labelled with the create that made it, and `mon[c]` the init
process of create c: blocked on the exec fifo, booting, in `runMonitor` (`setup`,
`prestart`, `build`), past its report (`ready`), the monitor proper, or on its way
out. `fifo` is the ready FIFO that has the name, `rd[s]` the one a start has open,
`buf` its contents, `cloexec` and `helper` whether the descriptor is closed on
exec and whether a child has inherited it. `said` is history.

Command to actions: create is `CreatePrepare`, `InitialSave`, `LcCreate`,
`CreateReadyPipe`, `CreateSpawn`, `CreateSave`, with the deferred `CreateKillInit` and
`CreateDestroy` in the order in which Go runs them; start is `Get`, `StartOpen`,
`StartExec`, `StartAwait`, `StartSave`, `StartPoststart`, `StartClose`; kill is
`Get`, `KillSignal`; delete is `Get`, (`DeleteKill`, `DeleteReap` with --force),
`DeleteCheck`, `DeleteDestroy`, `DeleteRemove`; the init process is `MonBoot`,
`MonSetup`, `MonPreStart`, `MonReport`, `MonExec`, `MonExit`. `Begin` has the
caller's contract of `Lifecycle` built in: a create runs alone, and only for an
ID whose base directory does not exist.

`InitIsFound` says what is true of a live init process after its create:
libcontainer has it on record, whoever was killed; state.json names it if the
create succeeded, but for a file that a start of this container has truncated. If
that start then fails or is killed the file stays empty, and no command works on
the container any more: the code has nothing that repairs it. `Lifecycle` has the
same case in `LiveMonitorIsKnown` (`torn`).

libcontainer is external and modelled by what the code relies on: `Create`
refuses an ID whose directory exists; `Load` finds nothing before
`container.Start` saved a state; `Exec` lets one caller through the exec fifo and
fails afterwards; `Destroy` kills an init process that is still blocked and
refuses one that runs. So is the FIFO: a read ends when no writer is left, and
one that nobody has open has lost its contents. Not modelled: other errors of
`Load` in delete, the control socket, Hedge.

### GuestRootfs and Prepare

`GuestRootfs` has no state. Annotations are functions on the keys that are there;
values are names of files or one bad value, `unclean`, for what a check of a
path, a device name or a list of ports rejects. The selectors (`TryInitrd`,
`TryExplicitBlock`, `TryContainerRootfs`, ...) return a set with the rootfs
parameters or nothing, and `ChooseRootfs` is the order in which they are tried.
The guests' and the monitors' methods (`SupportsFS`, `UsesKVM`, ...) are a record
for each of them. The builders are `BootFiles`, `ContainerRootfsMount`,
`BlockDevs`, `BlockDevNodes`, `TmpfsSize` and `PreStartCmd`; together they are
`GetMonitorResources`, the contents of monitor.json.

`Prepare` follows one container. `annot` is what config.json has, `snap` the files
of the snapshot, `monfs` those of the bundle's monitor rootfs, `conf`, `cfg`,
`chosen` and `moving` are create's memory, `monitor`, `mspec` and `state` the three
records, `args` what the monitor is executed with. The shim is
`InjectUruncAnnotations` or `InjectFails`; create is `LoadConfig`, `NewHandsOver`
or `New`, `Choose`, (`CopyMountFiles`, `CopyBootFile` and `RemoveBootFile` in turn,
`UnmountRootfs` for a snapshot that becomes a block device),
`SaveMonitorResources`, `WriteMonitorSpec`, `SaveContainerState`; `Exec` reads back
what they wrote. `CreateFails` ends a create before any of these steps, and
`CreateAgain` begins the next one on the snapshot as it was left. `EditConfig`
changes config.toml at any time. `had` and `injected` are history. The
configuration is represented by one key of each kind: a mode, a switch, a number
with a default, a path.

A file mount may have the name of a boot file: it is copied into the block
snapshot first and then moved on to the bundle, where the monitor finds it and
the guest does not. `SourcesReachable` says so.

What the model says about a second create: the files that the first one moved
out of a block snapshot are gone with the bundle. `SourcesReachable` and `AsAsked`
are therefore about what was there when this create began, and `NotHandedOver`
names the two ways in which a unikernel still goes to runc: an injection that
failed, and a urunc.json that an earlier create took out.

### Initrd

The archive is a sequence of records, trailers and, where a write did not
complete, `torn` items; names are sequences of components, contents the name of
their source. `MergeBegin`, `MergeInspect` (which cuts the file at its trailer),
`MergeParent`, `MergeFile` and `WriterClose` are `MergeFileMountsIntoInitrd`;
`CopyBegin`, `CopyFile` and `WriterClose` are `CopyFileMountsToInitrd`;
`AddFileToInitrd` and `AddFileClose` the urunit configuration. Each write of a
record is a step, `WriteBreaks` fails or kills the process before or in one (that
of the urunit configuration too), and
`SourceChanges` removes or replaces the source of a mount between the two looks
at it. How guests read the file is external: `Readable`, `Effective`, `GuestSees`.

`MountsVisible` says where a Linux guest is worse off: the copy adds no parent
directories and does not look at the file it appends to. For either guest it is
about mounts that nothing else disturbs (`Undisturbed`): two mounts at one
destination replace each other, a mount at urunit.conf is replaced by urunc's own
configuration, and a parent that is a file, of the image or of another mount,
passes for the directory that `addMissingParents` looks for by name. `ImageKept`
leaves out what a mount or, on Linux, the urunit configuration replaces.

### Mounts

`table` is the mount table in mounting order; a mount has a place, a source, a
peer group and flags. `PrepareRoot`, `RootfsParentMountPrivate` and
`PrepareRootBind` are `prepareRoot`; `ApplyMount`, `RemountBind` and
`SetPropagation` the three parts of `applyMount`, in each of four phases (mounts,
devices, vAccel socket, vAccel devices); `PivotRoot`, `OldRootSlave` and
`UnmountOldRoot`, or `Chroot`, are `changeRoot`. mount(2), clone(2) and
pivot_root(2) are external: a mount on a shared parent shows up on the parent's
peers (`leaked` remembers those of the host), an unmount too (`lost`), a bind
mount starts with its source's flags, and in a user namespace flags are locked.
An `rbind` is MS_BIND with MS_REC: the mounts that can be seen below the source
come along (`Submounts`, an unbindable one excepted), each with its flags and its
own peer group. They are in `along`, with the index of the mount they came with;
a path is on the deepest of them (`On`). A propagation option changes the mount
itself, and those that came along only if it is a recursive one (`SpreadTree`).
The namespace is a copy of urunc's own, so shared mounts are peers of the host's
whether or not that is a user namespace: `FormatNsenterInfo` makes none.
Options are parsed in their order, as `splitMountOptions` does: its loop, those of
`onlyBindMounts` and of the propagation flags are recursive functions
(`SplitVFSFlags`, `OnlyBindMounts`, `Spread`), one call for each turn.

The constants are the hosts' mount tables, the mounts of OCI configurations, and
the words both are made of (`Names`). Assumed of them: `NamesAssumption` (urunc's
own words are among them), `ContainerAssumption` (the shape of an OCI mount) and
`HostAssumption`: every path is on some mount, and none is mounted in the
monitor's rootfs yet, which is a directory that create has just made. Mounts are
known by their index, which pivot_root keeps: the mounts of the list follow the
one of the new root in order, so that the one of volume i is at `MadeFor(i)`.
`HostUntouched` has one exception, when rootfsPropagation is not one of the
recursive ones that end sharing (the default, rslave, is): a volume on or below
(or at the same place as) a mount of another volume that still is a peer of the
host's. That is the other volume's own mount, if its options say nothing but
shared; or a submount that its `rbind` brought along, if no *recursive* option
says anything else. With `rbind,private` on /srv, and /srv/sub a shared mount of
the host, a second volume below the first one's /sub shows up on the host.
`RootlessRemounts` leaves out a mount that hides its own source, since
`getUnprivilegedMountFlags` then asks the wrong mount for the locked flags.

## 3. Runs

| Run | Instance | Shows |
|---|---|---|
| `lifecycle` | 4 invocations, all commands, faults, contract | its safety properties and `ImplementsOCI` |
| `lifecycle_live` | 3 invocations, create, start, delete --force, faults, fairness | `CreateReturns`, `StartReturns`, `OrphansExit` |
| `lifecycle_free` | 3 invocations, no contract (creates overlap, the bundle may vanish), faults | `NoStaleStartSocket` needs no contract |
| `lifecycle_bundle` (violation) | 3 invocations, create, start and delete --force; the bundle may vanish | `ForcedDeleteKills`: delete --force of a running container returns success and leaves the monitor |
| `volumes` | 2 containers over 2 shared volumes, one a loop device; creates overlap; every step fails | `ExclusiveUse`, `HeldDeviceStays`, `RestoredAsFound` |
| `volumes_race` (violation) | a create overlaps a delete | the loop device detaches |
| `network` | 2 dynamic and 1 static container, one at a time, every step fails | `Wired`, `CleanAfterDelete` |
| `monitor_init` | 3 invocations, all commands, every call fails, every process dies, fairness | the init process is found, its report arrives, one start succeeds, every start returns |
| `monitor_residual` (violation) | 3 invocations, processes die | libcontainer's directory outlives the container |
| `prepare` | images for 8 pairs of monitor and guest with their options, 3 places for the configuration, 2 hosts, 3 configuration files; 2 creates, 1 edit | `AsAsked`, `LaterAgrees`, `SourcesReachable`, `BootFilesSurvive`, `NotHandedOver` |
| `initrd` | archives of up to 2 records, whole, without a trailer, empty, concatenated, with a file where a mount needs a directory, with a urunit.conf; 1 or 2 mounts, also at one destination and at urunit.conf; 6 inodes; 3 creates | `InodesApart`, `MountsVisible`, `ImageKept` |
| `mounts` | 12 host tables, with a mount below the volumes' source, every rootfsPropagation, 40 lists of volumes, bind and rbind, with and without namespaces, tap and vAccel | `HostUntouched`, `PivotAllowed`, `OptionsHold`, `RootlessRemounts`, `NodesVisible` |

Bounds. Every invocation of `Lifecycle` runs once, so its behaviours end and
deadlock is not checked there; in `Volumes` and `PodNetwork` containers come back
for ever and it is. Four invocations are the smallest number with a create, two
commands that race and one that comes after them; the deepest counterexamples of
the mutants use three. Three invocations do for liveness: a create, a start and
a forced delete. The two containers in `Volumes` take two volumes in opposite
orders and come back for ever, so that each meets the other at every point of
its work and on what an earlier life of it left; two volumes are needed for a
create that fails at its second one. In `PodNetwork` two dynamic containers and
a static one cover every pair of kinds; with `MaxRules` 2 the static one comes
back to a rule that an earlier life of it left. Three invocations of `MonitorInit` are a
create and two commands that race for its init process, or a create, its delete
and the next create; its safety properties were also checked with four.

In `Prepare` two creates are needed for what the first one did to the snapshot,
and one edit of config.toml can fall anywhere in either; every pair of monitor
and guest that differs in what `ChooseRootfs` asks of them is there, and one pair
that is not supported. Three creates of `Initrd` are one that breaks off, one that
meets what it left, and one after that; six inodes are few enough that the
allocator runs out. In `Mounts` one volume lies below the other or is at the same
place, the cases in which propagation from a volume shows, and the source has a
mount of its own below it, which an rbind brings to just where the second volume
goes; the options set, clear and contradict each other. These three models end, so deadlock is not checked
there.

Fairness. `FairSpec` has weak fairness of every CLI process, of every reexec
process and of the reaping of exited processes: operating-system processes that
can run do run, and init reaps. Nothing obliges a caller to issue a command, and
nothing obliges anything to fail. `StartReturns` names the one way in which a
start may wait for ever: `AcceptUnix` has no deadline, and a reexec process that
died after UC_START never connects.

`MonitorInit` has weak fairness of every invocation and of every init process.
There `StartReturns` has no exception: the end of the FIFO is noticed whenever the
monitor dies, which is what the close-on-exec flag is for.

Symmetry (invocations, and the two dynamic containers) is used only in runs of
safety properties.

What disagreed with the code's own words is under `findings` in `PROJECT.json`,
one entry for each run marked violation.

## 4. Proofs

Each theorem is about the specification that the runs check, for every value of
the constants: any set of invocations, containers, volumes or images, not the
handful that TLC has. The states in which a step may begin are all that the
inductive invariant of the theorem allows.

### Lifecycle: `LifecycleProofs`

For any set of invocations and any mix of overlapping start, kill and delete,
with any process killed at any time. `Contract` is `SerialCreate` and
`~BundleMayVanish`.

| Theorem | States | Assumes |
|---|---|---|
| `TypeCorrect` | `TypeOK` | – |
| `StartSocketFresh` | `NoStaleStartSocket` | – |
| `MonitorKnown` | `LiveMonitorIsKnown` | `Contract` |
| `DeleteStopped` | `DeleteOnlyStopped` | `Contract` |
| `RunningReported` | `RunningMeansReported` | `Contract` |
| `StartedAtMostOnce` | `StartedOnce` | `Contract` |

None of these properties is inductive. `KnownInv` adds what the first ones need:
an invocation is at a point of its own command (`PcOK`); a create runs alone and
until UC_ACK no released process exists (`CreateAlone`); the directory and the
file are its own (`CreateOwnsDir`); only a create that wrote UC_ACK has released
anything (`AckedByCreate`); every command that has read the file holds the pid of
the released process, if there is one (`ViewsAgree`); and a delete past its check
has nothing alive behind it (`DeleteAfterStop`). `ViewsAgree` is the heart: the
pid a delete or a start acts on was read long ago, and it is still right because
a new process can be released only by a create, which runs alone. The lemmas
`QuietStep`, `CommandStep` and `BuildStep` say once what a step of a reexec
process, of a start/kill/delete and of a create may change; each action is then
shown to be such a step.

`OutcomeInv` adds the report. A reexec process is connected only to a start that
has read its pid (`ConnectsToReader`), it reports once and to one start
(`ReportsOnce`), and a start goes on to its save only with the report of the
process it has in memory (`SavesAfterReport`): two starts that both succeed on
one pid would need two reports.

### The refinement: `OCIProofs`

`OCIRefinement`: under `Contract`, `Spec => ImplementsOCI`, that is, every
behaviour of the commands is one of `OCIContainer` under the refinement mapping.
`RefineInv` adds to `OutcomeInv` what the mapping depends on: a file lies in a
directory (`FileInDir`); at most one process has state.json open for writing
(`OneWriter`), so that a torn file has one writer who will complete it or none;
what a create is saving is its own (`CreateSaves`); who holds a view of the
present directory has read it from there (`ViewsOfDir`); and until some start has
had the report the file says created (`CreatedUntilStart`). The proof then goes
by what a step can do to the three abstract variables: `RecordedNext` says when
the recorded status may move, `ProcNext` when the process may, `AckMoves` who
writes UC_ACK; `RemovalRefines`, `SaveRefines`, `PrepareRefines` and
`ProcessRefines` map those steps to actions of the abstract container, and
everything else is a stutter.

### Volumes: `VolumesProofs`

| Theorem | States | Assumes |
|---|---|---|
| `VolumesTyped` | `TypeOK` | – |
| `VolumesExclusive` | `ExclusiveUse` | – |
| `DevicesHeld` | `HeldDeviceStays` | `"delete" \notin Overlap` |
| `VolumesRestored` | `RestoredAsFound` | `"delete" \notin Overlap` |

`ExclusiveUse` holds for any overlap of creates and deletes and any failures. It
excuses a volume on which the last step of some delete failed: monitor.json is
still there then, and the retry mounts every volume in it that is not mounted.
`ClaimInv` says that a container lists a volume at most once, that no two
containers list the same one between its unmount and its remount, and where the
positions are. That a failure is never forgotten (`FailedGrows`) carries the
excuse through the steps. For the device `DeviceInv` adds that the autoclear flag
is off whenever the last mount of a held loop device may go (`FlagFollowsMount`),
and for the restoration `RestoreInv` adds that a volume which is not as it was
found is in the list of some container that will bring it back (`Answerable`).
The assumption is needed: the run `volumes_race` is the counterexample without it.

### Pod network: `PodNetworkProofs`

| Theorem | States | Assumes |
|---|---|---|
| `PodTypeCorrect` | `TypeOK` | – |
| `GuestWired` | `Wired` | `OnePerPod` |
| `DeletedClean` | `CleanAfterDelete` | `OnePerPod` |

`PodInv`: the pod has one container at a time (`Alone`), a setup that has come to
step k of its plan has made everything before k (`PlanMade`), nothing of the tap
is there without the tap (`Attached`) and, as long as no delete has met an error,
nothing at all (`TapFirst`), what a delete has passed is gone unless it met an
error (`Removed`, `ErrSpoils`), only a running container was given the tap
(`GivenToRunning`), and a NAT rule is appended with forwarding on (`Forwarded`).
`DeletedClean` is about tap devices, qdiscs and filters: forwarding and the NAT
rules stay for as long as the namespace does.

### Libcontainer mode: `MonitorInitProofs`

For any set of invocations, any failing calls and any killed processes, without
further assumptions (the caller's contract is part of `Begin`):
`MonitorTypeCorrect` (`TypeOK`), `InitAlwaysFound` (`InitIsFound`),
`RemovedOnlyStopped` (`DeleteOnlyStopped`), `MonitorReported`
(`RunningMeansReported`), `MonitorStartedOnce` (`StartedOnce`) and
`ReportReachesStart` (`ReportArrives`).

`FoundInv` rests on `LcKnows`: a live init process is the one that libcontainer's
record is about, and the container is on record. A start may have read a state
without a pid, and a save of it must not erase the pid of a later process;
`PidKnown` says that a start between its read and its save has the pid of the
live process of a create that succeeded; so if it is interrupted between the two
halves of the save it is a start of that very process (`Named`), and it can only
go on to fail (`StaysInterrupted`). `RemoveAfterStop` carries what
`DeleteDestroy` found out to the removal: the pid in state.json is no evidence
when create was killed before it was saved, libcontainer's answer is.

`ReportInv` follows the FIFO. A start has open the FIFO of the create that it will
let through the exec fifo (`ReadsItsFifo`, `FifoOfState`); while an init process
is alive no start has another FIFO (`LiveFifo`); a start past the exec fifo has
released the init process, and no other start of that container is past it
(`Released`, `OnePast`); and a monitor reports once (`ReportsOnce`). So the report
can be read by the start that released the monitor and by no other.

### Create's decisions: `PrepareProofs`

For any images, annotations, hosts and configuration files and any number of
creates and edits. `ImageAssumption`: the shim reads only annotations with urunc's
prefix (so never the name that marks a queue-proxy), a urunc.json that decodes is
in the image, and files have names.

| Theorem | States |
|---|---|
| `PrepareTyped` | `TypeOK` |
| `BootFilesKept` | `BootFilesSurvive` |
| `RecordsAgree` | `LaterAgrees` |
| `ConfigurationAsAsked` | `AsAsked` |
| `UnikernelsKept` | `NotHandedOver` |
| `MonitorFindsSources` | `SourcesReachable` |

`BootInv` says that while files are moved each is in the bundle or still on the
list, that what is about to be removed has been copied, and that the snapshot is
mounted until then. `RecordInv` follows the configuration from `New` to `Exec`:
what state.json carries reads back as create's own, for every key, also where the
user's annotations have a key of the configuration (`StateKeepsConf`); a zero
never gets into the map, so that the read's default for it is not taken; and
only a monitor that has virtiofs gets /tmp by the guest's memory, which rules
out the one monitor that sizes its guest itself (`VirtiofsSized`).

`ConfInv` is about the way to `New`: config.json is the spec patched with what the
shim got at, the snapshot is still as this create found it, and a container that
went to runc did so with no configuration to be had. `ReadsAsked` shows that
reading config.json is asking the sources in turn, `ConfOf` that the map made of
a configuration and of urunc's own keys reads back as that configuration.
`ReachInv` joins the three and adds what the builders decided: a snapshot that is
the container's rootfs stays mounted and whole, one that becomes a block device is
unmounted, for a guest that supports one (`DetachedBlock`). That is why a monitor
with a snapshot file, which only Unikraft guests have, never looks for it in an
unmounted directory.

### Initrd: `InitrdProofs`

For any images, mounts, bound on inodes and number of creates:
`InitrdTypeCorrect` (`TypeOK`), by which inodes stay in the format's range,
`InodesStayApart` (`InodesApart`), `MountedFilesSeen` (`MountsVisible`) and
`ImageFilesKept` (`ImageKept`).

`InodeInv` adds that while a merge is under way the allocator knows every inode
in the archive, and that only a Linux guest's file is copied to. It holds after a
create that broke off because every merge reads the inodes anew. The allocator
takes the least free number; that there is one is `LeastNat`, from the
well-foundedness of the natural numbers. Assumed: `ImageAssumption` and
`MountAssumption`, the types of what images and containers come with.

`SeenInv` is about what the last create has written so far. `Written(i)`: the file
of mount i is in the archive, the last one of its name, and in a Unikraft initrd
its parents are before it. `MountsWritten` says so of every regular mount the
create has come past; it is vacuous after the cut, which is why files of earlier
creates, which a cut may keep or lose, do not matter. That the parents are
directories needs `NamesHold` (in a merge existingNames are the names in the
archive, but for mounts that were passed over) and `FilesKnown` (a Unikraft
initrd's files are the image's or the mounts'): a name that is known and is no
such file is a directory. `BeginsWithImage` takes their place on Linux, where
nothing is ever cut. `Closed` has the trailer that a Unikraft kernel wants.

`KeptInv` follows the image through the cuts. For the image's first trailer t, the
archive begins with the t - 1 records before it, and either nothing has been
written yet or what is from t on has names that those records do not have, or a
mount's (`Beyond`). A cut is at the first trailer of the archive, so never before
t (`KeptCut`), a merge appends directories only under names it has not collected,
and everything else it appends is a mount's (`KeptAppend`). That two archives that
begin alike give the guest the same there is `SameBeginning`.

### Mounts: `MountsProofs`

For any mount tables of hosts, any mounts of OCI configurations, options of any
length and every combination of namespaces, tap and vAccel:

| Theorem | States |
|---|---|
| `MountsTyped` | `TypeOK` |
| `HostLeftAlone` | `HostUntouched` |
| `PivotNeverRefused` | `PivotAllowed` |
| `VolumeOptionsHold` | `OptionsHold` |
| `RootlessRemountsAllowed` | `RootlessRemounts` |
| `NodesStayVisible` | `NodesVisible` |

All six follow from one invariant, `MountsInv`, since each needs the others:

* `TableInv`: every path is on some mount, before pivot_root and below the old
  root after it.
* `TodoInv`: what is still to be mounted is the rest of the list, or the devices,
  or the socket; devices are mounted only in a user namespace.
* `RootInv`: the host's mounts come before the new root's and none is in it
  (`Pivotable`); the table has one mount for each entry of the list that was
  handled, so `MadeFor` tells which is whose. No mount is at the new root again,
  because the destinations in the list are not empty.
* `FlagsInv`: the mount of a volume has the flags that `FlagsFrom` computes from
  the options and from its source's. Between the bind mount and the remount it has
  the source's own, which is what `RootlessRemounts` is about. The source's mount
  does not change meanwhile if it is outside of the rootfs: the remount is of a
  mount in it.
* `AlongInv`: what came along with a mount came with a volume and is below it,
  and once `applyMount` is through with the volume it is still a peer of the
  host's only if no recursive option says otherwise.
* `GroupInv`: after a recursive rslave, rprivate or runbindable, no mount is a
  peer of the host's, and none that comes along is. Otherwise, at or after the
  new root, only the mount that is being made, the one of a volume whose options
  say nothing but shared, or the bind mount of a device: urunc's other bind
  mounts all have `private`.
* `ClearInv`: the devices and the socket are mounted at different places, so
  nothing is ever mounted on the bind mount of a device. What is left are mounts
  on volumes, the exception in `HostUntouched`.
* `NodesInv`: each node is on the mount that covers its path, and whatever is
  mounted after it is elsewhere: the socket is in /tmp, and in a user namespace,
  where devices are mounts as well, the console is the only node.

What a loop computes is shown without an induction scheme: `LoopExists` says that
the recursive function exists, and a statement about all of its turns is proved by
the least turn that violates it (`LeastNat`, from the well-foundedness of the
natural numbers, and `UpTo`). `SplitIsLastWord` is the result for the options (a
flag is set if and only if the last option about it sets it), `SpreadIs` the one
for propagation and `OnlyBindMountsIs` the one for the volumes. The mount that
covers a path is the deepest, and of those the last (`CoversSome`, `CoversOne`);
`CoveringAppend` and `CoveringPart` say how a mount and pivot_root change it.

### Only model-checked

* Liveness (`CreateReturns`, `StartReturns`, `OrphansExit`): fairness and ENABLED
  are out of the prover's reach.

## 5. Not modelled

`PROJECT.json` lists every component with its reason. Left out are

* formatting: the monitors' and the kernels' command lines, the bytes of a cpio
  record, the urunit configuration's text;
* output: metrics, logs (but for the end of the log that create waits for),
  `ps`; and the CLI's flags, `run` being create and start;
* `FormatNsenterInfo` and the C stage it feeds, cgroups and capabilities of
  libcontainer's configuration: data handed to code outside the repository;
* guest CIDs of vAccel (`idToGuestCID`): 97 values for any number of
  containers, and no promise that they differ;
* the addresses that the static and the dynamic network hand to the guest;
* a second urunc container in a pod: `PodNetwork` has it (`OnePerPod = FALSE`),
  but `CleanupAllUruncTaps` goes by the names of the taps, and `Wired` is promised
  for one container at a time.

## 6. Plan

Done:

1. `Lifecycle` and `OCIContainer`, `LifecycleProofs` (the core), `OCIProofs`.
2. `Volumes`, `VolumesProofs`.
3. `PodNetwork`, `PodNetworkProofs`.
4. `MonitorInit`, `MonitorInitProofs`.
5. `GuestRootfs` and `Prepare`, with the shim's annotations, `PrepareProofs`.
6. `Initrd`, `InitrdProofs`.
7. `Mounts`, `MountsProofs`.

Next, in this order:

8. A specification of the engine's view that both modes implement: in libcontainer
    mode a start can run a container whose create was killed before it recorded
    `created`, so `OCIContainer` as it stands asks too much of `MonitorInit`.
9. `Delete` as a composition: network, volumes, libcontainer and the directory of
   one container, with retries and --force.
