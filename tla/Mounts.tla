------------------------------- MODULE Mounts -------------------------------
(***************************************************************************)
(* The monitor's root filesystem: what the reexec process does between the *)
(* network and the execve of the monitor (setupMonitorRootfs, the vAccel   *)
(* socket, changeRoot).  It works on a mount table that the kernel keeps,  *)
(* and whose mounts may be peers of the host's: a mount or an unmount in   *)
(* the wrong place happens in the host, too.                               *)
(*                                                                         *)
(* A path is the sequence of its components.  A mount is where it is, what *)
(* of (a path, or the file system's type), the peer group it is in, and its*)
(* flags; a slave is in no group, since nothing goes from it to the host.  *)
(* A recursive bind mount brings the mounts below its source along.  The   *)
(* kernel's part (bind, remount, propagation, pivot_root) is external.     *)
(***************************************************************************)
EXTENDS Naturals, Sequences, FiniteSets, SequencesExt

CONSTANTS
    Names,          \* the words of paths, options and types, and peer groups
    HostTables,     \* the mount tables that a namespace may start with
    ContainerMounts \* the mounts that OCI configurations ask for, in order

VARIABLES
    cfg,            \* what create and the OCI configuration have decided
    pc,             \* what the reexec process does next
    todo, step,     \* the mounts still to be made, the step of the first one
    table,          \* the mount table of its namespace, in mounting order
    along,          \* the mounts that a recursive bind mount brought along, each
                    \* with the place in the table of the one it came with
    old,            \* after pivot_root: the mounts below /old_root (the rest of
                    \* the table: neither is renumbered)
    nodes,          \* files it made in /dev: the path and the mount each is on
    leaked,         \* history: mount points that also got a mount on the host
                    \* (what came along with it is not counted)
    lost            \* history: mount points of the host that were unmounted

vars == <<cfg, pc, todo, step, table, along, old, nodes, leaked, lost>>

\* Where the bundle's monitor rootfs and the container's rootfs are.
MonRootfs == <<"run", "mon">>
CntrRootfs == <<"run", "rootfs">>
containerRootfsMountPath == <<"cntrRootfs">>
vAccelMountPath == <<"tmp", "vaccel">>

-----------------------------------------------------------------------------
(* Mount options.  A flag is named after the option that sets it.          *)

VFSFlags == {"ro", "nosuid", "nodev", "noexec", "noatime", "relatime", "strictatime"}
AtimeFlags == {"noatime", "relatime", "strictatime"}
Clears ==
    [rw |-> "ro", suid |-> "nosuid", dev |-> "nodev", exec |-> "noexec",
     atime |-> "noatime", norelatime |-> "relatime", nostrictatime |-> "strictatime"]

\* mapRootfsPropagationFlag.
Propagation ==
    [private |-> "private", rprivate |-> "private", slave |-> "slave", rslave |-> "slave",
     shared |-> "shared", rshared |-> "shared",
     unbindable |-> "unbindable", runbindable |-> "unbindable"]
Recursive == {"rprivate", "rslave", "rshared", "runbindable"}

\* What splitMountOptions withholds from containerd's mount package: the VFS
\* flags, one option after the other, and the propagation flags.
ApplyOptionAny(flags, o) == flags \cup {o}
ApplyOptionAdding(flags, o) == IF o \in VFSFlags THEN flags \cup {o} ELSE flags
ApplyOption(flags, o) ==
    IF o \in VFSFlags THEN flags \cup {o}
    ELSE IF o \in DOMAIN Clears THEN flags \ {Clears[o]}
    ELSE flags
SplitVFSFlags(opts) ==
    LET flags[n \in 0..Len(opts)] ==
            IF n = 0 THEN {} ELSE ApplyOption(flags[n - 1], opts[n])
    IN  flags[Len(opts)]

IsBindMount(m) == \E i \in DOMAIN m.opts : m.opts[i] \in {"bind", "rbind"}
IsRecursiveBind(m) == \E i \in DOMAIN m.opts : m.opts[i] = "rbind"

\* onlyBindMounts: what the guest is given of the container's mounts.  A source
\* that lies in the host kernel's own file systems is left out, and a mount that
\* says it is one but has no option for it makes create fail.
IsHostKernelFS(p) == p # <<>> /\ p[1] \in {"proc", "sys"}
BindWithoutOption(mounts) ==
    \E i \in DOMAIN mounts : mounts[i].type \in {"bind", "rbind"} /\ ~IsBindMount(mounts[i])
OnlyBindMounts(mounts) ==
    LET result[n \in 0..Len(mounts)] ==
            IF n = 0 THEN <<>>
            ELSE IF IsBindMount(mounts[n]) /\ ~IsHostKernelFS(mounts[n].src)
            THEN Append(result[n - 1], mounts[n]) ELSE result[n - 1]
    IN  result[Len(mounts)]

BindMount(src, dest, private, ro, extra) ==
    [type |-> "bind", src |-> src, dest |-> dest,
     opts |-> <<"bind">> \o (IF private THEN <<"private">> ELSE <<>>)
                         \o (IF ro THEN <<"ro">> ELSE <<>>) \o extra]
TmpfsMount(dest) ==
    [type |-> "tmpfs", src |-> <<>>, dest |-> dest,
     opts |-> <<"nosuid", "noexec", "strictatime", "mode=1777", "private">>]

\* mountsForMonitor: the special file systems, the binary and its libraries.
MountsForMonitor ==
    << [type |-> "proc", src |-> <<>>, dest |-> <<"proc">>, opts |-> <<>>],
       [type |-> "tmpfs", src |-> <<>>, dest |-> <<"dev">>,
        opts |-> <<"nosuid", "strictatime", "private">>],
       [type |-> "devpts", src |-> <<>>, dest |-> <<"dev", "pts">>, opts |-> <<"nosuid", "noexec">>],
       BindMount(<<"usr">>, <<"usr">>, TRUE, TRUE, <<>>) >>

\* getMounts of the builder: the container's rootfs, /tmp, and the volumes,
\* which rebaseBindMounts moves below it.
RootfsMounts(volumes) ==
    << BindMount(CntrRootfs, containerRootfsMountPath, TRUE, FALSE,
                 <<"nodev", "nosuid", "noexec">>),
       TmpfsMount(<<"tmp">>) >>
    \o [i \in DOMAIN volumes |->
          [volumes[i] EXCEPT !.dest = containerRootfsMountPath \o volumes[i].dest]]

\* Without a tap there is no tun device in the monitor's rootfs.
DevicePaths(tap) ==
    <<<<"dev", "null">>, <<"dev", "kvm">>>>
        \o (IF tap THEN <<<<"dev", "net", "tun">>>> ELSE <<>>)
VSockDevices == <<<<"dev", "vsock">>, <<"dev", "vhost-vsock">>>>

-----------------------------------------------------------------------------
(* The kernel (external).                                                  *)

Path == Seq(Names)
MountFlags == {f \in SUBSET VFSFlags : \E a \in AtimeFlags : f \cap AtimeFlags = {a}}
Mounted == [at : Path, what : Path, group : Names, bindable : BOOLEAN, flags : MountFlags]
Mount(at, what, group, flags) ==
    [at |-> at, what |-> what, group |-> group, bindable |-> TRUE, flags |-> flags]

\* The words that urunc itself uses.
OwnNames ==
    {"run", "mon", "rootfs", "cntrRootfs", "usr", "tmp", "vaccel", "proc", "dev", "pts",
     "null", "kvm", "net", "tun", "vsock", "vhost-vsock", "console", "tmpfs", "devpts",
     "bind", "private", "ro", "nodev", "nosuid", "noexec", "strictatime", "mode=1777",
     "none", "own"}
ASSUME NamesAssumption == OwnNames \subseteq Names
\* The namespace is a copy of the one urunc runs in, a user namespace or not: the
\* mounts that are shared there are peers of the copies (in a copy that another
\* user namespace owns they would be in no group).  The root is mounted first,
\* and nothing in the monitor's rootfs, a directory that create has made.
ASSUME HostAssumption ==
    \A t \in HostTables :
        /\ t \in Seq(Mounted)
        /\ 1 \in DOMAIN t /\ t[1].at = <<>>
        /\ \A k \in DOMAIN t : t[k].group # "own" /\ ~IsPrefix(MonRootfs, t[k].at)
ASSUME ContainerAssumption ==
    ContainerMounts \subseteq Seq([type : Names, src : Path, dest : Path, opts : Seq(Names)])

\* The mount of the table that path p is on: a mount hides what was mounted at or
\* below its place before, so the last one decides.
Covers(t, k, p) ==
    /\ IsPrefix(t[k].at, p)
    /\ \A j \in DOMAIN t : IsPrefix(t[j].at, p) => j <= k
Covering(t, p) == CHOOSE k \in DOMAIN t : Covers(t, k, p)

\* The mount that path p is on: that one, or the deepest of those that came along
\* with it.
On(p) ==
    LET k == Covering(table, p)
        over == {a \in along : a.with = k /\ IsPrefix(a.mount.at, p)}
    IN  IF over = {} THEN table[k]
        ELSE (CHOOSE a \in over : \A b \in over : Len(b.mount.at) <= Len(a.mount.at)).mount

\* The mounts that can be seen below path p.  An unbindable one is not copied,
\* and neither is what is below it.
MountPoints == {table[k].at : k \in DOMAIN table} \cup {a.mount.at : a \in along}
Submounts(p) ==
    {On(q) : q \in {r \in MountPoints :
        /\ IsStrictPrefix(p, r) /\ On(r).at = r
        /\ \A u \in MountPoints : IsStrictPrefix(p, u) /\ IsPrefix(u, r) => On(u).bindable}}

\* The peer groups that have a mount of the host in them.
IsHosts(group) == group \notin {"none", "own"}

Make(m, kind) ==
    IF kind = "shared"
    THEN [m EXCEPT !.group = IF @ = "none" THEN "own" ELSE @, !.bindable = TRUE]
    ELSE IF kind = "slave"
    THEN [m EXCEPT !.group = "none"]
    ELSE [m EXCEPT !.group = "none", !.bindable = (kind = "private")]

\* A mount whose propagation the options of opts have changed, in their order,
\* as far as they reach it.
Spread(m, opts, reach) ==
    LET made[n \in 0..Len(opts)] ==
            IF n = 0 THEN m
            ELSE IF opts[n] \in reach
            THEN Make(made[n - 1], Propagation[opts[n]]) ELSE made[n - 1]
    IN  made[Len(opts)]

\* A mount on a shared parent is made on the parent's peers as well, and is
\* itself shared with those copies, and so are the ones that come along.
Joined(m, parent) ==
    IF m.group = "none" /\ parent.group # "none" THEN [m EXCEPT !.group = parent.group] ELSE m
Attach(m, submounts) ==
    LET parent == On(m.at)
        inHost == ~cfg.mntns \/ IsHosts(parent.group)
    IN  /\ table' = Append(table, Joined(m, parent))
        /\ along' = along \cup {[with |-> Len(table) + 1, mount |-> Joined(x, parent)] : x \in submounts}
        /\ leaked' = IF inHost THEN leaked \cup {m.at} ELSE leaked

\* A bind mount is a clone of the mount that its source is on, flags included.
Moved(m, src, dest) == [m EXCEPT !.at = dest \o SubSeq(m.at, Len(src) + 1, Len(m.at))]
Bind(src, dest, recursive) ==
    Attach([On(src) EXCEPT !.at = dest, !.what = src],
           IF recursive THEN {Moved(x, src, dest) : x \in Submounts(src)} ELSE {})

\* The flags a remount leaves: all are replaced, but without a word about
\* atime that one stays.
Remounted(m, asked) ==
    (asked \ AtimeFlags) \cup
        (IF asked \cap AtimeFlags = {} THEN m.flags \cap AtimeFlags
         ELSE IF "strictatime" \in asked THEN {"strictatime"}
         ELSE IF "noatime" \in asked THEN {"noatime"} ELSE {"relatime"})

\* In a user namespace the flags that came from outside are locked.
MayRemount(m, asked) ==
    cfg.userns => /\ m.flags \ AtimeFlags \subseteq asked
                  /\ Remounted(m, asked) \cap AtimeFlags = m.flags \cap AtimeFlags

-----------------------------------------------------------------------------
Goto(p) == pc' = p /\ UNCHANGED <<cfg, old, lost>>
Fail == Goto("failed") /\ UNCHANGED <<todo, step, table, along, nodes, leaked>>

Init ==
    /\ cfg \in [mntns : BOOLEAN, userns : BOOLEAN, tap : BOOLEAN, vaccel : BOOLEAN,
                prop : {""} \cup DOMAIN Propagation,
                volumes : {OnlyBindMounts(m) : m \in {x \in ContainerMounts : ~BindWithoutOption(x)}}]
    /\ table \in HostTables /\ along = {}
    /\ pc = "propagate" /\ todo = <<>> /\ step = "mount" /\ old = <<>>
    /\ nodes = {} /\ leaked = {} /\ lost = {}

\* prepareRoot, in three calls of mount(2).  The default is rslave.
RootPropagation == IF cfg.prop = "" THEN "rslave" ELSE cfg.prop

PrepareRoot ==
    /\ pc = "propagate"
    /\ table' = [k \in DOMAIN table |->
                   IF RootPropagation \in Recursive \/ k = Covering(table, <<>>)
                   THEN Make(table[k], Propagation[RootPropagation]) ELSE table[k]]
    /\ Goto("private") /\ UNCHANGED <<todo, step, along, nodes, leaked>>

\* rootfsParentMountPrivate goes up from the rootfs to the first mount point.
ParentLeftAlone ==
    pc = "private" /\ Goto("rbind") /\ UNCHANGED <<todo, step, table, along, nodes, leaked>>
RootfsParentMountPrivate ==
    /\ pc = "private"
    /\ table' = [table EXCEPT ![Covering(table, MonRootfs)] = Make(@, "private")]
    /\ Goto("rbind") /\ UNCHANGED <<todo, step, along, nodes, leaked>>

PrepareRootBind ==
    /\ pc = "rbind"
    /\ Bind(MonRootfs, MonRootfs, TRUE)
    /\ todo' = MountsForMonitor \o RootfsMounts(cfg.volumes)
    /\ Goto("mounts") /\ UNCHANGED <<step, nodes>>

-----------------------------------------------------------------------------
(* applyMount, for the first mount of todo, in each of the phases.         *)

Phases == {"mounts", "devices", "vsock", "vdevices"}
Target(m) == MonRootfs \o m.dest
Top == Len(table)

\* The mount itself.  A file system gets its flags from this first mount(2), a
\* bind mount does not.
ApplyMount ==
    /\ pc \in Phases /\ todo # <<>> /\ step = "mount"
    /\ LET m == Head(todo)
       IN  IF IsBindMount(m)
           THEN On(m.src).bindable /\ Bind(m.src, Target(m), IsRecursiveBind(m))
           ELSE Attach(Mount(Target(m), <<m.type>>, "none",
                             Remounted(Mount(<<>>, <<>>, "none", {"relatime"}), SplitVFSFlags(m.opts))),
                       {})
    /\ step' = "remount"
    /\ Goto(pc) /\ UNCHANGED <<todo, nodes>>

BindRefused ==
    /\ pc \in Phases /\ todo # <<>> /\ step = "mount"
    /\ IsBindMount(Head(todo)) /\ ~On(Head(todo).src).bindable
    /\ Fail

\* getUnprivilegedMountFlags: what statfs says of the source.
NoLockedFlags(p) == {}
UnprivilegedMountFlags(p) == On(p).flags

AskedFlags(m) ==
    SplitVFSFlags(m.opts) \cup (IF cfg.userns THEN UnprivilegedMountFlags(m.src) ELSE {})

\* A bind mount is remounted for its VFS flags, if it has any.
NeedsRemount(m) == IsBindMount(m) /\ SplitVFSFlags(m.opts) # {}
RemountBind ==
    /\ pc \in Phases /\ todo # <<>> /\ step = "remount"
    /\ LET m == Head(todo) IN
       /\ NeedsRemount(m) => MayRemount(table[Top], AskedFlags(m))
       /\ table' = IF NeedsRemount(m)
                   THEN [table EXCEPT ![Top].flags = Remounted(table[Top], AskedFlags(m))]
                   ELSE table
    /\ step' = "spread"
    /\ Goto(pc) /\ UNCHANGED <<todo, along, nodes, leaked>>

RemountRefused ==
    /\ pc \in Phases /\ todo # <<>> /\ step = "remount"
    /\ NeedsRemount(Head(todo)) /\ ~MayRemount(table[Top], AskedFlags(Head(todo)))
    /\ Fail

\* The propagation flags, in the order of the options: only a recursive one is
\* also for the mounts that came along.
SpreadTopOnly ==
    /\ table' = [table EXCEPT ![Top] = Spread(@, Head(todo).opts, DOMAIN Propagation)]
    /\ UNCHANGED along
SpreadTree ==
    /\ table' = [table EXCEPT ![Top] = Spread(@, Head(todo).opts, DOMAIN Propagation)]
    /\ along' = {IF a.with = Top
                 THEN [a EXCEPT !.mount = Spread(@, Head(todo).opts, Recursive)] ELSE a : a \in along}
SetPropagation ==
    /\ pc \in Phases /\ todo # <<>> /\ step = "spread"
    /\ SpreadTree
    /\ todo' = Tail(todo) /\ step' = "mount"
    /\ Goto(pc) /\ UNCHANGED <<nodes, leaked>>

-----------------------------------------------------------------------------
\* setupDevices: mknod, or in a user namespace a bind mount of the host's node.
SetupDevices(paths) ==
    /\ IF cfg.userns
       THEN /\ todo' = [i \in DOMAIN paths |-> BindMount(paths[i], paths[i], FALSE, FALSE, <<>>)]
            /\ UNCHANGED nodes
       ELSE /\ nodes' = nodes \cup
                 {[path |-> paths[i], on |-> Covering(table, MonRootfs \o paths[i])] : i \in DOMAIN paths}
            /\ UNCHANGED todo
    /\ UNCHANGED <<step, table, along, leaked>>

\* The devices come after all of the mounts, /dev being one of them.
DevicesFirst ==
    /\ pc = "mounts" /\ Len(todo) = Len(RootfsMounts(cfg.volumes)) + 3 /\ ~cfg.userns
    /\ nodes' = {[path |-> p, on |-> Covering(table, MonRootfs \o p)] : p \in ToSet(DevicePaths(cfg.tap))}
    /\ todo' = todo /\ Goto("devices") /\ UNCHANGED <<step, table, along, leaked>>
MonitorDevices ==
    /\ pc = "mounts" /\ todo = <<>>
    /\ SetupDevices(DevicePaths(cfg.tap))
    /\ Goto("devices")

\* setupConsole, and the vAccel socket for firecracker: a bind mount as well.
Console == <<"dev", "console">>
PrepareVSockEnvironment ==
    /\ pc = "devices" /\ todo = <<>>
    /\ todo' = IF cfg.vaccel
               THEN <<BindMount(<<"vaccel">>, vAccelMountPath, TRUE, TRUE, <<>>)>>
               ELSE <<>>
    /\ nodes' = nodes \cup {[path |-> Console, on |-> Covering(table, MonRootfs \o Console)]}
    /\ Goto("vsock") /\ UNCHANGED <<step, table, along, leaked>>

VAccelDevices ==
    /\ pc = "vsock" /\ todo = <<>>
    /\ SetupDevices(IF cfg.vaccel THEN VSockDevices ELSE <<>>)
    /\ Goto("vdevices")

-----------------------------------------------------------------------------
(* changeRoot: pivot_root if there is a mount namespace, chroot if not.    *)

IsBelow(p) == IsPrefix(MonRootfs, p)
\* The mount that a mount was made on.
Before(t, k) == [j \in {i \in DOMAIN t : i < k} |-> t[j]]
ParentOf(t, k) == t[Covering(Before(t, k), t[k].at)]

\* What pivot_root(2) asks of the new root, its parent and put_old.
PivotPermitted ==
    LET k == Covering(table, MonRootfs)
    IN  /\ table[k].at = MonRootfs
        /\ table[k].group = "none" /\ ParentOf(table, k).group = "none"

PivotRoot ==
    /\ pc = "vdevices" /\ todo = <<>> /\ cfg.mntns
    /\ PivotPermitted
    /\ table' = [k \in {j \in DOMAIN table : IsBelow(table[j].at)} |-> table[k]]
    /\ old' = [k \in {j \in DOMAIN table : ~IsBelow(table[j].at)} |-> table[k]]
    /\ pc' = "oldslave"
    /\ UNCHANGED <<cfg, todo, step, along, nodes, leaked, lost>>

\* Before it goes, the old root is made a slave.
OldRootSkipped == pc = "oldslave" /\ pc' = "unmount" /\ UNCHANGED <<cfg, todo, step, table, along, old, nodes, leaked, lost>>
OldRootSlave ==
    /\ pc = "oldslave"
    /\ old' = [k \in DOMAIN old |-> Make(old[k], "slave")]
    /\ pc' = "unmount"
    /\ UNCHANGED <<cfg, todo, step, table, along, nodes, leaked, lost>>

\* unmount(MNT_DETACH): with every mount below it, and on the peers of each
\* mount's parent.
UnmountOldRoot ==
    /\ pc = "unmount"
    /\ lost' = {old[k].at : k \in {j \in DOMAIN old : /\ old[j].at # <<>>
                                                     /\ IsHosts(ParentOf(old, j).group)}}
    /\ old' = <<>>
    /\ pc' = "ready"
    /\ UNCHANGED <<cfg, todo, step, table, along, nodes, leaked>>

Chroot ==
    /\ pc = "vdevices" /\ todo = <<>> /\ ~cfg.mntns
    /\ Goto("ready") /\ UNCHANGED <<todo, step, table, along, nodes, leaked>>

\* Any of the calls fails: a source is gone, a mount point cannot be created.
StepFails == pc \notin {"ready", "failed"} /\ Fail

Next ==
    \/ PrepareRoot \/ RootfsParentMountPrivate \/ PrepareRootBind
    \/ ApplyMount \/ BindRefused \/ RemountBind \/ RemountRefused \/ SetPropagation
    \/ MonitorDevices \/ PrepareVSockEnvironment \/ VAccelDevices
    \/ PivotRoot \/ OldRootSlave \/ UnmountOldRoot \/ Chroot
    \/ StepFails

Spec == Init /\ [][Next]_vars

-----------------------------------------------------------------------------
(* Properties.                                                             *)

\* Type invariant: the table has mounts, each with VFS flags of which one is
\* about atime, and the device nodes, and the mounts that came along with
\* another, are on or with mounts of it.
TypeOK ==
    /\ pc \in Phases \cup {"propagate", "private", "rbind", "oldslave", "unmount", "ready", "failed"}
    /\ step \in {"mount", "remount", "spread"}
    /\ \A k \in DOMAIN table : table[k] \in Mounted
    /\ \A a \in along : a.with \in DOMAIN table /\ a.mount \in Mounted
    /\ \A n \in nodes : n.on \in DOMAIN table

\* The mounts follow the one of the new root in the order of the list.
Volume(i) == RootfsMounts(cfg.volumes)[i + 2]
MadeFor(i) == Covering(table, MonRootfs) + Len(MountsForMonitor) + 2 + i

\* No option of opts that reaches a mount makes it private, a slave or unbindable.
LeftShared(opts, reach) == \A o \in ToSet(opts) : o \in reach => Propagation[o] = "shared"

\* The namespace's mounts do not reach the host, whatever propagation the OCI
\* configuration asks for: nothing that urunc mounts shows up there and none of
\* its mounts is taken away.  The exception, without a rootfsPropagation that
\* makes every mount private or a slave, is a volume on or below a mount that
\* another volume has left a peer of the host's: its own mount, if none of its
\* options changes that, or one that its rbind brought along, if none of its
\* recursive options does (a plain "private" does not).
HostUntouched ==
    cfg.mntns =>
        /\ lost = {}
        /\ \A p \in leaked :
             /\ RootPropagation \notin {"rslave", "rprivate", "runbindable"}
             /\ \E i \in DOMAIN cfg.volumes :
                  \/ /\ \/ IsStrictPrefix(Target(Volume(i)), p)
                        \/ /\ Target(Volume(i)) = p
                           /\ \E j \in DOMAIN cfg.volumes \ {i} : Target(Volume(j)) = p
                     /\ LeftShared(cfg.volumes[i].opts, DOMAIN Propagation)
                  \/ /\ \E a \in along : a.with = MadeFor(i) /\ IsPrefix(a.mount.at, p)
                     /\ LeftShared(cfg.volumes[i].opts, Recursive)

\* pivot_root is never refused: the new root is a mount point, and neither it
\* nor its parent is shared, whatever rootfsPropagation says.
PivotAllowed == pc = "vdevices" /\ todo = <<>> /\ cfg.mntns => PivotPermitted

\* On the bind mount of a volume, the last option about a flag decides: one that
\* sets it has set it, one that clears it has cleared it, unless the flag is
\* locked.  A mount that no option sets a flag of keeps its source's.
LastWord(opts, f) ==
    LET about == {i \in DOMAIN opts : opts[i] = f \/ (opts[i] \in DOMAIN Clears /\ Clears[opts[i]] = f)}
    IN  IF about = {} THEN "none" ELSE opts[CHOOSE i \in about : \A j \in about : j <= i]
OptionsHold ==
    pc \in Phases =>
        \A i \in DOMAIN cfg.volumes :
            LET k == MadeFor(i)
                m == Volume(i)
                asked == {f \in VFSFlags : LastWord(m.opts, f) = f}
                set == asked \ AtimeFlags
                source == On(m.src).flags
            IN  k \in DOMAIN table /\ (step = "remount" => k # Top)
                => /\ table[k].at = Target(m) /\ table[k].what = m.src
                   /\ set \subseteq table[k].flags
                   /\ ~IsBelow(m.src) =>
                        IF asked = {} THEN table[k].flags = source
                        ELSE table[k].flags \ AtimeFlags \subseteq
                                 set \cup (IF cfg.userns THEN source ELSE {})

\* In a user namespace no remount is refused for a flag that the source has
\* locked, as long as the options do not ask for another atime and the mount has
\* not hidden its own source, of which getUnprivilegedMountFlags then asks.
RootlessRemounts ==
    pc \in Phases /\ todo # <<>> /\ step = "remount" /\ NeedsRemount(Head(todo))
        /\ SplitVFSFlags(Head(todo).opts) \cap AtimeFlags = {}
        /\ ~IsPrefix(Target(Head(todo)), Head(todo).src)
    => MayRemount(table[Top], AskedFlags(Head(todo)))

\* The device nodes and the console are where the monitor looks for them: no
\* mount that is made later is over one of them, and the change of the root
\* does not take them away.
NodesVisible ==
    \A n \in nodes :
        /\ Covering(table, MonRootfs \o n.path) = n.on
        /\ \A a \in along : ~IsPrefix(a.mount.at, MonRootfs \o n.path)

=============================================================================
