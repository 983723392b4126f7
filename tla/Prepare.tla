------------------------------- MODULE Prepare -------------------------------
(***************************************************************************)
(* From the engine's call of the shim to a monitor that can be executed:   *)
(* the annotations the shim adds to config.json, the configuration and the *)
(* guest's rootfs that create settles on (module GuestRootfs), the boot    *)
(* files it takes out of the snapshot, and the records that every later    *)
(* command works from.  The snapshot outlives the container's bundle: a    *)
(* container that is created again finds it as the last create left it.    *)
(***************************************************************************)
EXTENDS GuestRootfs

CONSTANTS
    Containers,     \* images, with the annotations and the files a user adds
    Hosts,          \* what create may find on the host
    ConfigFiles,    \* the contents config.toml may have
    MaxCreates,     \* bound: how often the container is created
    MaxEdits        \* bound: how often config.toml is edited

ASSUME BoundAssumption == MaxCreates \in Nat /\ MaxEdits \in Nat

\* Images: the shim reads only annotations with urunc's prefix, a urunc.json
\* that decodes is a file of the image, and every file has a name.
ASSUME ImageAssumption ==
    \A c \in Containers :
        /\ "container-name" \notin DOMAIN c.manifest \cup DOMAIN c.labels
        /\ c.json = [decodes |-> c.json.decodes, values |-> c.json.values]
        /\ c.json.decodes \in BOOLEAN
        /\ c.json.decodes => "urunc.json" \in c.files
        /\ "" \notin c.files \cup c.mounts

VARIABLES
    cntr,           \* the container: labels, manifest, urunc.json, files, spec, mounted files
    host,           \* what create finds on the host
    toml, edits,    \* config.toml, and how often it was edited
    annot,          \* the annotations in the bundle's config.json
    injected,       \* what the shim has added to them (history)
    snap, mounted,  \* the files in the snapshot; it is mounted at the rootfs
    monfs,          \* the files in the bundle's monitor rootfs
    had,            \* what was in the snapshot when create began (history)
    pc,             \* where create is
    conf, cfg,      \* u.State.Annotations and u.UruncCfg in create's memory
    chosen,         \* rootfsParams
    moving,         \* the boot files still to move
    monitor,        \* monitor.json
    mspec,          \* .monitor_spec.json, in the monitor rootfs
    args,           \* what the monitor is executed with
    state,          \* the annotations in state.json
    creates         \* how many creates there have been

vars == <<cntr, host, toml, edits, annot, injected, snap, mounted, monfs, had, pc,
          conf, cfg, chosen, moving, monitor, mspec, args, state, creates>>

\* What belongs to the container and stays; the bundle; create's memory; the
\* records in the base directory.
given == <<cntr, host, toml, edits, creates, had>>
bundle == <<annot, injected, snap, mounted, monfs>>
memory == <<conf, cfg, chosen, moving>>
records == <<monitor, mspec, args, state>>

None == <<>>

-----------------------------------------------------------------------------
(* urunc's own configuration.                                              *)

DefaultConfig == [libcontainer |-> "false", vAccel |-> "false", memory |-> "256", virtiofsd |-> "default"]

\* LoadUruncConfig: a file that cannot be read is no configuration, a zero
\* value in it is the default.
LoadUruncConfig(file) ==
    IF ~file.parses THEN DefaultConfig
    ELSE [k \in DOMAIN DefaultConfig |->
            IF file.values[k] \in {"0", ""} THEN DefaultConfig[k] ELSE file.values[k]]

\* UruncConfig.Map and UruncConfigFromMap, its keys in state.json.
CfgKey == [libcontainer |-> "urunc_config.runtime.libcontainer",
           vAccel |-> "urunc_config.runtime.vAccel",
           memory |-> "urunc_config.monitors.default_memory_mb",
           virtiofsd |-> "urunc_config.extra_binaries.virtiofsd.path"]
CfgKeys == {CfgKey[f] : f \in DOMAIN CfgKey}
UruncConfigMap(c) == [k \in CfgKeys |-> c[CHOOSE f \in DOMAIN CfgKey : CfgKey[f] = k]]
UruncConfigFromMap(m) ==
    [f \in DOMAIN CfgKey |->
        IF CfgKey[f] \in DOMAIN m /\ (f = "memory" => m[CfgKey[f]] # "0")
        THEN m[CfgKey[f]] ELSE DefaultConfig[f]]

-----------------------------------------------------------------------------
Init ==
    /\ cntr \in Containers
    /\ host \in Hosts
    /\ toml \in ConfigFiles /\ edits = 0
    /\ annot = cntr.spec /\ injected = "none"
    /\ snap = cntr.files /\ mounted = TRUE /\ monfs = {}
    /\ had = cntr.files
    /\ pc = "shim"
    /\ conf = <<>> /\ cfg = DefaultConfig /\ chosen = None /\ moving = <<>>
    /\ monitor = None /\ mspec = None /\ args = None /\ state = None
    /\ creates = 1

Goto(p) == pc' = p /\ UNCHANGED given

\* The administrator edits config.toml, at any time.
EditConfig ==
    /\ edits < MaxEdits
    /\ toml' \in ConfigFiles \ {toml} /\ edits' = edits + 1
    /\ UNCHANGED <<cntr, host, creates, had, pc, bundle, memory, records>>

-----------------------------------------------------------------------------
(* The shim's Create.                                                      *)

\* fetchUruncAnnotations: the manifest's override the labels.  An image that is
\* not found, or is no single manifest, leaves the labels, without an error.
Fetched(what) == IF what = "all" THEN Prefer(cntr.manifest, cntr.labels) ELSE cntr.labels

\* patchConfigJSON adds what the spec does not have.
PatchedOver(spec, more) == Prefer(more, spec)
Patched(spec, more) == Prefer(spec, more)

InjectUruncAnnotations ==
    /\ pc = "shim"
    /\ \E what \in {"all", "labels"} :
         annot' = Patched(annot, Fetched(what)) /\ injected' = what
    /\ Goto("load") /\ UNCHANGED <<snap, mounted, monfs, memory, records>>

\* No session, no manifest, no config.json: a warning, and on goes the create.
InjectFails ==
    /\ pc = "shim"
    /\ Goto("load") /\ UNCHANGED <<bundle, memory, records>>

-----------------------------------------------------------------------------
(* create: New and InitialSetup.                                           *)

LoadConfig ==
    /\ pc = "load"
    /\ cfg' = LoadUruncConfig(toml)
    /\ Goto("new") /\ UNCHANGED <<bundle, conf, chosen, moving, records>>

\* urunc.json as New finds it in the mounted snapshot.
JSONFile == [cntr.json EXCEPT !.decodes = @ /\ "urunc.json" \in snap]
IsQueueProxy == Value(annot, "container-name") = "queue-proxy"
\* New with a container that is not urunc's: create execs runc.
NewHandsOver ==
    /\ pc = "new"
    /\ IsQueueProxy \/ GetUnikernelConfig(annot, JSONFile) = {}
    /\ Goto("runc") /\ UNCHANGED <<bundle, memory, records>>

VAccelEnabled(c) == c.vAccel # "" => cfg.vAccel = "true"

New ==
    /\ pc = "new" /\ ~IsQueueProxy
    /\ \E c \in GetUnikernelConfig(annot, JSONFile) :
         IF ValidateValues(c) /\ VAccelEnabled(c)
         THEN conf' = Prefer(UruncConfigMap(cfg), ConfigMap(c)) /\ Goto("choose")
         ELSE conf' = conf /\ Goto("failed")
    /\ UNCHANGED <<bundle, cfg, chosen, moving, records>>

\* The unikernel's part of u.State.Annotations.
Conf == GetConfigFromSpec(conf)

\* The rootfs is chosen by what the host has.  A mount table that cannot be
\* read at that moment is logged, and the snapshot is no block device then.
Looks == {[host EXCEPT !.fs = f] : f \in {cntr.fs, ""}}

Choose ==
    /\ pc = "choose"
    /\ \E h \in Looks :
         IF ChooseRootfs(Conf, h) = {}
         THEN Goto("failed") /\ UNCHANGED <<chosen, moving>>
         ELSE \E p \in ChooseRootfs(Conf, h) :
                /\ chosen' = <<p>>
                /\ moving' = IF IsDetached(p) THEN BootFiles(Conf) ELSE <<>>
                /\ Goto(IF IsDetached(p) THEN "mountfiles" ELSE "gather")
    /\ UNCHANGED <<bundle, conf, cfg, records>>

\* preSetup of a block rootfs: the files among the container's mounts are
\* copied into the snapshot, where they stay.
CopyMountFiles ==
    /\ pc = "mountfiles"
    /\ snap' = snap \cup cntr.mounts
    /\ Goto("copy")
    /\ UNCHANGED <<annot, injected, mounted, monfs, memory, records>>

\* extractBootFiles.  moveFile is a copy, then a removal.
CopyBootFile ==
    /\ pc = "copy" /\ moving # <<>>
    /\ IF Head(moving) \in snap
       THEN monfs' = monfs \cup {Head(moving)} /\ Goto("remove")
       ELSE monfs' = monfs /\ Goto("failed")
    /\ UNCHANGED <<annot, injected, snap, mounted, memory, records>>

RemoveBootFile ==
    /\ pc = "remove"
    /\ snap' = snap \ {Head(moving)}
    /\ moving' = Tail(moving)
    /\ Goto("copy")
    /\ UNCHANGED <<annot, injected, mounted, monfs, conf, cfg, chosen, records>>

UnmountRootfsEarly ==
    /\ pc = "copy"
    /\ mounted' = FALSE
    /\ Goto("gather")
    /\ UNCHANGED <<annot, injected, snap, monfs, memory, records>>
UnmountRootfs ==
    /\ pc = "copy" /\ moving = <<>>
    /\ mounted' = FALSE
    /\ Goto("gather")
    /\ UNCHANGED <<annot, injected, snap, monfs, memory, records>>

\* getMonitorResources and monitor.json.
SaveMonitorResources ==
    /\ pc = "gather"
    /\ IF ExplicitBlockRefused(chosen[1], Conf)
       THEN Goto("failed") /\ UNCHANGED monitor
       ELSE /\ monitor' = <<GetMonitorResources(chosen[1], Conf, host, cfg.memory)>>
            /\ Goto("spec")
    /\ UNCHANGED <<bundle, memory, mspec, args, state>>

\* buildMonitorSpec, from the configuration and monitor.json.  Only hyperlight
\* sizes a guest by itself.
BuildMonitorSpec(c, g, m) ==
    [kernel |-> c.binary, initrd |-> c.initrd, snapshot |-> c.snapshot,
     blocks |-> m.blocks, prestart |-> m.prestart, vAccel |-> c.vAccel, ports |-> c.ports,
     memory |-> IF c.hypervisor = "hyperlight-unikraft" THEN "0" ELSE g.memory]

\* In libcontainer mode the spec is built now, since the monitor's process
\* will not reach the base directory.
WriteMonitorSpec ==
    /\ pc = "spec"
    /\ mspec' = IF cfg.libcontainer = "true" THEN <<BuildMonitorSpec(Conf, cfg, monitor[1])>> ELSE None
    /\ Goto("save")
    /\ UNCHANGED <<bundle, memory, monitor, args, state>>

\* saveContainerState: the spec's other annotations come along, but only where
\* state.json has no such key.
Foreign(a) == [k \in DOMAIN a \ Keys |-> a[k]]
StateAnnotationsOver(c, a) == Prefer(Foreign(a), c)
StateAnnotations(c, a) == Prefer(c, Foreign(a))

SaveContainerState ==
    /\ pc = "save"
    /\ state' = <<StateAnnotations(conf, annot)>>
    /\ Goto("created")
    /\ UNCHANGED <<bundle, memory, monitor, mspec, args>>

\* A step of create fails, or the process is killed.
CreateFails ==
    /\ pc \notin {"created", "running", "failed", "runc"}
    /\ Goto("failed") /\ UNCHANGED <<bundle, memory, records>>

-----------------------------------------------------------------------------
(* Everything later works from the two records.                            *)

\* Get.
GetConf == GetConfigFromSpec(state[1])
GetCfg == UruncConfigFromMap(state[1])

\* Exec, or the monitor's own process in libcontainer mode.
Exec ==
    /\ pc = "created"
    /\ args' = IF GetCfg.libcontainer = "true" THEN mspec
               ELSE <<BuildMonitorSpec(GetConf, GetCfg, monitor[1])>>
    /\ Goto("running") /\ UNCHANGED <<bundle, memory, monitor, mspec, state>>

\* confineToContainerRootfs: what the monitor finds at containerRootfsMountPath.
ContainerRootfs(m) ==
    IF m.cntrMount = {} THEN monfs ELSE IF mounted THEN snap ELSE {}

\* delete, or the engine's removal of what a failed create has left; then the
\* container is created anew, on the snapshot as it is.
CreateAgain ==
    /\ pc \in {"running", "created", "failed", "runc"} /\ creates < MaxCreates
    /\ creates' = creates + 1
    /\ annot' = cntr.spec /\ injected' = "none"
    /\ mounted' = TRUE /\ monfs' = {} /\ had' = snap
    /\ conf' = <<>> /\ cfg' = DefaultConfig /\ chosen' = None /\ moving' = <<>>
    /\ monitor' = None /\ mspec' = None /\ args' = None /\ state' = None
    /\ pc' = "shim"
    /\ UNCHANGED <<cntr, host, toml, edits, snap>>

Next ==
    \/ EditConfig
    \/ InjectUruncAnnotations \/ InjectFails
    \/ LoadConfig \/ NewHandsOver \/ New \/ Choose
    \/ CopyMountFiles \/ CopyBootFile \/ RemoveBootFile \/ UnmountRootfs
    \/ SaveMonitorResources \/ WriteMonitorSpec \/ SaveContainerState \/ CreateFails
    \/ Exec \/ CreateAgain

Spec == Init /\ [][Next]_vars

-----------------------------------------------------------------------------
(* Properties.                                                             *)

Chosen == pc \in {"mountfiles", "copy", "remove", "gather", "spec", "save", "created", "running"}

\* Type invariant.
TypeOK ==
    /\ pc \in {"shim", "load", "new", "choose", "mountfiles", "copy", "remove", "gather",
               "spec", "save",
               "created", "running", "failed", "runc"}
    /\ snap \cup monfs \subseteq cntr.files \cup cntr.mounts
    /\ Len(chosen) <= 1 /\ Len(state) <= 1 /\ Len(monitor) <= 1
    /\ Chosen => <<Conf.hypervisor, Conf.type>> \in SupportedGuestMonitorPairs

\* The configuration is the one the annotations ask for, key by key: the
\* spec's own word first, then the manifest's, then the label's; and when those
\* do not make a unikernel, urunc.json's, all of it but what only a deployment
\* can say.  However often the container has been created before, and also if
\* this time the shim failed.
Sources ==
    IF injected = "all" THEN <<cntr.spec, cntr.manifest, cntr.labels>>
    ELSE IF injected = "labels" THEN <<cntr.spec, cntr.labels>> ELSE <<cntr.spec>>
Asked(k) ==
    LET with == {i \in DOMAIN Sources : k \in DOMAIN Sources[i]}
    IN  IF with = {} THEN "" ELSE Sources[CHOOSE i \in with : \A j \in with : i <= j][k]
AsAsked ==
    Chosen =>
        LET asked == [k \in Keys |-> Asked(k)]
        IN  IF Validate(asked) THEN Conf = asked
            ELSE /\ "urunc.json" \in had
                 /\ \A k \in Keys : Conf[k] =
                      IF k \in {"vAccel", "RPCAddress"} \/ (k = "ports" /\ asked[k] # "")
                      THEN asked[k] ELSE Value(cntr.json.values, k)

\* Whatever becomes of config.toml and whatever the spec's annotations say,
\* every later command works with the configuration of its create, and the
\* monitor is executed as create has planned it: in the same mode, with the
\* memory that /tmp was sized for when virtiofsd shares it.
LaterAgrees ==
    /\ pc \in {"created", "running"} => GetConf = Conf /\ GetCfg = cfg
    /\ pc = "running" =>
         /\ args = <<BuildMonitorSpec(Conf, cfg, monitor[1])>>
         /\ monitor[1].rootfs.type = "virtiofs" => monitor[1].tmpfs = args[1].memory

\* Up to the execve everything that the monitor is told to open is where it
\* will look for it: the boot files and block images at the container's
\* rootfs, if they were in the snapshot when this create began, and a device
\* node for every block device of the host.  And a guest that gets the snapshot
\* as a block device finds the mounted files in it, but for one that is in the
\* place of a boot file: that one is the monitor's.
SourcesReachable ==
    pc = "running" =>
        /\ ({args[1].kernel, args[1].initrd, args[1].snapshot} \cap had)
             \subseteq ContainerRootfs(monitor[1])
        /\ \A b \in args[1].blocks :
             IF b.explicit THEN b.source \in had => b.source \in ContainerRootfs(monitor[1])
             ELSE b.source \in monitor[1].devices
        /\ IsDetached(monitor[1].rootfs) =>
             cntr.mounts \subseteq snap \cup {Conf.binary, Conf.initrd, "urunc.json"}

\* A create that fails or is killed while it takes the boot files out of the
\* snapshot loses none of them: each is still in the snapshot or in the bundle;
\* and the snapshot is unmounted only when all of them are in the bundle.
BootFilesSurvive ==
    /\ had \subseteq snap \cup monfs
    /\ ~mounted => {Conf.binary, Conf.initrd, "urunc.json"} \ {""} \subseteq monfs

\* A unikernel is not run by runc: a container whose annotations are complete
\* is handed over only if the shim did not get at all of them, and one with a
\* urunc.json only if an earlier create has taken it out of the snapshot.
NotHandedOver ==
    pc = "runc" /\ Value(cntr.spec, "container-name") # "queue-proxy" =>
        /\ Validate(GetConfigFromSpec(Patched(cntr.spec, Fetched("all")))) => injected # "all"
        /\ cntr.json.decodes /\ Validate(GetConfigFromJSON(cntr.json, cntr.spec))
             => creates > 1 /\ "urunc.json" \notin had

=============================================================================
