-------------------------------- MODULE Volumes --------------------------------
(***************************************************************************)
(* The block volumes of several containers on one host.  urunc create      *)
(* takes a volume that is mounted on the host and hands its device to the  *)
(* guest: it clears the autoclear flag of a loop device, unmounts the      *)
(* volume and records both in monitor.json.  urunc delete mounts the       *)
(* recorded volumes again.  The host's mount table and the flags of the    *)
(* loop devices are all that two containers share.                         *)
(***************************************************************************)
EXTENDS Naturals, Sequences

CONSTANTS
    Containers,
    Volumes,     \* block devices, each with one mountpoint on the host
    Loops,       \* those that are loop devices, mounted with autoclear
    Mounts,      \* the volumes a container's bind mounts refer to, in order
    Faults,      \* which steps may fail: "create", "restore", "remove"
    Overlap      \* what may overlap a create on a common volume: "create", "delete"

Failures == {"create", "restore", "remove"}

ASSUME VolumesAssumption ==
    /\ Loops \subseteq Volumes
    /\ Mounts \in [Containers -> Seq(Volumes)]
    /\ Faults \subseteq Failures
    /\ Overlap \subseteq {"create", "delete"}

VARIABLES
    mounted,    \* the volume is mounted at its mountpoint on the host
    autoclear,  \* LO_FLAGS_AUTOCLEAR of a loop device
    dev,        \* the device exists: a loop device may detach from its file
    pc,         \* what the urunc command working on a container does next
    i,          \* position in the list of mounts or of recorded volumes
    cleared,    \* LoopAutoclear of the volume being taken
    args,       \* BlockArgs: in memory during create, in monitor.json after it
    failed      \* history: how a command on a volume has failed so far

vars == <<mounted, autoclear, dev, pc, i, cleared, args, failed>>

CreatePcs == {"look", "clear", "unmount", "save"}
DeletePcs == {"restore", "flag", "remove"}
Pcs       == {"idle", "created", "running", "stopped"} \cup CreatePcs \cup DeletePcs

Positions == Nat \ {0}
BlockArg  == [vol : Volumes, clear : BOOLEAN]

Named(c)     == {Mounts[c][k] : k \in DOMAIN Mounts[c]}
Shares(c, d) == Named(c) \cap Named(d) # {}

\* The volumes whose device a container has been given.
Recorded(c) == {args[c][k].vol : k \in DOMAIN args[c]}
Attached(c) == IF pc[c] \in CreatePcs \cup {"created", "running"} THEN Recorded(c) ELSE {}

\* A monitor has the device open.
InUse(v) == \E c \in Containers : pc[c] = "running" /\ v \in Recorded(c)

Goto(c, to) == pc' = [pc EXCEPT ![c] = to]
Advance(c)  == i' = [i EXCEPT ![c] = @ + 1]

\* Remember that a command on the volumes in S failed.
Fail(S, how) == failed' = [v \in Volumes |-> IF v \in S THEN failed[v] \cup {how} ELSE failed[v]]

-----------------------------------------------------------------------------
(* urunc create *)

\* create returns an error before the base directory names the volumes.
CreateFails(c) ==
    /\ Goto(c, "idle")
    /\ args' = [args EXCEPT ![c] = <<>>]
    /\ Fail(Named(c), "create")
    /\ UNCHANGED <<mounted, autoclear, dev, i, cleared>>

\* Mutant of BeginCreate: the list of mounts is read from position zero.
BeginCreateAtZero(c) ==
    /\ pc[c] = "idle"
    /\ Goto(c, "look")
    /\ i' = [i EXCEPT ![c] = 0]
    /\ UNCHANGED <<mounted, autoclear, dev, cleared, args, failed>>

\* A caller issues a create.
BeginCreate(c) ==
    /\ pc[c] = "idle"
    /\ \A d \in Containers \ {c} : Shares(c, d) =>
        /\ pc[d] \in CreatePcs => "create" \in Overlap
        /\ pc[d] \in DeletePcs => "delete" \in Overlap
    /\ Goto(c, "look")
    /\ i' = [i EXCEPT ![c] = 1]
    /\ UNCHANGED <<mounted, autoclear, dev, cleared, args, failed>>

\* getMountInfo: a source that is not a mountpoint of its own is skipped.
Look(c) ==
    /\ pc[c] = "look"
    /\ \/ i[c] > Len(Mounts[c]) /\ Goto(c, "save") /\ UNCHANGED i
       \/ i[c] <= Len(Mounts[c]) /\ mounted[Mounts[c][i[c]]] /\ Goto(c, "clear") /\ UNCHANGED i
       \/ i[c] <= Len(Mounts[c]) /\ ~mounted[Mounts[c][i[c]]] /\ Advance(c) /\ UNCHANGED pc
    /\ UNCHANGED <<mounted, autoclear, dev, cleared, args, failed>>

\* Mutant of ClearAutoclear: the loop device keeps its autoclear flag.
KeepAutoclear(c) ==
    /\ pc[c] = "clear"
    /\ Goto(c, "unmount")
    /\ UNCHANGED <<mounted, autoclear, dev, i, cleared, args, failed>>

\* Mutant of ClearAutoclear: the flag is cleared, but not remembered.
ForgetAutoclear(c) ==
    /\ pc[c] = "clear"
    /\ Goto(c, "unmount")
    /\ cleared' = [cleared EXCEPT ![c] = FALSE]
    /\ autoclear' = [autoclear EXCEPT ![Mounts[c][i[c]]] = FALSE]
    /\ UNCHANGED <<mounted, dev, i, args, failed>>

\* setLoopAutoclear(source, false), so that the device outlives the unmount; it
\* fails on a loop device that has detached.
ClearAutoclear(c) ==
    /\ pc[c] = "clear"
    /\ LET v == Mounts[c][i[c]]
       IN  \/ /\ dev[v]
              /\ Goto(c, "unmount")
              /\ cleared' = [cleared EXCEPT ![c] = autoclear[v]]
              /\ autoclear' = [autoclear EXCEPT ![v] = FALSE]
              /\ UNCHANGED <<mounted, dev, i, args, failed>>
           \/ (~dev[v] \/ "create" \in Faults) /\ CreateFails(c)

\* Mutant of Unmount: a volume that somebody else unmounted is taken as well.
UnmountAnyway(c) ==
    /\ pc[c] = "unmount"
    /\ LET v == Mounts[c][i[c]]
       IN  /\ mounted' = [mounted EXCEPT ![v] = FALSE]
           /\ args' = [args EXCEPT ![c] = Append(@, [vol |-> v, clear |-> cleared[c]])]
    /\ Goto(c, "look") /\ Advance(c)
    /\ UNCHANGED <<autoclear, dev, cleared, failed>>

\* unmount the volume and add it to the list: EINVAL when it is not mounted any
\* more, EBUSY when somebody keeps it busy.
Unmount(c) ==
    /\ pc[c] = "unmount"
    /\ LET v == Mounts[c][i[c]]
       IN  \/ /\ mounted[v]
              /\ mounted' = [mounted EXCEPT ![v] = FALSE]
              /\ dev' = [dev EXCEPT ![v] = @ /\ ~autoclear[v]]
              /\ args' = [args EXCEPT ![c] = Append(@, [vol |-> v, clear |-> cleared[c]])]
              /\ Goto(c, "look") /\ Advance(c)
              /\ UNCHANGED <<autoclear, cleared, failed>>
           \/ ~mounted[v] /\ CreateFails(c)
           \/ "create" \in Faults /\ CreateFails(c)

\* The rest of InitialSetup: the base directory, monitor.json and state.json.
Save(c) ==
    /\ pc[c] = "save"
    /\ \/ Goto(c, "created") /\ UNCHANGED <<mounted, autoclear, dev, i, cleared, args, failed>>
       \/ "create" \in Faults /\ CreateFails(c)

-----------------------------------------------------------------------------
(* The monitor *)

\* The monitor opens its devices.
Start(c) ==
    /\ pc[c] = "created"
    /\ \A v \in Recorded(c) : dev[v]
    /\ Goto(c, "running")
    /\ UNCHANGED <<mounted, autoclear, dev, i, cleared, args, failed>>

\* The monitor ends, if it ever ran; a device detaches when nothing keeps it.
Stop(c) ==
    /\ pc[c] \in {"created", "running"}
    /\ Goto(c, "stopped")
    /\ dev' = [v \in Volumes |->
                dev[v] /\ ~(pc[c] = "running" /\ v \in Recorded(c) /\ autoclear[v] /\ ~mounted[v])]
    /\ UNCHANGED <<mounted, autoclear, i, cleared, args, failed>>

-----------------------------------------------------------------------------
(* urunc delete *)

\* Load monitor.json; when that fails no volume is restored.
BeginDelete(c) ==
    /\ pc[c] = "stopped"
    /\ \A d \in Containers \ {c} :
        Shares(c, d) /\ pc[d] \in CreatePcs => "delete" \in Overlap
    /\ \/ Goto(c, "restore") /\ UNCHANGED failed
       \/ "restore" \in Faults /\ Goto(c, "remove") /\ Fail(Recorded(c), "restore")
    /\ i' = [i EXCEPT ![c] = 1]
    /\ UNCHANGED <<mounted, autoclear, dev, cleared, args>>

\* restoreBlockVolumes, one volume: nothing to do when something is mounted
\* there.  The first error ends the loop; Delete only logs it.
Restore(c) ==
    /\ pc[c] = "restore"
    /\ \/ i[c] > Len(args[c]) /\ Goto(c, "remove") /\ UNCHANGED <<mounted, i, failed>>
       \/ /\ i[c] <= Len(args[c])
          /\ LET b == args[c][i[c]]
             IN  \/ mounted[b.vol] /\ Advance(c) /\ UNCHANGED <<mounted, pc, failed>>
                 \/ /\ ~mounted[b.vol] /\ dev[b.vol]
                    /\ mounted' = [mounted EXCEPT ![b.vol] = TRUE]
                    /\ IF b.clear THEN Goto(c, "flag") /\ UNCHANGED i
                                  ELSE Advance(c) /\ UNCHANGED pc
                    /\ UNCHANGED failed
                 \/ /\ ~mounted[b.vol] /\ (~dev[b.vol] \/ "restore" \in Faults)
                    /\ Goto(c, "remove")
                    /\ Fail(Recorded(c), "restore")
                    /\ UNCHANGED <<mounted, i>>
    /\ UNCHANGED <<autoclear, dev, cleared, args>>

\* setLoopAutoclear(source, true), on a device opened for it: one that nothing
\* else keeps detaches when it is closed again.
SetAutoclear(c) ==
    /\ pc[c] = "flag"
    /\ LET v == args[c][i[c]].vol
       IN  \/ /\ dev[v]
              /\ autoclear' = [autoclear EXCEPT ![v] = TRUE]
              /\ dev' = [dev EXCEPT ![v] = @ /\ (mounted[v] \/ InUse(v))]
              /\ Goto(c, "restore") /\ Advance(c)
              /\ UNCHANGED failed
           \/ /\ ~dev[v] \/ "restore" \in Faults
              /\ Goto(c, "remove")
              /\ Fail(Recorded(c), "restore")
              /\ UNCHANGED <<autoclear, dev, i>>
    /\ UNCHANGED <<mounted, cleared, args>>

\* Remove the monitor's rootfs, whose failure fails the delete, then the base
\* directory.
Remove(c) ==
    /\ pc[c] = "remove"
    /\ \/ Goto(c, "idle") /\ args' = [args EXCEPT ![c] = <<>>] /\ UNCHANGED failed
       \/ /\ "remove" \in Faults
          /\ Goto(c, "stopped")
          /\ Fail(Recorded(c), "remove")
          /\ UNCHANGED args
    /\ UNCHANGED <<mounted, autoclear, dev, i, cleared>>

-----------------------------------------------------------------------------
Init ==
    /\ mounted   = [v \in Volumes |-> TRUE]
    /\ autoclear = [v \in Volumes |-> v \in Loops]
    /\ dev       = [v \in Volumes |-> TRUE]
    /\ pc        = [c \in Containers |-> "idle"]
    /\ i         = [c \in Containers |-> 1]
    /\ cleared   = [c \in Containers |-> FALSE]
    /\ args      = [c \in Containers |-> <<>>]
    /\ failed    = [v \in Volumes |-> {}]

Next == \E c \in Containers :
    \/ BeginCreate(c) \/ Look(c) \/ ClearAutoclear(c) \/ Unmount(c) \/ Save(c)
    \/ Start(c) \/ Stop(c)
    \/ BeginDelete(c) \/ Restore(c) \/ SetAutoclear(c) \/ Remove(c)

Spec == Init /\ [][Next]_vars

-----------------------------------------------------------------------------
(* Properties *)

\* Types of the variables of the model of getBlockVolumes, restoreBlockVolumes
\* and setLoopAutoclear.
TypeOK ==
    /\ mounted \in [Volumes -> BOOLEAN]
    /\ autoclear \in [Volumes -> BOOLEAN]
    /\ dev \in [Volumes -> BOOLEAN]
    /\ pc \in [Containers -> Pcs]
    /\ i \in [Containers -> Positions]
    /\ cleared \in [Containers -> BOOLEAN]
    /\ args \in [Containers -> Seq(BlockArg)]
    /\ failed \in [Volumes -> SUBSET Failures]

\* The filesystem of a volume that was given to a guest is mounted nowhere else:
\* neither on the host nor in a second guest.  Excused is a volume that a delete
\* has already mounted again when it failed.
ExclusiveUse ==
    \A c \in Containers : \A v \in Attached(c) : "remove" \notin failed[v] =>
        /\ ~mounted[v]
        /\ \A d \in Containers \ {c} : v \notin Attached(d)

\* "we remove the autoclear flag and therefore the device will persist"
\* (getBlockVolumes): a device that was given to a container does not detach
\* before the container is deleted.
HeldDeviceStays == \A c \in Containers : \A v \in Attached(c) : dev[v]

\* Every container whose mounts name the volume is deleted, or not created yet.
Unclaimed(v) == \A c \in Containers : pc[c] # "idle" => v \notin Named(c)

\* "Restore the block volume mounts that were unmounted during create, so their
\* sources become discoverable by future containers" (Delete): a volume that no
\* container uses is mounted, with its device and the autoclear flag it was found
\* with, after any number of creates and deletes of which none failed on it.
RestoredAsFound ==
    \A v \in Volumes : Unclaimed(v) /\ failed[v] = {} =>
        mounted[v] /\ dev[v] /\ (autoclear[v] <=> v \in Loops)
=============================================================================
