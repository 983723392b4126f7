---------------------------- MODULE VolumesProofs ----------------------------
(***************************************************************************)
(* Proofs about Volumes, for any number of containers and volumes and any  *)
(* lists of mounts, and however creates and deletes overlap.               *)
(***************************************************************************)
EXTENDS Volumes, TLAPS

\* The entries of a container's list that it took and has not given back, but
\* for volumes that a failed delete has mounted again.
Claims(c) ==
    IF pc[c] \in {"idle", "remove"} THEN {}
    ELSE {k \in DOMAIN args[c] : /\ pc[c] = "restore" => k >= i[c]
                                 /\ pc[c] = "flag" => k > i[c]
                                 /\ "remove" \notin failed[args[c][k].vol]}

\* A volume that is claimed is not mounted, and is claimed once.
ClaimedOnce ==
    \A c \in Containers : \A k \in Claims(c) :
        /\ ~mounted[args[c][k].vol]
        /\ \A d \in Containers : \A l \in Claims(d) :
            args[c][k].vol = args[d][l].vol => c = d /\ k = l

\* Outside a command there is no list.
IdleEmpty == \A c \in Containers : pc[c] = "idle" => args[c] = <<>>

\* The position stays inside the list that is walked.
InRange ==
    \A c \in Containers :
        /\ pc[c] \in {"clear", "unmount"} => i[c] \in DOMAIN Mounts[c]
        /\ pc[c] = "flag" => i[c] \in DOMAIN args[c]

ClaimInv == TypeOK /\ InRange /\ IdleEmpty /\ ClaimedOnce

-----------------------------------------------------------------------------
(* What keeps the devices and the flags, when no delete overlaps a create    *)

\* A container records volumes that its mounts name.
RecordedNamed == \A c \in Containers : Recorded(c) \subseteq Named(c)

\* No create and delete that share a volume overlap.
CreateOrDelete ==
    \A c, d \in Containers :
        c # d /\ pc[c] \in CreatePcs /\ pc[d] \in DeletePcs => ~Shares(c, d)

\* The volume that a create is about to unmount, or that a delete has mounted.
Unmounts(c, v) == pc[c] = "unmount" /\ Mounts[c][i[c]] = v
Flags(c, v)    == pc[c] = "flag" /\ args[c][i[c]].vol = v

\* The flag is off when a volume is about to be unmounted, and whenever it is
\* not mounted; it is switched on while the volume is mounted.
FlagFollowsMount ==
    /\ \A v \in Volumes : autoclear[v] => mounted[v]
    /\ \A c \in Containers : \A v \in Volumes :
        /\ Unmounts(c, v) => ~autoclear[v]
        /\ Flags(c, v) => mounted[v]

\* No device detaches.
DevicesStay == \A v \in Volumes : dev[v]

DeviceInv == ClaimInv /\ RecordedNamed /\ CreateOrDelete /\ FlagFollowsMount /\ DevicesStay

\* Only a loop device has the flag, is recorded with it and gets it back.
OnlyLoops ==
    /\ \A v \in Volumes : autoclear[v] => v \in Loops
    /\ \A c \in Containers :
        /\ pc[c] = "unmount" /\ cleared[c] => Mounts[c][i[c]] \in Loops
        /\ \A k \in DOMAIN args[c] : args[c][k].clear => args[c][k].vol \in Loops
        /\ pc[c] = "flag" => args[c][i[c]].clear

\* A claim that will bring the autoclear flag of a loop device back, but for a
\* second create that is going to fail, since the first has unmounted the volume.
Remembered(v) ==
    \E c \in Containers : \E k \in Claims(c) :
        /\ args[c][k].vol = v
        /\ v \in Loops => args[c][k].clear \/ \E d \in Containers \ {c} : Unmounts(d, v)

\* Somebody is answerable for whatever is not as it was found.
Answerable ==
    \A v \in Volumes : failed[v] = {} =>
        /\ mounted[v] \/ Remembered(v)
        /\ v \in Loops /\ mounted[v] /\ ~autoclear[v] =>
            \E c \in Containers : (Unmounts(c, v) /\ cleared[c]) \/ Flags(c, v)

RestoreInv == DeviceInv /\ OnlyLoops /\ Answerable

-----------------------------------------------------------------------------
\* A list names volumes.
LEMMA ListedVolumes ==
    ASSUME TypeOK, NEW c \in Containers, NEW k \in DOMAIN args[c]
    PROVE  args[c][k].vol \in Volumes
<1>1. args[c] \in Seq(BlockArg)
  BY DEF TypeOK
<1>2. args[c][k] \in BlockArg
  BY <1>1
<1> QED
  BY <1>2 DEF BlockArg

\* A failure is remembered for ever.
LEMMA FailedGrows ==
    ASSUME TypeOK, [Next]_vars
    PROVE  /\ failed' \in [Volumes -> SUBSET Failures]
           /\ \A v \in Volumes : failed[v] \subseteq failed'[v]
<1>1. failed' = failed \/ \E S : \E how \in Failures : Fail(S, how)
  BY DEF Next, vars, BeginCreate, Look, ClearAutoclear, Unmount, Save, Start, Stop, BeginDelete,
         Restore, SetAutoclear, Remove, CreateFails, Failures
<1> QED
  BY <1>1 DEF Fail, TypeOK

\* A step of one container that claims nothing new and mounts nothing that is
\* still claimed keeps the claims apart.
LEMMA FewerClaims ==
    ASSUME TypeOK, ClaimedOnce, NEW c \in Containers,
           \A v \in Volumes : failed[v] \subseteq failed'[v],
           \A d \in Containers : d # c => pc'[d] = pc[d] /\ i'[d] = i[d] /\ args'[d] = args[d],
           \A k \in Claims(c)' : k \in Claims(c) /\ args'[c][k] = args[c][k],
           \/ mounted' = mounted
           \/ \A d \in Containers : \A k \in Claims(d)' : ~mounted'[args'[d][k].vol]
    PROVE  ClaimedOnce'
<1>1. \A d \in Containers : \A k \in Claims(d)' : k \in Claims(d) /\ args'[d][k] = args[d][k]
  BY ListedVolumes DEF Claims
<1> QED
  BY <1>1 DEF ClaimedOnce

\* The variables of the model of getBlockVolumes and restoreBlockVolumes keep
\* their types, and positions stay inside their lists.
LEMMA TypeStep ==
    ASSUME TypeOK, InRange, [Next]_vars
    PROVE  TypeOK' /\ InRange'
<1>h. failed' \in [Volumes -> SUBSET Failures]
  BY FailedGrows
<1> USE VolumesAssumption, <1>h DEF TypeOK, Goto, Advance
<1>0. /\ 1 \in Positions /\ <<>> \in Seq(BlockArg)
      /\ \A c \in Containers : i[c] + 1 \in Positions
  BY DEF Positions
<1>1. CASE UNCHANGED vars
  BY <1>1 DEF vars, InRange
<1>2. ASSUME NEW c \in Containers, BeginCreate(c) PROVE TypeOK' /\ InRange'
  <2>1. TypeOK'
    BY <1>0, <1>2 DEF BeginCreate, Pcs, CreatePcs, DeletePcs
  <2>2. InRange'
    BY <1>2 DEF BeginCreate, InRange
  <2> QED
    BY <2>1, <2>2
<1>3. ASSUME NEW c \in Containers, Look(c) PROVE TypeOK' /\ InRange'
  <2>1. TypeOK'
    <3>1. pc' \in [Containers -> Pcs]
      BY <1>3 DEF Look, Pcs, CreatePcs
    <3>2. i' = i \/ i' = [i EXCEPT ![c] = @ + 1]
      BY <1>3 DEF Look
    <3>3. i' \in [Containers -> Positions]
      BY <1>0, <3>2
    <3> QED
      BY <1>3, <3>1, <3>3 DEF Look
  <2>2. InRange'
    <3>1. i[c] <= Len(Mounts[c]) => i[c] \in DOMAIN Mounts[c]
      BY DEF Positions
    <3>2. \/ pc' = [pc EXCEPT ![c] = "save"] /\ UNCHANGED <<i, args>>
          \/ i[c] <= Len(Mounts[c]) /\ pc' = [pc EXCEPT ![c] = "clear"] /\ UNCHANGED <<i, args>>
          \/ i' = [i EXCEPT ![c] = @ + 1] /\ UNCHANGED <<pc, args>> /\ pc[c] = "look"
      BY <1>3 DEF Look
    <3> QED
      BY <3>1, <3>2 DEF InRange
  <2> QED
    BY <2>1, <2>2
<1>4. ASSUME NEW c \in Containers, CreateFails(c) PROVE TypeOK' /\ InRange'
  <2>1. TypeOK'
    BY <1>0, <1>4 DEF CreateFails, Pcs, CreatePcs, DeletePcs
  <2>2. InRange'
    BY <1>4 DEF CreateFails, InRange
  <2> QED
    BY <2>1, <2>2
<1>5. ASSUME NEW c \in Containers, ClearAutoclear(c) PROVE TypeOK' /\ InRange'
  <2>1. TypeOK'
    <3>1. CASE CreateFails(c)
      BY <1>4, <3>1
    <3>2. CASE ~CreateFails(c)
      <4> DEFINE v == Mounts[c][i[c]]
      <4>1. v \in Volumes /\ autoclear[v] \in BOOLEAN
        BY <1>5 DEF ClearAutoclear, InRange
      <4>2. /\ pc' = [pc EXCEPT ![c] = "unmount"]
            /\ cleared' = [cleared EXCEPT ![c] = autoclear[v]]
            /\ autoclear' = [autoclear EXCEPT ![v] = FALSE]
            /\ UNCHANGED <<mounted, dev, i, args, failed>>
        BY <1>5, <3>2 DEF ClearAutoclear
      <4>3. pc' \in [Containers -> Pcs]
        BY <4>2 DEF Pcs, CreatePcs
      <4> QED
        BY <4>1, <4>2, <4>3
    <3> QED
      BY <3>1, <3>2
  <2>2. InRange'
    BY <1>4, <1>5 DEF ClearAutoclear, InRange
  <2> QED
    BY <2>1, <2>2
<1>6. ASSUME NEW c \in Containers, Unmount(c) PROVE TypeOK' /\ InRange'
  <2>1. TypeOK'
    <3>1. CASE CreateFails(c)
      BY <1>4, <3>1
    <3>2. CASE ~CreateFails(c)
      <4> DEFINE v == Mounts[c][i[c]]
                 b == [vol |-> v, clear |-> cleared[c]]
      <4>1. v \in Volumes
        BY <1>6 DEF Unmount, InRange
      <4>2. b \in BlockArg /\ Append(args[c], b) \in Seq(BlockArg)
        <5>1. b \in BlockArg
          BY <4>1 DEF BlockArg
        <5> QED
          BY <5>1
      <4>3. /\ mounted' = [mounted EXCEPT ![v] = FALSE]
            /\ dev' = [dev EXCEPT ![v] = @ /\ ~autoclear[v]]
            /\ args' = [args EXCEPT ![c] = Append(@, b)]
            /\ pc' = [pc EXCEPT ![c] = "look"] /\ i' = [i EXCEPT ![c] = @ + 1]
            /\ UNCHANGED <<autoclear, cleared>>
        BY <1>6, <3>2 DEF Unmount
      <4>4. args' \in [Containers -> Seq(BlockArg)]
        BY <4>2, <4>3
      <4>5. pc' \in [Containers -> Pcs] /\ i' \in [Containers -> Positions]
        BY <1>0, <4>3 DEF Pcs, CreatePcs
      <4>6. mounted' \in [Volumes -> BOOLEAN] /\ dev' \in [Volumes -> BOOLEAN]
        <5>1. (dev[v] /\ ~autoclear[v]) \in BOOLEAN
          OBVIOUS
        <5> QED
          BY <4>1, <4>3, <5>1
      <4> QED
        BY <4>3, <4>4, <4>5, <4>6
    <3> QED
      BY <3>1, <3>2
  <2>2. InRange'
    <3>1. \A d \in Containers : d # c => pc'[d] = pc[d] /\ i'[d] = i[d] /\ args'[d] = args[d]
      BY <1>6 DEF Unmount, CreateFails
    <3>2. pc'[c] \in {"look", "idle"}
      BY <1>6 DEF Unmount, CreateFails
    <3> QED
      BY <3>1, <3>2 DEF InRange
  <2> QED
    BY <2>1, <2>2
<1>7. ASSUME NEW c \in Containers, Save(c) PROVE TypeOK' /\ InRange'
  <2>1. TypeOK'
    BY <1>0, <1>4, <1>7 DEF Save, Pcs, CreatePcs, DeletePcs
  <2>2. InRange'
    BY <1>4, <1>7 DEF Save, InRange
  <2> QED
    BY <2>1, <2>2
<1>8. ASSUME NEW c \in Containers, Start(c) PROVE TypeOK' /\ InRange'
  <2>1. TypeOK'
    BY <1>0, <1>8 DEF Start, Pcs, CreatePcs, DeletePcs
  <2>2. InRange'
    BY <1>8 DEF Start, InRange
  <2> QED
    BY <2>1, <2>2
<1>9. ASSUME NEW c \in Containers, Stop(c) PROVE TypeOK' /\ InRange'
  <2>1. TypeOK'
    BY <1>0, <1>9 DEF Stop, Pcs, CreatePcs, DeletePcs
  <2>2. InRange'
    BY <1>9 DEF Stop, InRange
  <2> QED
    BY <2>1, <2>2
<1>10. ASSUME NEW c \in Containers, BeginDelete(c) PROVE TypeOK' /\ InRange'
  <2>1. TypeOK'
    BY <1>0, <1>10 DEF BeginDelete, Pcs, CreatePcs, DeletePcs
  <2>2. InRange'
    BY <1>10 DEF BeginDelete, InRange
  <2> QED
    BY <2>1, <2>2
<1>11. ASSUME NEW c \in Containers, Restore(c) PROVE TypeOK' /\ InRange'
  <2>1. TypeOK'
    <3>1. i' = i \/ i' = [i EXCEPT ![c] = @ + 1]
      BY <1>11 DEF Restore
    <3>2. i' \in [Containers -> Positions]
      BY <1>0, <3>1
    <3>3. pc' = pc \/ \E to \in {"flag", "remove"} : pc' = [pc EXCEPT ![c] = to]
      BY <1>11 DEF Restore
    <3>4. pc' \in [Containers -> Pcs]
      BY <3>3 DEF Pcs, DeletePcs
    <3>5. mounted' \in [Volumes -> BOOLEAN]
      BY <1>11 DEF Restore
    <3> QED
      BY <1>11, <3>2, <3>4, <3>5 DEF Restore
  <2>2. InRange'
    <3>1. i[c] <= Len(args[c]) => i[c] \in DOMAIN args[c]
      BY DEF Positions
    <3>2. /\ args' = args /\ pc[c] = "restore"
          /\ \/ pc' = [pc EXCEPT ![c] = "remove"] /\ UNCHANGED i
             \/ UNCHANGED pc /\ i' = [i EXCEPT ![c] = @ + 1]
             \/ i[c] <= Len(args[c]) /\ pc' = [pc EXCEPT ![c] = "flag"] /\ UNCHANGED i
      BY <1>11 DEF Restore
    <3> QED
      BY <3>1, <3>2 DEF InRange
  <2> QED
    BY <2>1, <2>2
<1>12. ASSUME NEW c \in Containers, SetAutoclear(c) PROVE TypeOK' /\ InRange'
  <2>1. TypeOK'
    <3> DEFINE v == args[c][i[c]].vol
    <3>1. v \in Volumes
      <4>1. args[c][i[c]] \in BlockArg
        BY <1>12 DEF SetAutoclear, InRange
      <4> QED
        BY <4>1 DEF BlockArg
    <3>2. autoclear' \in [Volumes -> BOOLEAN] /\ dev' \in [Volumes -> BOOLEAN]
      BY <1>12, <3>1 DEF SetAutoclear
    <3>3. i' = i \/ i' = [i EXCEPT ![c] = @ + 1]
      BY <1>12 DEF SetAutoclear
    <3>4. i' \in [Containers -> Positions]
      BY <1>0, <3>3
    <3>5. pc' \in [Containers -> Pcs]
      <4>1. pc' = [pc EXCEPT ![c] = "remove"] \/ pc' = [pc EXCEPT ![c] = "restore"]
        BY <1>12 DEF SetAutoclear
      <4> QED
        BY <4>1 DEF Pcs, DeletePcs
    <3> QED
      BY <1>12, <3>2, <3>4, <3>5 DEF SetAutoclear
  <2>2. InRange'
    <3>1. \A d \in Containers : d # c => pc'[d] = pc[d] /\ i'[d] = i[d]
      BY <1>12 DEF SetAutoclear
    <3>2. pc'[c] \in {"remove", "restore"} /\ args' = args
      BY <1>12 DEF SetAutoclear
    <3> QED
      BY <3>1, <3>2 DEF InRange
  <2> QED
    BY <2>1, <2>2
<1>13. ASSUME NEW c \in Containers, Remove(c) PROVE TypeOK' /\ InRange'
  <2>1. TypeOK'
    <3>1. pc' \in [Containers -> Pcs]
      BY <1>13 DEF Remove, Pcs
    <3>2. args' \in [Containers -> Seq(BlockArg)]
      BY <1>0, <1>13 DEF Remove
    <3> QED
      BY <1>13, <3>1, <3>2 DEF Remove
  <2>2. InRange'
    BY <1>13 DEF Remove, InRange
  <2> QED
    BY <2>1, <2>2
<1> QED
  BY <1>1, <1>2, <1>3, <1>5, <1>6, <1>7, <1>8, <1>9, <1>10, <1>11, <1>12, <1>13 DEF Next

\* Every step keeps the claims apart.
LEMMA ClaimStep ==
    ASSUME ClaimInv, TypeOK', InRange', [Next]_vars
    PROVE  ClaimInv'
<1> SUFFICES IdleEmpty' /\ ClaimedOnce'
  BY DEF ClaimInv
<1>0. \A v \in Volumes : failed[v] \subseteq failed'[v]
  BY FailedGrows DEF ClaimInv
<1> USE <1>0 DEF ClaimInv, Goto, Advance
<1>1. CASE UNCHANGED vars
  BY <1>1 DEF vars, IdleEmpty, ClaimedOnce, Claims
<1>2. ASSUME NEW c \in Containers, BeginCreate(c) PROVE IdleEmpty' /\ ClaimedOnce'
  <2>1. args[c] = <<>> /\ args' = args /\ mounted' = mounted
    BY <1>2 DEF BeginCreate, IdleEmpty
  <2>2. Claims(c)' = {}
    BY <2>1 DEF Claims
  <2> QED
    BY <1>2, <2>1, <2>2, FewerClaims DEF BeginCreate, IdleEmpty, TypeOK
<1>3. ASSUME NEW c \in Containers, Look(c) PROVE IdleEmpty' /\ ClaimedOnce'
  <2>1. /\ pc[c] = "look" /\ pc'[c] \in {"look", "clear", "save"}
        /\ UNCHANGED <<mounted, args, failed>>
        /\ \A d \in Containers : d # c => pc'[d] = pc[d] /\ i'[d] = i[d]
    BY <1>3 DEF Look, TypeOK
  <2>2. Claims(c)' = Claims(c)
    BY <2>1 DEF Claims
  <2> QED
    BY <2>1, <2>2, FewerClaims DEF IdleEmpty
<1>4. ASSUME NEW c \in Containers, CreateFails(c) PROVE IdleEmpty' /\ ClaimedOnce'
  <2>1. Claims(c)' = {}
    BY <1>4 DEF CreateFails, Claims, TypeOK
  <2> QED
    BY <1>4, <2>1, FewerClaims DEF CreateFails, IdleEmpty, TypeOK
<1>5. ASSUME NEW c \in Containers, ClearAutoclear(c) PROVE IdleEmpty' /\ ClaimedOnce'
  <2>1. CASE ~CreateFails(c)
    <3>1. /\ pc[c] = "clear" /\ pc' = [pc EXCEPT ![c] = "unmount"]
          /\ UNCHANGED <<mounted, args, i, failed>>
      BY <1>5, <2>1 DEF ClearAutoclear
    <3>2. Claims(c)' = Claims(c)
      BY <3>1 DEF Claims, TypeOK
    <3> QED
      BY <3>1, <3>2, FewerClaims DEF IdleEmpty, TypeOK
  <2> QED
    BY <1>4, <2>1
<1>6. ASSUME NEW c \in Containers, Unmount(c) PROVE IdleEmpty' /\ ClaimedOnce'
  <2>1. CASE ~CreateFails(c)
    <3> DEFINE v == Mounts[c][i[c]]
               b == [vol |-> v, clear |-> cleared[c]]
               n == Len(args[c]) + 1
    <3>1. v \in Volumes /\ b \in BlockArg
      BY <1>6, VolumesAssumption DEF Unmount, InRange, TypeOK, BlockArg
    <3>2. /\ pc[c] = "unmount" /\ mounted[v] /\ mounted' = [mounted EXCEPT ![v] = FALSE]
          /\ args' = [args EXCEPT ![c] = Append(@, b)]
          /\ pc' = [pc EXCEPT ![c] = "look"] /\ i' = [i EXCEPT ![c] = @ + 1] /\ failed' = failed
      BY <1>6, <2>1 DEF Unmount
    <3>3. args'[c] = Append(args[c], b) /\ args[c] \in Seq(BlockArg)
      BY <3>2 DEF TypeOK
    <3>4. /\ DOMAIN args'[c] = DOMAIN args[c] \cup {n} /\ n \notin DOMAIN args[c]
          /\ args'[c][n] = b /\ \A k \in DOMAIN args[c] : args'[c][k] = args[c][k]
      BY <3>1, <3>3
    <3>5. (\A k \in Claims(c) : k \in DOMAIN args[c]) /\ \A k \in Claims(c)' : k \in Claims(c) \/ k = n
      BY <3>2, <3>4 DEF Claims, TypeOK
    <3>6. \A d \in Containers : d # c => Claims(d)' = Claims(d) /\ args'[d] = args[d]
      BY <3>2 DEF Claims, TypeOK
    <3>7. \A d \in Containers : \A k \in Claims(d)' :
            \/ k \in Claims(d) /\ args'[d][k] = args[d][k]
            \/ d = c /\ k = n /\ args'[d][k].vol = v
      BY <3>4, <3>5, <3>6
    <3>8. \A d \in Containers : \A k \in Claims(d) :
            ~mounted[args[d][k].vol] /\ args[d][k].vol # v
      BY <3>2 DEF ClaimedOnce
    <3>9. \A u : ~mounted[u] /\ u # v => ~mounted'[u] \/ u \notin Volumes
      BY <3>2 DEF TypeOK
    <3>10. \A d \in Containers : \A k \in Claims(d) : args[d][k].vol \in Volumes
      <4> SUFFICES ASSUME NEW d \in Containers, NEW k \in Claims(d) PROVE args[d][k].vol \in Volumes
        OBVIOUS
      <4>1. args[d] \in Seq(BlockArg) /\ k \in DOMAIN args[d]
        BY DEF Claims, TypeOK
      <4> QED
        BY <4>1, ListedVolumes
    <3>11. ~mounted'[v]
      BY <3>1, <3>2 DEF TypeOK
    <3>12. ClaimedOnce'
      BY <3>7, <3>8, <3>9, <3>10, <3>11 DEF ClaimedOnce
    <3>13. IdleEmpty'
      BY <3>2 DEF IdleEmpty, TypeOK
    <3> QED
      BY <3>12, <3>13
  <2> QED
    BY <1>4, <2>1
<1>7. ASSUME NEW c \in Containers, Save(c) PROVE IdleEmpty' /\ ClaimedOnce'
  <2>1. CASE ~CreateFails(c)
    <3>1. /\ pc[c] = "save" /\ pc' = [pc EXCEPT ![c] = "created"]
          /\ UNCHANGED <<mounted, args, i, failed>>
      BY <1>7, <2>1 DEF Save
    <3>2. Claims(c)' = Claims(c)
      BY <3>1 DEF Claims, TypeOK
    <3> QED
      BY <3>1, <3>2, FewerClaims DEF IdleEmpty, TypeOK
  <2> QED
    BY <1>4, <2>1
<1>8. ASSUME NEW c \in Containers, Start(c) \/ Stop(c) PROVE IdleEmpty' /\ ClaimedOnce'
  <2>1. /\ pc[c] \in {"created", "running"} /\ UNCHANGED <<mounted, args, i, failed>>
        /\ pc' = [pc EXCEPT ![c] = "running"] \/ pc' = [pc EXCEPT ![c] = "stopped"]
    BY <1>8 DEF Start, Stop
  <2>2. Claims(c)' = Claims(c)
    BY <2>1 DEF Claims, TypeOK
  <2> QED
    BY <2>1, <2>2, FewerClaims DEF IdleEmpty, TypeOK
<1>9. ASSUME NEW c \in Containers, BeginDelete(c) PROVE IdleEmpty' /\ ClaimedOnce'
  <2>1. /\ pc[c] = "stopped" /\ UNCHANGED <<mounted, args>> /\ i' = [i EXCEPT ![c] = 1]
        /\ pc' = [pc EXCEPT ![c] = "restore"] \/ pc' = [pc EXCEPT ![c] = "remove"]
    BY <1>9 DEF BeginDelete
  <2>2. \A k \in Claims(c)' : k \in Claims(c)
    BY <2>1, ListedVolumes DEF Claims, TypeOK
  <2> QED
    BY <2>1, <2>2, FewerClaims DEF IdleEmpty, TypeOK
<1>10. ASSUME NEW c \in Containers, Restore(c) PROVE IdleEmpty' /\ ClaimedOnce'
  <2> DEFINE b == args[c][i[c]]
  <2>1. /\ pc[c] = "restore" /\ args' = args
        /\ \/ pc' = [pc EXCEPT ![c] = "remove"] /\ i' = i
           \/ pc' = pc /\ i' = [i EXCEPT ![c] = @ + 1]
           \/ pc' = [pc EXCEPT ![c] = "flag"] /\ i' = i
    BY <1>10 DEF Restore
  <2>2. i[c] \in Nat /\ \A k \in DOMAIN args[c] : k \in Nat
    BY DEF TypeOK, Positions
  <2>3. \A k \in Claims(c)' : k \in Claims(c) /\ k # i[c]
    BY <2>1, <2>2, ListedVolumes DEF Claims, TypeOK
  <2>4. \A d \in Containers : d # c => pc'[d] = pc[d] /\ i'[d] = i[d]
    BY <2>1 DEF TypeOK
  <2>5. IdleEmpty'
    BY <2>1, <2>4 DEF IdleEmpty, TypeOK
  <2>6. CASE mounted' = mounted
    BY <2>1, <2>3, <2>4, <2>5, <2>6, FewerClaims
  <2>7. CASE mounted' # mounted
    <3>1. i[c] <= Len(args[c]) /\ mounted' = [mounted EXCEPT ![b.vol] = TRUE]
      BY <1>10, <2>7 DEF Restore
    <3>2. i[c] \in Claims(c) \/ "remove" \in failed[b.vol]
      BY <2>1, <2>2, <3>1 DEF Claims, TypeOK, Positions
    <3>3. \A d \in Containers : \A k \in Claims(d)' :
            ~mounted[args[d][k].vol] /\ args[d][k].vol # b.vol
      <4>1. \A d \in Containers : \A k \in Claims(d)' : k \in Claims(d) /\ ~(d = c /\ k = i[c])
        BY <2>1, <2>3, <2>4, ListedVolumes DEF Claims
      <4>2. \A d \in Containers : \A k \in Claims(d) : "remove" \notin failed[args[d][k].vol]
        BY DEF Claims
      <4> QED
        BY <3>2, <4>1, <4>2 DEF ClaimedOnce
    <3>4. \A d \in Containers : \A k \in Claims(d)' : ~mounted'[args'[d][k].vol]
      BY <2>1, <3>1, <3>3 DEF TypeOK
    <3> QED
      BY <2>1, <2>3, <2>4, <2>5, <3>4, FewerClaims
  <2> QED
    BY <2>6, <2>7
<1>11. ASSUME NEW c \in Containers, SetAutoclear(c) PROVE IdleEmpty' /\ ClaimedOnce'
  <2>1. /\ pc[c] = "flag" /\ UNCHANGED <<mounted, args>>
        /\ \/ pc' = [pc EXCEPT ![c] = "remove"] /\ i' = i
           \/ pc' = [pc EXCEPT ![c] = "restore"] /\ i' = [i EXCEPT ![c] = @ + 1]
    BY <1>11 DEF SetAutoclear
  <2>2. i[c] \in Nat /\ \A k \in DOMAIN args[c] : k \in Nat
    BY DEF TypeOK, Positions
  <2>3. \A k \in Claims(c)' : k \in Claims(c)
    BY <2>1, <2>2, ListedVolumes DEF Claims, TypeOK
  <2> QED
    BY <2>1, <2>3, FewerClaims DEF IdleEmpty, TypeOK
<1>12. ASSUME NEW c \in Containers, Remove(c) PROVE IdleEmpty' /\ ClaimedOnce'
  <2>1. CASE pc' = [pc EXCEPT ![c] = "idle"] /\ args' = [args EXCEPT ![c] = <<>>]
    <3>1. Claims(c)' = {} /\ UNCHANGED <<mounted, i>>
      BY <1>12, <2>1 DEF Remove, Claims, TypeOK
    <3> QED
      BY <2>1, <3>1, FewerClaims DEF IdleEmpty, TypeOK
  <2>2. CASE Fail(Recorded(c), "remove") /\ pc' = [pc EXCEPT ![c] = "stopped"] /\ args' = args
    <3>1. UNCHANGED <<mounted, i>>
      BY <1>12 DEF Remove
    <3>2. \A k \in DOMAIN args[c] : "remove" \in failed'[args[c][k].vol]
      BY <2>2, ListedVolumes DEF Fail, Recorded
    <3>3. Claims(c)' = {}
      BY <2>2, <3>2 DEF Claims, TypeOK
    <3> QED
      BY <2>2, <3>1, <3>3, FewerClaims DEF IdleEmpty, TypeOK
  <2> QED
    BY <1>12, <2>1, <2>2 DEF Remove
<1> QED
  BY <1>1, <1>2, <1>3, <1>5, <1>6, <1>7, <1>8, <1>9, <1>10, <1>11, <1>12 DEF Next

\* A volume that urunc create gave to a guest is mounted neither on the host nor
\* in a second guest (ExclusiveUse), however creates and deletes of containers
\* that share volumes overlap and whichever of their steps fail, unless a delete
\* failed after it had restored the volume.
THEOREM VolumesExclusive == Spec => []ExclusiveUse
<1>1. Init => ClaimInv
  <2> SUFFICES ASSUME Init PROVE ClaimInv
    OBVIOUS
  <2>1. TypeOK
    BY DEF Init, TypeOK, Pcs, Positions
  <2>2. InRange /\ IdleEmpty /\ ClaimedOnce
    BY DEF Init, InRange, IdleEmpty, ClaimedOnce, Claims
  <2> QED
    BY <2>1, <2>2 DEF ClaimInv
<1>2. ClaimInv /\ [Next]_vars => ClaimInv'
  BY TypeStep, ClaimStep DEF ClaimInv
<1>3. ClaimInv => ExclusiveUse
  <2> SUFFICES ASSUME ClaimInv, NEW c \in Containers, NEW v \in Attached(c),
                      "remove" \notin failed[v]
               PROVE  ~mounted[v] /\ \A d \in Containers \ {c} : v \notin Attached(d)
    BY DEF ExclusiveUse
  <2>1. \A d \in Containers : v \in Attached(d) => \E k \in Claims(d) : args[d][k].vol = v
    BY DEF Attached, Recorded, Claims, CreatePcs
  <2> QED
    BY <2>1 DEF ClaimInv, ClaimedOnce
<1> QED
  BY <1>1, <1>2, <1>3, PTL DEF Spec

-----------------------------------------------------------------------------
(* The devices stay attached *)

\* A step of one container leaves the others where they are.
LEMMA OneActor ==
    ASSUME TypeOK, [Next]_vars, ~UNCHANGED vars
    PROVE  \E c \in Containers :
               /\ \/ BeginCreate(c) \/ Look(c) \/ ClearAutoclear(c) \/ Unmount(c) \/ Save(c)
                  \/ Start(c) \/ Stop(c)
                  \/ BeginDelete(c) \/ Restore(c) \/ SetAutoclear(c) \/ Remove(c)
               /\ \A d \in Containers \ {c} :
                    /\ pc'[d] = pc[d] /\ i'[d] = i[d] /\ args'[d] = args[d]
                    /\ cleared'[d] = cleared[d]
<1>1. PICK c \in Containers :
           \/ BeginCreate(c) \/ Look(c) \/ ClearAutoclear(c) \/ Unmount(c) \/ Save(c)
           \/ Start(c) \/ Stop(c)
           \/ BeginDelete(c) \/ Restore(c) \/ SetAutoclear(c) \/ Remove(c)
  BY DEF Next
<1> USE DEF TypeOK, Goto, Advance
<1>2. \A d \in Containers \ {c} : pc'[d] = pc[d]
  BY <1>1 DEF BeginCreate, Look, ClearAutoclear, Unmount, Save, Start, Stop, BeginDelete, Restore,
              SetAutoclear, Remove, CreateFails
<1>3. \A d \in Containers \ {c} : i'[d] = i[d]
  BY <1>1 DEF BeginCreate, Look, ClearAutoclear, Unmount, Save, Start, Stop, BeginDelete, Restore,
              SetAutoclear, Remove, CreateFails
<1>4. \A d \in Containers \ {c} : args'[d] = args[d]
  BY <1>1 DEF BeginCreate, Look, ClearAutoclear, Unmount, Save, Start, Stop, BeginDelete, Restore,
              SetAutoclear, Remove, CreateFails
<1>5. \A d \in Containers \ {c} : cleared'[d] = cleared[d]
  BY <1>1 DEF BeginCreate, Look, ClearAutoclear, Unmount, Save, Start, Stop, BeginDelete, Restore,
              SetAutoclear, Remove, CreateFails
<1> QED
  BY <1>1, <1>2, <1>3, <1>4, <1>5, Zenon

\* A list of recorded volumes is kept, dropped, or grows by the mount at hand.
LEMMA ListStep ==
    ASSUME TypeOK, InRange, [Next]_vars, NEW c \in Containers
    PROVE  \/ args'[c] = args[c]
           \/ args'[c] = <<>>
           \/ /\ pc[c] = "unmount" /\ i[c] \in DOMAIN Mounts[c]
              /\ args'[c] = Append(args[c], [vol |-> Mounts[c][i[c]], clear |-> cleared[c]])
<1>1. CASE UNCHANGED vars
  BY <1>1 DEF vars
<1>2. CASE ~UNCHANGED vars
  <2>1. PICK d \in Containers :
           /\ \/ BeginCreate(d) \/ Look(d) \/ ClearAutoclear(d) \/ Unmount(d) \/ Save(d)
              \/ Start(d) \/ Stop(d)
              \/ BeginDelete(d) \/ Restore(d) \/ SetAutoclear(d) \/ Remove(d)
           /\ \A e \in Containers \ {d} : args'[e] = args[e]
    BY <1>2, OneActor, Zenon
  <2>2. CASE c = d /\ Unmount(d)
    BY <2>2 DEF Unmount, CreateFails, InRange, TypeOK
  <2>3. CASE c = d /\ ~Unmount(d)
    BY <2>1, <2>3 DEF BeginCreate, Look, ClearAutoclear, Save, Start, Stop, BeginDelete,
                      Restore, SetAutoclear, Remove, CreateFails, TypeOK
  <2> QED
    BY <2>1, <2>2, <2>3
<1> QED
  BY <1>1, <1>2

\* The volumes that getBlockVolumes records come from the container's mounts.
LEMMA RecordedStep ==
    ASSUME TypeOK, InRange, RecordedNamed, [Next]_vars
    PROVE  RecordedNamed'
<1> SUFFICES ASSUME NEW c \in Containers, NEW k \in DOMAIN args'[c]
             PROVE  args'[c][k].vol \in Named(c)
  BY DEF RecordedNamed, Recorded
<1>1. CASE args'[c] = args[c]
  BY <1>1 DEF RecordedNamed, Recorded
<1>2. CASE args'[c] = <<>>
  BY <1>2
<1>3. CASE /\ i[c] \in DOMAIN Mounts[c]
           /\ args'[c] = Append(args[c], [vol |-> Mounts[c][i[c]], clear |-> cleared[c]])
  <2> DEFINE b == [vol |-> Mounts[c][i[c]], clear |-> cleared[c]]
  <2>1. args[c] \in Seq(BlockArg) /\ b.vol \in Named(c)
    BY <1>3 DEF TypeOK, Named
  <2>2. b \in BlockArg
    BY <1>3, VolumesAssumption DEF BlockArg, TypeOK
  <2>3. args'[c][k] = b \/ (k \in DOMAIN args[c] /\ args'[c][k] = args[c][k])
    BY <1>3, <2>1, <2>2
  <2> QED
    BY <2>1, <2>3 DEF RecordedNamed, Recorded
<1> QED
  BY <1>1, <1>2, <1>3, ListStep

\* A create is not begun during the delete of a container that shares a volume
\* with it, nor the other way round.
LEMMA TurnsStep ==
    ASSUME TypeOK, CreateOrDelete, [Next]_vars, "delete" \notin Overlap
    PROVE  CreateOrDelete'
<1>1. CASE UNCHANGED vars
  BY <1>1 DEF vars, CreateOrDelete
<1>2. CASE ~UNCHANGED vars
  <2>1. PICK c \in Containers :
           /\ \/ BeginCreate(c) \/ Look(c) \/ ClearAutoclear(c) \/ Unmount(c) \/ Save(c)
              \/ Start(c) \/ Stop(c)
              \/ BeginDelete(c) \/ Restore(c) \/ SetAutoclear(c) \/ Remove(c)
           /\ \A d \in Containers \ {c} : pc'[d] = pc[d]
    BY <1>2, OneActor, Zenon
  <2>2. CASE BeginCreate(c)
    <3>1. pc'[c] = "look" /\ \A d \in Containers \ {c} : pc[d] \in DeletePcs => ~Shares(c, d)
      BY <2>2 DEF BeginCreate, Goto, TypeOK
    <3> QED
      BY <2>1, <3>1 DEF CreateOrDelete, DeletePcs
  <2>3. CASE BeginDelete(c)
    <3>1. pc'[c] \in {"restore", "remove"}
      BY <2>3 DEF BeginDelete, Goto, TypeOK
    <3>2. \A d \in Containers \ {c} : pc[d] \in CreatePcs => ~Shares(c, d)
      BY <2>3 DEF BeginDelete
    <3> QED
      BY <2>1, <3>1, <3>2 DEF CreateOrDelete, CreatePcs, Shares
  <2>4. CASE ~BeginCreate(c) /\ ~BeginDelete(c)
    <3>1. pc[c] \in {"look", "clear", "unmount", "save"} =>
            pc'[c] \in {"look", "clear", "unmount", "save", "created", "idle"}
      BY <2>1, <2>4 DEF Look, ClearAutoclear, Unmount, Save, Start, Stop, Restore, SetAutoclear,
                        Remove, CreateFails, Goto, TypeOK
    <3>2. pc[c] \in {"created", "running"} => pc'[c] \in {"running", "stopped"}
      BY <2>1, <2>4 DEF Look, ClearAutoclear, Unmount, Save, Start, Stop, Restore, SetAutoclear,
                        Remove, Goto, TypeOK
    <3>3. pc[c] \in {"restore", "flag", "remove"} =>
            pc'[c] \in {"restore", "flag", "remove", "idle", "stopped"}
      BY <2>1, <2>4 DEF Look, ClearAutoclear, Unmount, Save, Start, Stop, Restore, SetAutoclear,
                        Remove, Goto, TypeOK
    <3>4. pc[c] \in {"look", "clear", "unmount", "save", "created", "running", "restore", "flag",
                     "remove"}
      BY <2>1, <2>4 DEF Look, ClearAutoclear, Unmount, Save, Start, Stop, Restore, SetAutoclear,
                        Remove
    <3>5. /\ pc'[c] \in CreatePcs => pc[c] \in CreatePcs
          /\ pc'[c] \in DeletePcs => pc[c] \in DeletePcs
      BY <3>1, <3>2, <3>3, <3>4 DEF CreatePcs, DeletePcs
    <3> QED
      BY <2>1, <3>5 DEF CreateOrDelete
  <2> QED
    BY <2>2, <2>3, <2>4
<1> QED
  BY <1>1, <1>2

\* A create never holds the mountpoint of a volume that a delete works on.
LEMMA Apart ==
    ASSUME DeviceInv, NEW c \in Containers, NEW d \in Containers, NEW v \in Volumes,
           Unmounts(c, v), pc[d] \in DeletePcs, v \in Recorded(d)
    PROVE  FALSE
<1>1. v \in Named(c)
  BY DEF DeviceInv, ClaimInv, InRange, Unmounts, Named
<1>2. v \in Named(d)
  BY DEF DeviceInv, RecordedNamed
<1>3. c # d /\ pc[c] \in CreatePcs
  BY DEF Unmounts, CreatePcs, DeletePcs
<1> QED
  BY <1>1, <1>2, <1>3 DEF DeviceInv, CreateOrDelete, Shares

\* A step that leaves volumes and devices alone, and does not bring a container
\* to the unmount of one or to its flag, keeps what is known of flags.
LEMMA CalmFlags ==
    ASSUME DeviceInv, NEW c \in Containers,
           \A d \in Containers \ {c} : pc'[d] = pc[d] /\ i'[d] = i[d] /\ args'[d] = args[d],
           pc'[c] \notin {"unmount", "flag"},
           UNCHANGED <<mounted, autoclear, dev>>
    PROVE  FlagFollowsMount' /\ DevicesStay'
BY DEF DeviceInv, FlagFollowsMount, DevicesStay, Unmounts, Flags

\* setLoopAutoclear and the order of unmount and flag keep every loop device
\* attached.
LEMMA FlagStep ==
    ASSUME DeviceInv, [Next]_vars
    PROVE  FlagFollowsMount' /\ DevicesStay'
<1>1. CASE UNCHANGED vars
  BY <1>1 DEF vars, DeviceInv, FlagFollowsMount, DevicesStay, Unmounts, Flags
<1>2. CASE ~UNCHANGED vars
  <2>0. TypeOK /\ InRange
    BY DEF DeviceInv, ClaimInv
  <2>1. PICK c \in Containers :
           /\ \/ BeginCreate(c) \/ Look(c) \/ ClearAutoclear(c) \/ Unmount(c) \/ Save(c)
              \/ Start(c) \/ Stop(c)
              \/ BeginDelete(c) \/ Restore(c) \/ SetAutoclear(c) \/ Remove(c)
           /\ \A d \in Containers \ {c} : pc'[d] = pc[d] /\ i'[d] = i[d] /\ args'[d] = args[d]
    BY <1>2, <2>0, OneActor, Zenon
  <2>2. CASE BeginCreate(c) \/ Look(c) \/ Save(c) \/ Start(c) \/ BeginDelete(c) \/ Remove(c)
             \/ CreateFails(c)
    <3>1. pc'[c] \notin {"unmount", "flag"}
      BY <2>0, <2>2 DEF BeginCreate, Look, Save, Start, BeginDelete, Remove, CreateFails, Goto, TypeOK
    <3>2. UNCHANGED <<mounted, autoclear, dev>>
      BY <2>2 DEF BeginCreate, Look, Save, Start, BeginDelete, Remove, CreateFails
    <3> QED
      BY <2>1, <3>1, <3>2, CalmFlags
  <2>3. CASE ClearAutoclear(c) /\ ~CreateFails(c)
    <3> DEFINE v == Mounts[c][i[c]]
    <3>1. /\ pc[c] = "clear" /\ pc' = [pc EXCEPT ![c] = "unmount"]
          /\ autoclear' = [autoclear EXCEPT ![v] = FALSE] /\ UNCHANGED <<mounted, dev, i, args>>
      BY <2>3 DEF ClearAutoclear, Goto
    <3>2. v \in Volumes
      BY <2>0, <3>1, VolumesAssumption DEF InRange
    <3>3. \A u \in Volumes : autoclear'[u] => autoclear[u] /\ u # v
      BY <2>0, <3>1, <3>2 DEF TypeOK
    <3>4. \A u \in Volumes : Unmounts(c, u)' => u = v
      BY <3>1 DEF Unmounts
    <3>5. ~Flags(c, v)' /\ \A u \in Volumes : ~Flags(c, u)'
      BY <2>0, <3>1 DEF Flags, TypeOK
    <3>6. \A d \in Containers \ {c} : \A u \in Volumes :
            /\ Unmounts(d, u)' => Unmounts(d, u)
            /\ Flags(d, u)' => Flags(d, u)
      BY <2>1 DEF Unmounts, Flags
    <3> QED
      BY <3>1, <3>3, <3>4, <3>5, <3>6 DEF DeviceInv, FlagFollowsMount, DevicesStay
  <2>4. CASE Unmount(c) /\ ~CreateFails(c)
    <3> DEFINE v == Mounts[c][i[c]]
    <3>1. /\ pc[c] = "unmount" /\ pc' = [pc EXCEPT ![c] = "look"]
          /\ mounted' = [mounted EXCEPT ![v] = FALSE]
          /\ dev' = [dev EXCEPT ![v] = @ /\ ~autoclear[v]] /\ autoclear' = autoclear
      BY <2>4 DEF Unmount, Goto
    <3>2. v \in Volumes /\ Unmounts(c, v)
      BY <2>0, <3>1, VolumesAssumption DEF InRange, Unmounts
    <3>3. ~autoclear[v]
      BY <3>2 DEF DeviceInv, FlagFollowsMount
    <3>4. DevicesStay'
      BY <2>0, <3>1, <3>3 DEF DeviceInv, DevicesStay, TypeOK
    <3>5. \A u \in Volumes : ~Unmounts(c, u)' /\ ~Flags(c, u)'
      BY <2>0, <3>1 DEF Unmounts, Flags, TypeOK
    <3>6. \A d \in Containers \ {c} : \A u \in Volumes :
            /\ Unmounts(d, u)' => Unmounts(d, u)
            /\ Flags(d, u)' => Flags(d, u)
      BY <2>1 DEF Unmounts, Flags
    <3>7. \A d \in Containers : ~Flags(d, v)
      <4> SUFFICES ASSUME NEW d \in Containers, Flags(d, v) PROVE FALSE
        OBVIOUS
      <4>1. pc[d] \in DeletePcs /\ v \in Recorded(d)
        BY <2>0 DEF Flags, DeletePcs, Recorded, InRange
      <4> QED
        BY <3>2, <4>1, Apart
    <3>8. \A u \in Volumes : mounted[u] /\ u # v => mounted'[u]
      BY <2>0, <3>1 DEF TypeOK
    <3> QED
      BY <3>1, <3>3, <3>4, <3>5, <3>6, <3>7, <3>8 DEF DeviceInv, FlagFollowsMount
  <2>5. CASE Stop(c)
    <3>1. /\ pc' = [pc EXCEPT ![c] = "stopped"] /\ UNCHANGED <<mounted, autoclear, i, args>>
          /\ dev' = [v \in Volumes |-> dev[v] /\
                ~(pc[c] = "running" /\ v \in Recorded(c) /\ autoclear[v] /\ ~mounted[v])]
      BY <2>5 DEF Stop, Goto
    <3>2. DevicesStay'
      BY <3>1 DEF DeviceInv, DevicesStay, FlagFollowsMount
    <3>3. FlagFollowsMount'
      BY <2>0, <3>1 DEF DeviceInv, FlagFollowsMount, Unmounts, Flags, TypeOK
    <3> QED
      BY <3>2, <3>3
  <2>6. CASE Restore(c)
    <3> DEFINE w == args[c][i[c]].vol
    <3>1. /\ pc[c] = "restore" /\ UNCHANGED <<autoclear, dev, args>>
          /\ \/ pc'[c] \notin {"unmount", "flag"} /\ mounted' = mounted
             \/ pc'[c] \notin {"unmount", "flag"} /\ mounted' = [mounted EXCEPT ![w] = TRUE]
             \/ pc'[c] = "flag" /\ i'[c] = i[c] /\ mounted' = [mounted EXCEPT ![w] = TRUE]
      BY <2>0, <2>6 DEF Restore, Goto, TypeOK
    <3>2. \A u \in Volumes : mounted[u] => mounted'[u]
      BY <2>0, <3>1 DEF TypeOK
    <3>3. \A u \in Volumes : Flags(c, u)' => mounted'[u]
      BY <2>0, <3>1 DEF Flags, TypeOK
    <3>4. \A u \in Volumes : ~Unmounts(c, u)'
      BY <3>1 DEF Unmounts
    <3>5. \A d \in Containers \ {c} : \A u \in Volumes :
            /\ Unmounts(d, u)' => Unmounts(d, u)
            /\ Flags(d, u)' => Flags(d, u)
      BY <2>1 DEF Unmounts, Flags
    <3>6. DevicesStay'
      BY <3>1 DEF DeviceInv, DevicesStay
    <3> QED
      BY <3>1, <3>2, <3>3, <3>4, <3>5, <3>6 DEF DeviceInv, FlagFollowsMount
  <2>7. CASE SetAutoclear(c)
    <3> DEFINE v == args[c][i[c]].vol
    <3>1. /\ pc[c] = "flag" /\ pc'[c] \in {"restore", "remove"} /\ mounted' = mounted
          /\ \/ UNCHANGED <<autoclear, dev>>
             \/ /\ autoclear' = [autoclear EXCEPT ![v] = TRUE]
                /\ dev' = [dev EXCEPT ![v] = @ /\ (mounted[v] \/ InUse(v))]
      BY <2>0, <2>7 DEF SetAutoclear, Goto, TypeOK
    <3>2. v \in Volumes
      <4>1. i[c] \in DOMAIN args[c]
        BY <2>0, <3>1 DEF InRange
      <4> QED
        BY <2>0, <4>1, ListedVolumes
    <3>3. mounted[v]
      BY <3>1, <3>2 DEF DeviceInv, FlagFollowsMount, Flags
    <3>4. DevicesStay'
      BY <2>0, <3>1, <3>3 DEF DeviceInv, DevicesStay, TypeOK
    <3>5. \A u \in Volumes : autoclear'[u] => autoclear[u] \/ u = v
      BY <2>0, <3>1 DEF TypeOK
    <3>6. \A u \in Volumes : ~Unmounts(c, u)' /\ ~Flags(c, u)'
      BY <3>1 DEF Unmounts, Flags
    <3>7. \A d \in Containers \ {c} : \A u \in Volumes :
            /\ Unmounts(d, u)' => Unmounts(d, u)
            /\ Flags(d, u)' => Flags(d, u)
      BY <2>1 DEF Unmounts, Flags
    <3>8. \A d \in Containers : ~Unmounts(d, v)
      <4>1. pc[c] \in DeletePcs /\ v \in Recorded(c)
        BY <2>0, <3>1 DEF DeletePcs, Recorded, InRange
      <4> QED
        BY <3>2, <4>1, Apart
    <3> QED
      BY <3>1, <3>3, <3>4, <3>5, <3>6, <3>7, <3>8 DEF DeviceInv, FlagFollowsMount
  <2> QED
    BY <2>1, <2>2, <2>3, <2>4, <2>5, <2>6, <2>7 DEF ClearAutoclear, Unmount
<1> QED
  BY <1>1, <1>2

\* The invariant behind the two theorems below holds of every execution in which
\* no delete overlaps a create on a common volume.
LEMMA DevicesInvariant ==
    ASSUME "delete" \notin Overlap
    PROVE  /\ Init => DeviceInv
           /\ DeviceInv /\ [Next]_vars => DeviceInv'
<1>1. Init => DeviceInv
  <2> SUFFICES ASSUME Init PROVE DeviceInv
    OBVIOUS
  <2>1. TypeOK
    BY DEF Init, TypeOK, Pcs, Positions
  <2>2. InRange /\ IdleEmpty /\ ClaimedOnce
    BY DEF Init, InRange, IdleEmpty, ClaimedOnce, Claims
  <2>3. RecordedNamed /\ CreateOrDelete
    BY DEF Init, RecordedNamed, Recorded, CreateOrDelete, CreatePcs
  <2>4. FlagFollowsMount /\ DevicesStay
    BY DEF Init, FlagFollowsMount, DevicesStay, Unmounts, Flags
  <2> QED
    BY <2>1, <2>2, <2>3, <2>4 DEF DeviceInv, ClaimInv
<1>2. ASSUME DeviceInv, [Next]_vars PROVE DeviceInv'
  <2>1. ClaimInv'
    BY <1>2, TypeStep, ClaimStep DEF DeviceInv, ClaimInv
  <2>2. RecordedNamed'
    BY <1>2, RecordedStep DEF DeviceInv, ClaimInv
  <2>3. CreateOrDelete'
    BY <1>2, TurnsStep DEF DeviceInv, ClaimInv
  <2>4. FlagFollowsMount' /\ DevicesStay'
    BY <1>2, FlagStep
  <2> QED
    BY <2>1, <2>2, <2>3, <2>4 DEF DeviceInv
<1> QED
  BY <1>1, <1>2

\* The device of a volume that urunc create gave to a container does not detach
\* before the container is deleted, whichever steps fail, as long as no delete
\* overlaps a create on a common volume (the run volumes_race shows that this
\* is needed).
THEOREM DevicesHeld == ASSUME "delete" \notin Overlap PROVE Spec => []HeldDeviceStays
<1>1. Init => DeviceInv
  BY DevicesInvariant
<1>2. DeviceInv /\ [Next]_vars => DeviceInv'
  BY DevicesInvariant
<1>3. DeviceInv => HeldDeviceStays
  <2> SUFFICES ASSUME DeviceInv, NEW c \in Containers, NEW v \in Attached(c) PROVE dev[v]
    BY DEF HeldDeviceStays
  <2>1. v \in Recorded(c)
    BY DEF Attached
  <2>2. v \in Volumes
    BY <2>1, ListedVolumes DEF DeviceInv, ClaimInv, Recorded
  <2> QED
    BY <2>2 DEF DeviceInv, DevicesStay
<1> QED
  BY <1>1, <1>2, <1>3, PTL DEF Spec

-----------------------------------------------------------------------------
(* A volume is given back as it was found *)

\* Only loop devices ever carry the autoclear flag.
LEMMA LoopsStep ==
    ASSUME DeviceInv, OnlyLoops, [Next]_vars
    PROVE  OnlyLoops'
<1>0. TypeOK /\ InRange
  BY DEF DeviceInv, ClaimInv
<1>1. \A c \in Containers : \A k \in DOMAIN args'[c] :
        args'[c][k].clear => args'[c][k].vol \in Loops
  <2> SUFFICES ASSUME NEW c \in Containers, NEW k \in DOMAIN args'[c], args'[c][k].clear
               PROVE  args'[c][k].vol \in Loops
    OBVIOUS
  <2>1. CASE args'[c] = args[c]
    BY <2>1 DEF OnlyLoops
  <2>2. CASE args'[c] = <<>>
    BY <2>2
  <2>3. CASE /\ pc[c] = "unmount" /\ i[c] \in DOMAIN Mounts[c]
             /\ args'[c] = Append(args[c], [vol |-> Mounts[c][i[c]], clear |-> cleared[c]])
    <3> DEFINE b == [vol |-> Mounts[c][i[c]], clear |-> cleared[c]]
    <3>0. args[c] \in Seq(BlockArg) /\ cleared[c] \in BOOLEAN
      BY <1>0 DEF TypeOK
    <3>1. b \in BlockArg
      BY <2>3, <3>0, VolumesAssumption DEF BlockArg
    <3>2. args'[c][k] = b \/ (k \in DOMAIN args[c] /\ args'[c][k] = args[c][k])
      BY <2>3, <3>0, <3>1
    <3> QED
      BY <2>3, <3>2 DEF OnlyLoops
  <2> QED
    BY <1>0, <2>1, <2>2, <2>3, ListStep
<1>2. CASE UNCHANGED vars
  BY <1>2 DEF vars, OnlyLoops
<1>3. CASE ~UNCHANGED vars
  <2>1. PICK c \in Containers :
           /\ \/ BeginCreate(c) \/ Look(c) \/ ClearAutoclear(c) \/ Unmount(c) \/ Save(c)
              \/ Start(c) \/ Stop(c)
              \/ BeginDelete(c) \/ Restore(c) \/ SetAutoclear(c) \/ Remove(c)
           /\ \A d \in Containers \ {c} :
                /\ pc'[d] = pc[d] /\ i'[d] = i[d] /\ args'[d] = args[d]
                /\ cleared'[d] = cleared[d]
    BY <1>0, <1>3, OneActor, Zenon
  <2> DEFINE v == Mounts[c][i[c]]
             w == args[c][i[c]].vol
  <2>2. \/ autoclear' = autoclear
        \/ autoclear' = [autoclear EXCEPT ![v] = FALSE]
        \/ pc[c] = "flag" /\ autoclear' = [autoclear EXCEPT ![w] = TRUE]
    BY <2>1 DEF BeginCreate, Look, ClearAutoclear, Unmount, Save, Start, Stop, BeginDelete, Restore,
                SetAutoclear, Remove, CreateFails
  <2>3. pc[c] = "flag" => w \in Loops
    BY <1>0 DEF OnlyLoops, InRange
  <2>4. \A u \in Volumes : autoclear'[u] => u \in Loops
    BY <1>0, <2>2, <2>3 DEF OnlyLoops, TypeOK
  <2>5. pc'[c] = "unmount" =>
          /\ ClearAutoclear(c) /\ pc[c] = "clear" /\ i' = i
          /\ cleared' = [cleared EXCEPT ![c] = autoclear[v]]
    BY <1>0, <2>1 DEF BeginCreate, Look, ClearAutoclear, Unmount, Save, Start, Stop, BeginDelete,
                      Restore, SetAutoclear, Remove, CreateFails, Goto, TypeOK
  <2>6. pc'[c] = "unmount" /\ cleared'[c] => Mounts[c][i'[c]] \in Loops
    <3> SUFFICES ASSUME pc'[c] = "unmount", cleared'[c] PROVE v \in Loops
      BY <2>5
    <3>1. v \in Volumes
      BY <1>0, <2>5, VolumesAssumption DEF InRange
    <3>2. autoclear[v]
      BY <1>0, <2>5 DEF TypeOK
    <3> QED
      BY <3>1, <3>2 DEF OnlyLoops
  <2>7. pc'[c] = "flag" => args' = args /\ i' = i /\ args[c][i[c]].clear
    BY <1>0, <2>1 DEF BeginCreate, Look, ClearAutoclear, Unmount, Save, Start, Stop, BeginDelete,
                      Restore, SetAutoclear, Remove, CreateFails, Goto, TypeOK
  <2>8. pc'[c] = "flag" => args'[c][i'[c]].clear
    BY <2>7
  <2>9. \A d \in Containers \ {c} :
          /\ pc'[d] = "unmount" /\ cleared'[d] => Mounts[d][i'[d]] \in Loops
          /\ pc'[d] = "flag" => args'[d][i'[d]].clear
    BY <2>1 DEF OnlyLoops
  <2> QED
    BY <1>1, <2>4, <2>6, <2>8, <2>9 DEF OnlyLoops
<1> QED
  BY <1>2, <1>3

\* A step of one container that changes no volume, and after which the container
\* still answers for whatever it answered for, keeps everything answered for.
LEMMA KeepAnswers ==
    ASSUME DeviceInv, Answerable, NEW c \in Containers,
           \A u \in Volumes : failed'[u] = {} => failed[u] = {},
           \A d \in Containers \ {c} :
                /\ pc'[d] = pc[d] /\ i'[d] = i[d] /\ args'[d] = args[d]
                /\ cleared'[d] = cleared[d],
           NEW v \in Volumes, failed'[v] = {},
           mounted'[v] = mounted[v], autoclear'[v] = autoclear[v],
           \A k \in Claims(c) : args[c][k].vol = v => k \in Claims(c)' /\ args'[c][k] = args[c][k],
           Unmounts(c, v) => Unmounts(c, v)' /\ cleared'[c] = cleared[c],
           Flags(c, v) => Flags(c, v)'
    PROVE  /\ mounted'[v] \/ Remembered(v)'
           /\ v \in Loops /\ mounted'[v] /\ ~autoclear'[v] =>
                \E d \in Containers : (Unmounts(d, v)' /\ cleared'[d]) \/ Flags(d, v)'
<1>1. failed[v] = {}
  OBVIOUS
<1>2. \A d \in Containers :
        /\ Unmounts(d, v) => Unmounts(d, v)' /\ cleared'[d] = cleared[d]
        /\ Flags(d, v) => Flags(d, v)'
  BY DEF Unmounts, Flags
<1>3. \A d \in Containers : \A k \in Claims(d) :
        args[d][k].vol = v => k \in Claims(d)' /\ args'[d][k] = args[d][k]
  BY DEF Claims
<1>4. Remembered(v) => Remembered(v)'
  <2> SUFFICES ASSUME Remembered(v) PROVE Remembered(v)'
    OBVIOUS
  <2>1. PICK d \in Containers : \E k \in Claims(d) :
            /\ args[d][k].vol = v
            /\ v \in Loops => args[d][k].clear \/ \E e \in Containers \ {d} : Unmounts(e, v)
    BY DEF Remembered
  <2>2. PICK k \in Claims(d) :
            /\ args[d][k].vol = v
            /\ v \in Loops => args[d][k].clear \/ \E e \in Containers \ {d} : Unmounts(e, v)
    BY <2>1
  <2>3. k \in Claims(d)' /\ args'[d][k] = args[d][k]
    BY <1>3, <2>2
  <2> QED
    BY <1>2, <2>2, <2>3 DEF Remembered
<1>5. mounted'[v] \/ Remembered(v)'
  BY <1>1, <1>4 DEF Answerable
<1>6. v \in Loops /\ mounted'[v] /\ ~autoclear'[v] =>
        \E d \in Containers : (Unmounts(d, v)' /\ cleared'[d]) \/ Flags(d, v)'
  BY <1>1, <1>2 DEF Answerable
<1> QED
  BY <1>5, <1>6

\* Whatever step is taken, somebody answers for every volume that is not as it
\* was found.
LEMMA AnswerStep ==
    ASSUME RestoreInv, TypeOK', InRange', [Next]_vars
    PROVE  Answerable'
<1>0. /\ DeviceInv /\ Answerable /\ OnlyLoops /\ ClaimedOnce /\ IdleEmpty
      /\ TypeOK /\ InRange /\ RecordedNamed /\ FlagFollowsMount
  BY DEF RestoreInv, DeviceInv, ClaimInv
<1>f. \A u \in Volumes : failed'[u] = {} => failed[u] = {}
  BY <1>0, FailedGrows
<1>1. CASE UNCHANGED vars
  <2>1. \A d \in Containers : Claims(d)' = Claims(d)
    BY <1>1 DEF vars, Claims
  <2>2. \A v \in Volumes : Remembered(v)' <=> Remembered(v)
    BY <1>1, <2>1 DEF vars, Remembered, Unmounts
  <2> QED
    BY <1>0, <1>1, <2>2 DEF vars, Answerable, Unmounts, Flags
<1>2. CASE ~UNCHANGED vars
  <2>1. PICK c \in Containers :
           /\ \/ BeginCreate(c) \/ Look(c) \/ ClearAutoclear(c) \/ Unmount(c) \/ Save(c)
              \/ Start(c) \/ Stop(c)
              \/ BeginDelete(c) \/ Restore(c) \/ SetAutoclear(c) \/ Remove(c)
           /\ \A d \in Containers \ {c} :
                /\ pc'[d] = pc[d] /\ i'[d] = i[d] /\ args'[d] = args[d]
                /\ cleared'[d] = cleared[d]
    BY <1>0, <1>2, OneActor, Zenon
  <2> SUFFICES ASSUME NEW v \in Volumes, failed'[v] = {}
               PROVE  /\ mounted'[v] \/ Remembered(v)'
                      /\ v \in Loops /\ mounted'[v] /\ ~autoclear'[v] =>
                           \E d \in Containers :
                                (Unmounts(d, v)' /\ cleared'[d]) \/ Flags(d, v)'
    BY DEF Answerable
  <2>2. failed[v] = {}
    BY <1>f
  \* A command that answers for v no longer when it fails has failed on v.
  <2>3. ASSUME UNCHANGED <<mounted, autoclear>>,
               \A k \in Claims(c) : args[c][k].vol # v, ~Unmounts(c, v), ~Flags(c, v)
        PROVE  /\ mounted'[v] \/ Remembered(v)'
               /\ v \in Loops /\ mounted'[v] /\ ~autoclear'[v] =>
                    \E d \in Containers : (Unmounts(d, v)' /\ cleared'[d]) \/ Flags(d, v)'
    BY <1>0, <1>f, <2>1, <2>3, KeepAnswers
  <2>4. ASSUME UNCHANGED <<mounted, autoclear>>, v \notin Recorded(c), ~Unmounts(c, v)
        PROVE  /\ mounted'[v] \/ Remembered(v)'
               /\ v \in Loops /\ mounted'[v] /\ ~autoclear'[v] =>
                    \E d \in Containers : (Unmounts(d, v)' /\ cleared'[d]) \/ Flags(d, v)'
    <3>1. \A k \in Claims(c) : args[c][k].vol # v
      BY <2>4 DEF Claims, Recorded
    <3>2. ~Flags(c, v)
      BY <1>0, <2>4 DEF Flags, Recorded, InRange
    <3> QED
      BY <2>3, <2>4, <3>1, <3>2
  \* A step inside a command, or between two.
  <2>5. ASSUME UNCHANGED <<mounted, autoclear, args>>, pc[c] \notin {"unmount", "flag"},
               \A k \in Claims(c) : args[c][k].vol = v => k \in Claims(c)'
        PROVE  /\ mounted'[v] \/ Remembered(v)'
               /\ v \in Loops /\ mounted'[v] /\ ~autoclear'[v] =>
                    \E d \in Containers : (Unmounts(d, v)' /\ cleared'[d]) \/ Flags(d, v)'
    <3>1. ~Unmounts(c, v) /\ ~Flags(c, v)
      BY <2>5 DEF Unmounts, Flags
    <3> QED
      BY <1>0, <1>f, <2>1, <2>5, <3>1, KeepAnswers
  <2>6. CASE CreateFails(c)
    <3>1. v \notin Named(c)
      BY <2>2, <2>6 DEF CreateFails, Fail
    <3>2. v \notin Recorded(c)
      BY <1>0, <3>1 DEF RecordedNamed
    <3>3. ~Unmounts(c, v)
      BY <1>0, <3>1 DEF Unmounts, InRange, Named
    <3> QED
      BY <2>4, <2>6, <3>2, <3>3 DEF CreateFails
  <2>7. CASE BeginCreate(c) \/ Look(c) \/ (Save(c) /\ ~CreateFails(c)) \/ Start(c) \/ Stop(c)
    <3>1. /\ UNCHANGED <<mounted, autoclear, args>>
          /\ pc[c] \in {"idle", "look", "save", "created", "running"}
          /\ pc'[c] \in {"look", "clear", "save", "created", "running", "stopped"}
      BY <1>0, <2>7 DEF BeginCreate, Look, Save, Start, Stop, Goto, TypeOK
    <3>2. \A k \in Claims(c) : args[c][k].vol = v => k \in Claims(c)'
      BY <3>1 DEF Claims
    <3> QED
      BY <2>5, <3>1, <3>2
  <2>8. CASE BeginDelete(c)
    <3>1. /\ UNCHANGED <<mounted, autoclear, args>> /\ pc[c] = "stopped" /\ i'[c] = 1
          /\ \/ pc'[c] = "restore"
             \/ Fail(Recorded(c), "restore")
      BY <1>0, <2>8 DEF BeginDelete, Goto, TypeOK
    <3>2. CASE pc'[c] = "restore"
      <4>1. \A k \in DOMAIN args[c] : k >= 1
        BY <1>0 DEF TypeOK
      <4>2. \A k \in Claims(c) : args[c][k].vol = v => k \in Claims(c)'
        BY <3>1, <3>2, <4>1 DEF Claims
      <4> QED
        BY <2>5, <3>1, <4>2
    <3>3. CASE Fail(Recorded(c), "restore")
      <4>1. v \notin Recorded(c) /\ ~Unmounts(c, v)
        BY <3>1, <3>3 DEF Fail, Unmounts
      <4> QED
        BY <2>4, <3>1, <4>1
    <3> QED
      BY <3>1, <3>2, <3>3
  <2>9. CASE Remove(c)
    <3>1. UNCHANGED <<mounted, autoclear>> /\ pc[c] = "remove"
      BY <2>9 DEF Remove
    <3>2. Claims(c) = {} /\ ~Unmounts(c, v) /\ ~Flags(c, v)
      BY <3>1 DEF Claims, Unmounts, Flags
    <3> QED
      BY <2>3, <3>1, <3>2
  <2>10. CASE ClearAutoclear(c) /\ ~CreateFails(c)
    <3> DEFINE w == Mounts[c][i[c]]
    <3>1. /\ pc[c] = "clear" /\ pc' = [pc EXCEPT ![c] = "unmount"]
          /\ cleared' = [cleared EXCEPT ![c] = autoclear[w]]
          /\ autoclear' = [autoclear EXCEPT ![w] = FALSE]
          /\ UNCHANGED <<mounted, i, args, failed>>
      BY <2>10 DEF ClearAutoclear, Goto
    <3>2. Claims(c)' = Claims(c)
      BY <1>0, <3>1 DEF Claims, TypeOK
    <3>3. ~Unmounts(c, v) /\ ~Flags(c, v)
      BY <3>1 DEF Unmounts, Flags
    <3>4. CASE autoclear'[v] = autoclear[v]
      BY <1>0, <1>f, <2>1, <3>1, <3>2, <3>3, <3>4, KeepAnswers
    <3>5. CASE autoclear'[v] # autoclear[v]
      <4>1. v = w /\ autoclear[v] = TRUE
        BY <1>0, <3>1, <3>5 DEF TypeOK
      <4>2. mounted'[v]
        BY <1>0, <3>1, <4>1 DEF FlagFollowsMount
      <4>3. Unmounts(c, v)' /\ cleared'[c]
        BY <1>0, <3>1, <4>1 DEF Unmounts, TypeOK
      <4> QED
        BY <4>2, <4>3
    <3> QED
      BY <3>4, <3>5
  <2>11. CASE Unmount(c) /\ ~CreateFails(c)
    <3> DEFINE w == Mounts[c][i[c]]
               b == [vol |-> w, clear |-> cleared[c]]
               n == Len(args[c]) + 1
    <3>1. /\ pc[c] = "unmount" /\ pc' = [pc EXCEPT ![c] = "look"] /\ mounted[w]
          /\ mounted' = [mounted EXCEPT ![w] = FALSE] /\ autoclear' = autoclear
          /\ args' = [args EXCEPT ![c] = Append(@, b)] /\ UNCHANGED <<cleared, failed>>
      BY <2>11 DEF Unmount, Goto
    <3>2. w \in Volumes /\ b \in BlockArg /\ args[c] \in Seq(BlockArg)
      <4>1. w \in Volumes /\ cleared[c] \in BOOLEAN /\ args[c] \in Seq(BlockArg)
        BY <1>0, <3>1, VolumesAssumption DEF InRange, TypeOK
      <4> QED
        BY <4>1 DEF BlockArg
    <3>3. args'[c] = Append(args[c], b) /\ pc'[c] = "look"
      BY <1>0, <3>1 DEF TypeOK
    <3>4. /\ DOMAIN args'[c] = DOMAIN args[c] \cup {n} /\ args'[c][n] = b
          /\ \A k \in DOMAIN args[c] : args'[c][k] = args[c][k]
      BY <3>2, <3>3
    <3>5. CASE v = w
      <4>1. ~mounted'[v]
        BY <1>0, <3>1, <3>2, <3>5 DEF TypeOK
      <4>2. n \in Claims(c)'
        BY <2>2, <3>1, <3>3, <3>4, <3>5 DEF Claims
      <4>3. v \in Loops => cleared[c] \/ \E d \in Containers \ {c} : Unmounts(d, v)'
        <5> SUFFICES ASSUME v \in Loops, ~cleared[c]
                     PROVE  \E d \in Containers \ {c} : Unmounts(d, v)'
          OBVIOUS
        <5>1. Unmounts(c, v) /\ ~autoclear[v]
          BY <1>0, <3>1, <3>5 DEF Unmounts, FlagFollowsMount
        <5>2. PICK d \in Containers : (Unmounts(d, v) /\ cleared[d]) \/ Flags(d, v)
          BY <1>0, <2>2, <3>1, <3>5, <5>1 DEF Answerable
        <5>3. ~Flags(d, v)
          <6> SUFFICES ASSUME Flags(d, v) PROVE FALSE
            OBVIOUS
          <6>1. pc[d] \in DeletePcs /\ v \in Recorded(d)
            BY <1>0 DEF Flags, DeletePcs, Recorded, InRange
          <6> QED
            BY <1>0, <5>1, <6>1, Apart
        <5>4. d # c /\ Unmounts(d, v)
          BY <5>2, <5>3
        <5> QED
          BY <2>1, <5>4 DEF Unmounts
      <4>4. Remembered(v)'
        BY <3>4, <3>5, <4>2, <4>3 DEF Remembered
      <4> QED
        BY <4>1, <4>4
    <3>6. CASE v # w
      <4>1. mounted'[v] = mounted[v]
        BY <1>0, <3>1, <3>6 DEF TypeOK
      <4>2. \A k \in Claims(c) : k \in Claims(c)' /\ args'[c][k] = args[c][k]
        BY <3>1, <3>3, <3>4 DEF Claims
      <4>3. ~Unmounts(c, v) /\ ~Flags(c, v)
        BY <3>1, <3>6 DEF Unmounts, Flags
      <4> QED
        BY <1>0, <1>f, <2>1, <3>1, <4>1, <4>2, <4>3, KeepAnswers
    <3> QED
      BY <3>5, <3>6
  <2>12. CASE Restore(c)
    <3> DEFINE n == i[c]
               b == args[c][n]
    <3>1. /\ pc[c] = "restore" /\ UNCHANGED <<autoclear, args, cleared>>
          /\ ~Unmounts(c, v) /\ ~Flags(c, v)
      BY <2>12 DEF Restore, Unmounts, Flags
    <3>2. n \in Nat /\ \A k \in DOMAIN args[c] : k \in Nat /\ k <= Len(args[c])
      BY <1>0 DEF TypeOK, Positions
    <3>3. CASE n > Len(args[c]) /\ mounted' = mounted
      <4>1. Claims(c) = {}
        BY <3>1, <3>2, <3>3 DEF Claims
      <4> QED
        BY <2>3, <3>1, <3>3, <4>1
    <3>4. CASE Fail(Recorded(c), "restore") /\ mounted' = mounted
      <4>1. v \notin Recorded(c)
        BY <3>4 DEF Fail
      <4> QED
        BY <2>4, <3>1, <3>4, <4>1
    <3>5. CASE n <= Len(args[c]) /\ mounted[b.vol] /\ Advance(c) /\ UNCHANGED <<mounted, pc, failed>>
      <4>1. i'[c] = n + 1
        BY <1>0, <3>5 DEF Advance, TypeOK
      <4>2. n \notin Claims(c)
        BY <1>0, <3>5 DEF ClaimedOnce
      <4>3. \A k \in Claims(c) : k \in Claims(c)'
        BY <3>1, <3>2, <3>5, <4>1, <4>2 DEF Claims
      <4> QED
        BY <2>5, <3>1, <3>5, <4>3
    <3>6. CASE /\ n <= Len(args[c]) /\ ~mounted[b.vol]
               /\ mounted' = [mounted EXCEPT ![b.vol] = TRUE] /\ failed' = failed
               /\ IF b.clear THEN Goto(c, "flag") /\ UNCHANGED i ELSE Advance(c) /\ UNCHANGED pc
      <4>1. n \in DOMAIN args[c] /\ b.vol \in Volumes
        <5>1. n \in DOMAIN args[c]
          BY <1>0, <3>2, <3>6 DEF TypeOK, Positions
        <5> QED
          BY <1>0, <5>1, ListedVolumes
      <4>2. \/ b.clear /\ pc'[c] = "flag" /\ i'[c] = n
            \/ pc'[c] = "restore" /\ i'[c] = n + 1 /\ ~b.clear
        BY <1>0, <3>1, <3>6 DEF Goto, Advance, TypeOK
      <4>3. CASE v = b.vol
        <5>1. mounted'[v]
          BY <1>0, <3>6, <4>3 DEF TypeOK
        <5>2. v \in Loops => b.clear
          <6> SUFFICES ASSUME v \in Loops PROVE b.clear
            OBVIOUS
          <6>1. n \in Claims(c)
            BY <2>2, <3>1, <3>2, <4>1, <4>3 DEF Claims
          <6>2. PICK d \in Containers : \E k \in Claims(d) :
                    /\ args[d][k].vol = v
                    /\ args[d][k].clear \/ \E e \in Containers \ {d} : Unmounts(e, v)
            BY <1>0, <2>2, <3>6, <4>3 DEF Answerable, Remembered
          <6>3. PICK k \in Claims(d) :
                    /\ args[d][k].vol = v
                    /\ args[d][k].clear \/ \E e \in Containers \ {d} : Unmounts(e, v)
            BY <6>2
          <6>4. d = c /\ k = n
            BY <1>0, <4>3, <6>1, <6>3 DEF ClaimedOnce
          <6>5. pc[c] \in DeletePcs /\ v \in Recorded(c)
            BY <3>1, <4>1, <4>3 DEF DeletePcs, Recorded
          <6> QED
            BY <1>0, <6>3, <6>4, <6>5, Apart
        <5>3. b.clear => Flags(c, v)'
          BY <3>1, <4>2, <4>3 DEF Flags
        <5> QED
          BY <5>1, <5>2, <5>3
      <4>4. CASE v # b.vol
        <5>1. mounted'[v] = mounted[v]
          BY <1>0, <3>6, <4>4 DEF TypeOK
        <5>2. \A k \in Claims(c) : args[c][k].vol = v => k \in Claims(c)'
          BY <3>1, <3>2, <3>6, <4>2, <4>4 DEF Claims
        <5> QED
          BY <1>0, <1>f, <2>1, <3>1, <5>1, <5>2, KeepAnswers
      <4> QED
        BY <4>3, <4>4
    <3> QED
      BY <2>12, <3>3, <3>4, <3>5, <3>6 DEF Restore
  <2>13. CASE SetAutoclear(c)
    <3> DEFINE n == i[c]
               w == args[c][n].vol
    <3>1. pc[c] = "flag" /\ UNCHANGED <<mounted, args, cleared>>
      BY <2>13 DEF SetAutoclear
    <3>2. n \in Nat /\ \A k \in DOMAIN args[c] : k \in Nat
      BY <1>0 DEF TypeOK, Positions
    <3>3. CASE Fail(Recorded(c), "restore") /\ autoclear' = autoclear
      <4>1. v \notin Recorded(c) /\ ~Unmounts(c, v)
        BY <3>1, <3>3 DEF Fail, Unmounts
      <4> QED
        BY <2>4, <3>1, <3>3, <4>1
    <3>4. CASE /\ autoclear' = [autoclear EXCEPT ![w] = TRUE]
               /\ Goto(c, "restore") /\ Advance(c) /\ failed' = failed
      <4>1. pc'[c] = "restore" /\ i'[c] = n + 1
        BY <1>0, <3>4 DEF Goto, Advance, TypeOK
      <4>2. CASE v = w
        <5>1. mounted'[v] /\ autoclear'[v]
          BY <1>0, <3>1, <3>4, <4>2 DEF FlagFollowsMount, Flags, TypeOK
        <5> QED
          BY <5>1
      <4>3. CASE v # w
        <5>1. autoclear'[v] = autoclear[v]
          BY <1>0, <3>4, <4>3 DEF TypeOK
        <5>2. \A k \in Claims(c) : k \in Claims(c)'
          BY <3>1, <3>2, <3>4, <4>1 DEF Claims
        <5>3. ~Unmounts(c, v) /\ ~Flags(c, v)
          BY <3>1, <4>3 DEF Unmounts, Flags
        <5> QED
          BY <1>0, <1>f, <2>1, <3>1, <5>1, <5>2, <5>3, KeepAnswers
      <4> QED
        BY <4>2, <4>3
    <3> QED
      BY <2>13, <3>3, <3>4 DEF SetAutoclear
  <2> QED
    BY <2>1, <2>6, <2>7, <2>8, <2>9, <2>10, <2>11, <2>12, <2>13 DEF ClearAutoclear, Unmount, Save
<1> QED
  BY <1>1, <1>2

\* restoreBlockVolumes leaves a volume that no container uses mounted, with its
\* device and with the autoclear flag that getBlockVolumes found, after any
\* number of creates and deletes of which none failed on it, as long as no delete
\* overlaps a create on a common volume.
THEOREM VolumesRestored == ASSUME "delete" \notin Overlap PROVE Spec => []RestoredAsFound
<1>1. Init => RestoreInv
  <2> SUFFICES ASSUME Init PROVE RestoreInv
    OBVIOUS
  <2>1. DeviceInv
    BY DevicesInvariant
  <2>2. OnlyLoops
    <3>1. \A v \in Volumes : autoclear[v] => v \in Loops
      BY Zenon DEF Init
    <3> QED
      BY <3>1 DEF Init, OnlyLoops
  <2>3. Answerable
    BY DEF Init, Answerable
  <2> QED
    BY <2>1, <2>2, <2>3 DEF RestoreInv
<1>2. RestoreInv /\ [Next]_vars => RestoreInv'
  <2> SUFFICES ASSUME RestoreInv, [Next]_vars PROVE RestoreInv'
    OBVIOUS
  <2>1. DeviceInv'
    BY DevicesInvariant DEF RestoreInv
  <2>2. OnlyLoops'
    BY LoopsStep DEF RestoreInv
  <2>3. Answerable'
    BY <2>1, AnswerStep DEF DeviceInv, ClaimInv
  <2> QED
    BY <2>1, <2>2, <2>3 DEF RestoreInv
<1>3. RestoreInv => RestoredAsFound
  <2> SUFFICES ASSUME RestoreInv, NEW v \in Volumes, Unclaimed(v), failed[v] = {}
               PROVE  mounted[v] /\ dev[v] /\ (autoclear[v] <=> v \in Loops)
    BY DEF RestoredAsFound
  <2>0. TypeOK /\ InRange /\ RecordedNamed
    BY DEF RestoreInv, DeviceInv, ClaimInv
  <2>1. \A c \in Containers : ~Unmounts(c, v) /\ ~Flags(c, v)
    <3> SUFFICES ASSUME NEW c \in Containers, Unmounts(c, v) \/ Flags(c, v) PROVE FALSE
      OBVIOUS
    <3>1. v \in Named(c)
      BY <2>0 DEF Unmounts, Flags, InRange, Named, RecordedNamed, Recorded
    <3> QED
      BY <3>1 DEF Unclaimed, Unmounts, Flags
  <2>2. ~Remembered(v)
    <3>1. \A c \in Containers : \A k \in Claims(c) : args[c][k].vol # v
      BY <2>0 DEF Claims, Unclaimed, RecordedNamed, Recorded
    <3> QED
      BY <3>1 DEF Remembered
  <2>3. mounted[v] /\ (v \in Loops => autoclear[v])
    BY <2>1, <2>2 DEF RestoreInv, Answerable
  <2>4. autoclear[v] => v \in Loops
    BY DEF RestoreInv, OnlyLoops
  <2>5. dev[v]
    BY DEF RestoreInv, DeviceInv, DevicesStay
  <2> QED
    BY <2>3, <2>4, <2>5
<1> QED
  BY <1>1, <1>2, <1>3, PTL DEF Spec

\* The variables of the model of getBlockVolumes, restoreBlockVolumes and
\* setLoopAutoclear keep their types, whatever overlaps and whatever fails.
THEOREM VolumesTyped == Spec => []TypeOK
<1>1. Init => TypeOK /\ InRange
  <2> SUFFICES ASSUME Init PROVE TypeOK /\ InRange
    OBVIOUS
  <2>1. TypeOK
    BY DEF Init, TypeOK, Pcs, Positions
  <2>2. InRange
    BY DEF Init, InRange
  <2> QED
    BY <2>1, <2>2
<1>2. TypeOK /\ InRange /\ [Next]_vars => TypeOK' /\ InRange'
  BY TypeStep
<1> QED
  BY <1>1, <1>2, PTL DEF Spec
=============================================================================
