---------------------------- MODULE PrepareProofs ----------------------------
(***************************************************************************)
(* Proofs about Prepare, for all images, annotations, hosts and contents of*)
(* config.toml, and however often the container is created on a snapshot.  *)
(***************************************************************************)
EXTENDS Prepare, SequenceTheorems, TLAPS

-----------------------------------------------------------------------------
(* The boot files.                                                         *)

Has(s, f) == \E k \in DOMAIN s : s[k] = f
BootNames == {Conf.binary, Conf.initrd, "urunc.json"}

\* A file that create is taking out of the snapshot is on the list or copied.
OnItsWay(f) == f \in monfs \/ Has(moving, f)

\* Until create unmounts the snapshot it is mounted; while files are moved,
\* each is in the bundle or still to be moved, and removed once copied.
BootInv ==
    /\ BootFilesSurvive
    /\ pc \in {"shim", "load", "new", "choose", "mountfiles", "copy", "remove", "runc"} => mounted
    /\ pc \in {"mountfiles", "copy", "remove"} =>
         moving \in Seq(BootNames) /\ \A f \in BootNames \ {""} : OnItsWay(f)
    /\ pc = "remove" => moving # <<>> /\ Head(moving) \in monfs

\* What is left of a list without its first entry.
LEMMA Rest ==
    ASSUME NEW S, NEW s \in Seq(S), s # <<>>
    PROVE  /\ Tail(s) \in Seq(S)
           /\ \A k \in DOMAIN s :
                s[k] = Head(s) \/ (k - 1 \in DOMAIN Tail(s) /\ Tail(s)[k - 1] = s[k])
<1>1. /\ Tail(s) \in Seq(S) /\ Len(Tail(s)) = Len(s) - 1 /\ Len(s) \in Nat
      /\ \A k \in 1..Len(Tail(s)) : Tail(s)[k] = s[k + 1]
      /\ Head(s) = s[1]
  BY HeadTailProperties
<1>2. DOMAIN Tail(s) = 1..(Len(s) - 1)
  BY <1>1
<1>3. ASSUME NEW k \in DOMAIN s, s[k] # Head(s)
      PROVE  k - 1 \in DOMAIN Tail(s) /\ Tail(s)[k - 1] = s[k]
  <2>1. k \in 1..Len(s) /\ k # 1
    BY <1>1, <1>3
  <2>2. k - 1 \in 1..(Len(s) - 1) /\ (k - 1) + 1 = k
    BY <1>1, <2>1
  <2> QED
    BY <1>1, <1>2, <2>2
<1> QED
  BY <1>1, <1>3

\* The entries of two lists are those of their concatenation.
LEMMA Joined ==
    ASSUME NEW S, NEW s \in Seq(S), NEW t \in Seq(S), NEW f, Has(s, f) \/ Has(t, f)
    PROVE  Has(s \o t, f)
<1>1. /\ Len(s) \in Nat /\ Len(t) \in Nat
      /\ DOMAIN s = 1..Len(s) /\ DOMAIN t = 1..Len(t)
      /\ DOMAIN (s \o t) = 1..(Len(s) + Len(t))
      /\ \A k \in 1..(Len(s) + Len(t)) : (s \o t)[k] = IF k <= Len(s) THEN s[k] ELSE t[k - Len(s)]
  BY ConcatProperties, LenProperties
<1>2. ASSUME NEW k \in DOMAIN s, s[k] = f PROVE Has(s \o t, f)
  <2>1. k \in 1..(Len(s) + Len(t)) /\ k <= Len(s)
    BY <1>1
  <2> QED
    BY <1>1, <1>2, <2>1 DEF Has
<1>3. ASSUME NEW k \in DOMAIN t, t[k] = f PROVE Has(s \o t, f)
  <2>1. /\ Len(s) + k \in 1..(Len(s) + Len(t)) /\ ~(Len(s) + k <= Len(s))
        /\ (Len(s) + k) - Len(s) = k
    BY <1>1
  <2> QED
    BY <1>1, <1>3, <2>1 DEF Has
<1> QED
  BY <1>2, <1>3 DEF Has

\* extractBootFiles goes through every boot file that is set.
LEMMA BootFilesAll ==
    ASSUME NEW c
    PROVE  /\ BootFiles(c) \in Seq({c.binary, c.initrd, "urunc.json"})
           /\ Has(BootFiles(c), c.binary)
           /\ c.initrd # "" => Has(BootFiles(c), c.initrd)
           /\ Has(BootFiles(c), "urunc.json")
<1> DEFINE S == {c.binary, c.initrd, "urunc.json"}
           b == <<c.binary>>
           i == IfSet(c.initrd)
           u == <<"urunc.json">>
<1>1. ASSUME NEW f \in S PROVE IfSet(f) \in Seq(S) /\ (f # "" => Has(IfSet(f), f))
  <2>1. <<>> \in Seq(S) /\ <<f>> \in Seq(S) /\ Has(<<f>>, f)
    BY DEF Has
  <2> QED
    BY <2>1 DEF IfSet
<1>2. u \in Seq(S) /\ Has(u, "urunc.json") /\ b \in Seq(S) /\ Has(b, c.binary)
  BY DEF Has
<1>3. c.initrd \in S
  OBVIOUS
<1>4. BootFiles(c) = (b \o i) \o u
  BY DEF BootFiles
<1> HIDE DEF S
<1>5. i \in Seq(S)
  BY <1>1, <1>3
<1>6. c.initrd # "" => Has(i, c.initrd)
  BY <1>1, <1>3
<1> HIDE DEF b, i, u
<1>7. b \o i \in Seq(S) /\ (b \o i) \o u \in Seq(S)
  BY <1>2, <1>5, ConcatProperties
<1>8. \A f : Has(b, f) \/ Has(i, f) => Has(b \o i, f)
  BY <1>2, <1>5, Joined
<1>9. \A f : Has(b \o i, f) \/ Has(u, f) => Has((b \o i) \o u, f)
  BY <1>2, <1>7, Joined
<1> QED
  BY <1>2, <1>4, <1>6, <1>7, <1>8, <1>9 DEF S

\* The steps that touch neither the files nor the configuration.
LEMMA BootInvQuiet ==
    ASSUME BootInv, UNCHANGED <<snap, mounted, monfs, had, conf>>,
           pc' \in {"load", "new", "choose", "runc"} => mounted,
           pc' \notin {"shim", "mountfiles", "copy", "remove"}
    PROVE  BootInv'
BY DEF BootInv, BootFilesSurvive, Conf, GetConfigFromSpec, Value, Keys

\* The invariant holds when the engine calls the shim for the first time.
LEMMA BootInvInit == Init => BootInv
BY DEF Init, BootInv, BootFilesSurvive

\* Every step keeps it.
LEMMA BootInvNext == BootInv /\ [Next]_vars => BootInv'
<1> SUFFICES ASSUME BootInv, [Next]_vars PROVE BootInv'
  OBVIOUS
<1> USE DEF Goto, given, bundle, memory, records
<1>0. CASE UNCHANGED vars
  BY <1>0 DEF vars, BootInv, BootFilesSurvive, BootNames, OnItsWay, Has, Conf
<1>1. CASE EditConfig
  BY <1>1 DEF EditConfig, BootInv, BootFilesSurvive, BootNames, OnItsWay, Has, Conf
<1>2. CASE InjectUruncAnnotations
  BY <1>2, BootInvQuiet DEF InjectUruncAnnotations, BootInv
<1>3. CASE InjectFails
  BY <1>3, BootInvQuiet DEF InjectFails, BootInv
<1>4. CASE LoadConfig
  BY <1>4, BootInvQuiet DEF LoadConfig, BootInv
<1>5. CASE NewHandsOver
  BY <1>5, BootInvQuiet DEF NewHandsOver, BootInv
<1>6. CASE New
  <2>1. /\ pc = "new" /\ pc' \in {"choose", "failed"}
        /\ UNCHANGED <<snap, mounted, monfs, had>>
    BY <1>6 DEF New
  <2> QED
    BY <2>1 DEF BootInv, BootFilesSurvive
<1>7. CASE Choose
  <2>1. /\ pc = "choose" /\ UNCHANGED <<snap, mounted, monfs, had, conf>>
        /\ pc' \in {"failed", "gather"} \/ (pc' = "mountfiles" /\ moving' = BootFiles(Conf))
    BY <1>7 DEF Choose
  <2>2. mounted
    BY <2>1 DEF BootInv
  <2>3. CASE pc' \in {"failed", "gather"}
    BY <2>1, <2>2, <2>3, BootInvQuiet
  <2>4. CASE pc' = "mountfiles" /\ moving' = BootFiles(Conf)
    <3>1. /\ moving' \in Seq(BootNames)
          /\ \A f \in BootNames \ {""} : Has(moving', f)
      <4>1. /\ moving' \in Seq(BootNames)
            /\ Has(moving', Conf.binary)
            /\ Conf.initrd # "" => Has(moving', Conf.initrd)
            /\ Has(moving', "urunc.json")
        BY <2>4, BootFilesAll DEF BootNames
      <4> QED
        BY <4>1 DEF BootNames
    <3>2. BootNames' = BootNames
      BY <2>1 DEF BootNames, Conf
    <3> QED
      BY <2>1, <2>2, <2>4, <3>1, <3>2 DEF BootInv, BootFilesSurvive, OnItsWay, Has
  <2> QED
    BY <2>1, <2>3, <2>4
<1>8. CASE CopyMountFiles
  <2>1. BootNames' = BootNames
    BY <1>8 DEF CopyMountFiles, BootNames, Conf
  <2> QED
    BY <1>8, <2>1 DEF CopyMountFiles, BootInv, BootFilesSurvive, OnItsWay, Has
<1>9. CASE CopyBootFile
  <2>1. /\ pc = "copy" /\ moving # <<>> /\ UNCHANGED <<snap, mounted, had, conf, moving>>
        /\ \/ pc' = "remove" /\ monfs' = monfs \cup {Head(moving)}
           \/ pc' = "failed" /\ monfs' = monfs
    BY <1>9 DEF CopyBootFile
  <2>2. BootNames' = BootNames
    BY <2>1 DEF BootNames, Conf
  <2> QED
    BY <2>1, <2>2 DEF BootInv, BootFilesSurvive, OnItsWay, Has
<1>10. CASE RemoveBootFile
  <2>1. /\ pc = "remove" /\ pc' = "copy" /\ UNCHANGED <<mounted, monfs, had, conf>>
        /\ snap' = snap \ {Head(moving)} /\ moving' = Tail(moving)
    BY <1>10 DEF RemoveBootFile
  <2>2. /\ mounted /\ moving \in Seq(BootNames) /\ moving # <<>> /\ Head(moving) \in monfs
        /\ had \subseteq snap \cup monfs
        /\ \A f \in BootNames \ {""} : OnItsWay(f)
    BY <2>1 DEF BootInv, BootFilesSurvive
  <2>3. BootNames' = BootNames
    BY <2>1 DEF BootNames, Conf
  <2>4. had' \subseteq snap' \cup monfs'
    BY <2>1, <2>2
  <2>5. /\ moving' \in Seq(BootNames)
        /\ \A k \in DOMAIN moving :
             moving[k] = Head(moving) \/ (k - 1 \in DOMAIN moving' /\ moving'[k - 1] = moving[k])
    BY <2>1, <2>2, Rest
  <2>6. ASSUME NEW f \in BootNames \ {""} PROVE OnItsWay(f)'
    <3>1. CASE f \in monfs
      BY <2>1, <3>1 DEF OnItsWay, Has
    <3>2. ASSUME NEW k \in DOMAIN moving, moving[k] = f, f \notin monfs PROVE OnItsWay(f)'
      <4>1. k - 1 \in DOMAIN moving' /\ moving'[k - 1] = f
        BY <2>2, <2>5, <3>2
      <4> QED
        BY <4>1 DEF OnItsWay, Has
    <3> QED
      BY <2>2, <3>1, <3>2 DEF OnItsWay, Has
  <2> QED
    BY <2>1, <2>2, <2>3, <2>4, <2>5, <2>6 DEF BootInv, BootFilesSurvive
<1>11. CASE UnmountRootfs
  <2>1. /\ pc = "copy" /\ moving = <<>> /\ pc' = "gather" /\ UNCHANGED <<snap, monfs, had, conf>>
    BY <1>11 DEF UnmountRootfs
  <2>2. DOMAIN moving = {}
    BY <2>1
  <2>3. BootNames \ {""} \subseteq monfs
    BY <2>1, <2>2 DEF BootInv, OnItsWay, Has
  <2> QED
    BY <2>1, <2>3 DEF BootInv, BootFilesSurvive, BootNames, Conf
<1>12. CASE SaveMonitorResources
  BY <1>12, BootInvQuiet DEF SaveMonitorResources
<1>13. CASE WriteMonitorSpec
  BY <1>13, BootInvQuiet DEF WriteMonitorSpec
<1>14. CASE SaveContainerState
  BY <1>14, BootInvQuiet DEF SaveContainerState
<1>15. CASE CreateFails
  BY <1>15, BootInvQuiet DEF CreateFails
<1>16. CASE Exec
  BY <1>16, BootInvQuiet DEF Exec
<1>17. CASE CreateAgain
  BY <1>17 DEF CreateAgain, BootInv, BootFilesSurvive
<1> QED
  BY <1>0, <1>1, <1>2, <1>3, <1>4, <1>5, <1>6, <1>7, <1>8, <1>9, <1>10, <1>11, <1>12, <1>13,
     <1>14, <1>15, <1>16, <1>17
  DEF Next

\* moveFile's copy before its removal is enough: wherever create fails or is
\* killed in extractBootFiles, no file of the snapshot is lost, and it is
\* unmounted only with all boot files in the bundle.
THEOREM BootFilesKept == Spec => []BootFilesSurvive
<1>1. BootInv => BootFilesSurvive
  BY DEF BootInv
<1> QED
  BY <1>1, BootInvInit, BootInvNext, PTL DEF Spec

-----------------------------------------------------------------------------
(* The records.                                                            *)

Fields == {"libcontainer", "vAccel", "memory", "virtiofsd"}

\* A configuration as LoadUruncConfig returns it.
IsCfg(c) == c = [f \in Fields |-> c[f]] /\ c["memory"] # "0"
\* A map that has it among its keys.
Carries(m, c) == \A f \in Fields : CfgKey[f] \in DOMAIN m /\ m[CfgKey[f]] = c[f]

\* virtiofsd is never chosen for a monitor that sizes its guests itself.
Sized(p) == p.type = "virtiofs" => Conf.hypervisor # "hyperlight-unikraft"

\* The records agree with create's memory from the moment they are written.
RecordInv ==
    /\ IsCfg(cfg)
    /\ Chosen \/ pc = "choose" => Carries(conf, cfg)
    /\ Chosen => Sized(chosen[1])
    /\ pc \in {"spec", "save", "created", "running"} =>
         /\ monitor[1].rootfs = chosen[1]
         /\ chosen[1].type = "virtiofs" => monitor[1].tmpfs = cfg.memory
    /\ pc \in {"save", "created", "running"} /\ cfg.libcontainer = "true" =>
         mspec = <<BuildMonitorSpec(Conf, cfg, monitor[1])>>
    /\ pc \in {"created", "running"} => state = <<StateAnnotations(conf, annot)>>
    /\ pc = "running" => args = <<BuildMonitorSpec(Conf, cfg, monitor[1])>>

\* LoadUruncConfig puts the default in the place of a zero.
LEMMA LoadedIsCfg == ASSUME NEW file PROVE IsCfg(LoadUruncConfig(file))
<1>1. IsCfg(DefaultConfig) /\ DOMAIN DefaultConfig = Fields
  BY DEF IsCfg, DefaultConfig, Fields
<1>2. CASE ~file.parses
  BY <1>1, <1>2 DEF LoadUruncConfig
<1>3. CASE file.parses
  <2> DEFINE c == [k \in Fields |->
            IF file.values[k] \in {"0", ""} THEN DefaultConfig[k] ELSE file.values[k]]
  <2>1. LoadUruncConfig(file) = c
    BY <1>1, <1>3 DEF LoadUruncConfig
  <2>2. c = [f \in Fields |-> c[f]]
    OBVIOUS
  <2>3. c["memory"] # "0"
    BY DEF Fields, DefaultConfig
  <2> QED
    BY <2>1, <2>2, <2>3 DEF IsCfg
<1> QED
  BY <1>2, <1>3

\* No two fields share a key.
LEMMA KeysApart ==
    /\ DOMAIN CfgKey = Fields
    /\ \A f, g \in Fields : CfgKey[f] = CfgKey[g] => f = g
BY DEF CfgKey, Fields

\* Map and UruncConfigFromMap are inverse, and what else is in the map does not
\* matter.
LEMMA MapCarries == ASSUME NEW c PROVE Carries(UruncConfigMap(c), c)
<1> SUFFICES ASSUME NEW f \in Fields
             PROVE  /\ CfgKey[f] \in DOMAIN UruncConfigMap(c)
                    /\ UruncConfigMap(c)[CfgKey[f]] = c[f]
  BY DEF Carries
<1>1. CfgKey[f] \in CfgKeys
  BY KeysApart DEF CfgKeys
<1>2. (CHOOSE g \in DOMAIN CfgKey : CfgKey[g] = CfgKey[f]) = f
  BY KeysApart
<1> QED
  BY <1>1, <1>2 DEF UruncConfigMap

LEMMA FromMapReads ==
    ASSUME NEW m, NEW c, IsCfg(c), Carries(m, c)
    PROVE  UruncConfigFromMap(m) = c
<1>1. ASSUME NEW f \in Fields
      PROVE  (CfgKey[f] \in DOMAIN m /\ (f = "memory" => m[CfgKey[f]] # "0")) /\ m[CfgKey[f]] = c[f]
  BY DEF IsCfg, Carries
<1>2. UruncConfigFromMap(m) = [f \in Fields |-> c[f]]
  BY <1>1, KeysApart DEF UruncConfigFromMap
<1> QED
  BY <1>2 DEF IsCfg

\* The preferred map keeps all of its keys.
LEMMA PreferCarries ==
    ASSUME NEW m, NEW n, NEW c, Carries(m, c)
    PROVE  Carries(Prefer(m, n), c)
BY DEF Carries, Prefer

\* The annotations that saveContainerState takes over do not change what Get
\* makes of the unikernel's.
LEMMA StateKeepsConf ==
    ASSUME NEW c, NEW a
    PROVE  GetConfigFromSpec(StateAnnotations(c, a)) = GetConfigFromSpec(c)
<1>1. ASSUME NEW k \in Keys PROVE Value(StateAnnotations(c, a), k) = Value(c, k)
  <2>1. k \notin DOMAIN Foreign(a)
    BY DEF Foreign
  <2> QED
    BY <2>1 DEF Value, StateAnnotations, Prefer
<1> QED
  BY <1>1 DEF GetConfigFromSpec

\* A selector that has one answer only.
LEMMA OneAnswer ==
    ASSUME NEW t, NEW x, NEW y, NEW S, S \subseteq {Params(t, x, y)}
    PROVE  \A q \in S : q.type = t
<1>1. Params(t, x, y).type = t
  BY DEF Params
<1> QED
  BY <1>1, Zenon

\* Only a monitor that supports it is given a virtiofs.
LEMMA VirtiofsSized ==
    ASSUME NEW h, NEW p \in ChooseRootfs(Conf, h)
    PROVE  Sized(p)
<1>1. /\ \A q \in TryInitrd(Conf) : q.type # "virtiofs"
      /\ \A q \in TryExplicitBlock(Conf) : q.type # "virtiofs"
      /\ \A q \in TryContainerBlockRootfs(Conf, h) : q.type # "virtiofs"
      /\ \A q \in Try9pfs(Conf) : q.type # "virtiofs"
      /\ \A q \in NoRootfs(Conf) : q.type # "virtiofs"
  <2>2. \A q \in TryInitrd(Conf) : q.type = "initrd"
    <3>1. TryInitrd(Conf) \subseteq {Params("initrd", Conf.initrd, "rootfs")}
      BY Zenon DEF TryInitrd
    <3> QED
      BY <3>1, OneAnswer, Zenon
  <2>3. \A q \in TryExplicitBlock(Conf) : q.type = "block"
    <3>1. TryExplicitBlock(Conf) \subseteq {Params("block", Conf.block, "")}
      BY Zenon DEF TryExplicitBlock
    <3> QED
      BY <3>1, OneAnswer, Zenon
  <2>4. \A q \in TryContainerBlockRootfs(Conf, h) : q.type = "block"
    <3>1. TryContainerBlockRootfs(Conf, h) \subseteq {Params("block", "device", "rootfs")}
      BY Zenon DEF TryContainerBlockRootfs
    <3> QED
      BY <3>1, OneAnswer, Zenon
  <2>5. \A q \in Try9pfs(Conf) : q.type = "9pfs"
    <3>1. Try9pfs(Conf) \subseteq {Params("9pfs", "rootfs", "rootfs")}
      BY Zenon DEF Try9pfs
    <3> QED
      BY <3>1, OneAnswer, Zenon
  <2>6. \A q \in NoRootfs(Conf) : q.type = ""
    <3>1. NoRootfs(Conf) \subseteq {Params("", "", "rootfs")}
      BY Zenon DEF NoRootfs
    <3> QED
      BY <3>1, OneAnswer, Zenon
  <2> QED
    BY <2>2, <2>3, <2>4, <2>5, <2>6
<1>2. "virtio" \notin NewVMM("hyperlight-unikraft").sharedfs
  BY DEF NewVMM, Hyperlight
<1>3. \A q \in TryVirtiofs(Conf, h) : Sized(q)
  BY <1>2 DEF TryVirtiofs, SupportsSharedfs, Sized
<1> QED
  BY <1>1, <1>3 DEF ChooseRootfs, TryContainerRootfs, TryContainerSharedFS, OrElse, Sized

\* What the later commands read is what create had.
LEMMA ReadBack ==
    ASSUME RecordInv, pc \in {"created", "running"}
    PROVE  GetConf = Conf /\ GetCfg = cfg
<1>1. state[1] = StateAnnotations(conf, annot) /\ IsCfg(cfg) /\ Carries(conf, cfg)
  BY DEF RecordInv, Chosen
<1>2. Carries(state[1], cfg)
  BY <1>1, PreferCarries DEF StateAnnotations
<1> QED
  BY <1>1, <1>2, FromMapReads, StateKeepsConf DEF GetConf, GetCfg, Conf

LEMMA RecordInvInit == Init => RecordInv
<1>1. IsCfg(DefaultConfig)
  BY DEF IsCfg, DefaultConfig, Fields
<1> QED
  BY <1>1 DEF Init, RecordInv, Chosen

\* The steps before the choice, and failures.
LEMMA RecordInvQuiet ==
    ASSUME IsCfg(cfg'), ~Chosen', pc' # "choose"
    PROVE  RecordInv'
BY DEF RecordInv, Chosen

\* Every step keeps the agreement.
LEMMA RecordInvNext == RecordInv /\ [Next]_vars => RecordInv'
<1> SUFFICES ASSUME RecordInv, [Next]_vars PROVE RecordInv'
  OBVIOUS
<1> USE DEF Goto, given, bundle, memory, records
<1>c. IsCfg(cfg)
  BY DEF RecordInv
<1>0. CASE UNCHANGED vars
  BY <1>0 DEF vars, RecordInv, Chosen, Sized, Conf
<1>1. CASE EditConfig
  BY <1>1 DEF EditConfig, RecordInv, Chosen, Sized, Conf
<1>2. CASE InjectUruncAnnotations
  BY <1>2, <1>c, RecordInvQuiet DEF InjectUruncAnnotations, Chosen
<1>3. CASE InjectFails
  BY <1>3, <1>c, RecordInvQuiet DEF InjectFails, Chosen
<1>4. CASE LoadConfig
  BY <1>4, LoadedIsCfg, RecordInvQuiet DEF LoadConfig, Chosen
<1>5. CASE NewHandsOver
  BY <1>5, <1>c, RecordInvQuiet DEF NewHandsOver, Chosen
<1>6. CASE New
  <2>1. /\ cfg' = cfg
        /\ \/ pc' = "failed"
           \/ pc' = "choose" /\ \E c : conf' = Prefer(UruncConfigMap(cfg), ConfigMap(c))
    BY <1>6 DEF New
  <2>2. CASE pc' = "failed"
    BY <1>c, <2>1, <2>2, RecordInvQuiet DEF Chosen
  <2>3. ASSUME pc' = "choose", NEW c, conf' = Prefer(UruncConfigMap(cfg), ConfigMap(c))
        PROVE  RecordInv'
    <3>1. Carries(conf', cfg)
      BY <2>3, MapCarries, PreferCarries
    <3>2. IsCfg(cfg') /\ Carries(conf', cfg')
      BY <1>c, <2>1, <3>1
    <3> QED
      BY <2>3, <3>2 DEF RecordInv, Chosen
  <2> QED
    BY <2>1, <2>2, <2>3
<1>7. CASE Choose
  <2>1. /\ pc = "choose" /\ UNCHANGED <<cfg, conf>>
        /\ \/ pc' = "failed"
           \/ \E h \in Looks : \E p \in ChooseRootfs(Conf, h) :
                chosen' = <<p>> /\ pc' \in {"mountfiles", "gather"}
    BY <1>7 DEF Choose
  <2>2. CASE pc' = "failed"
    BY <1>c, <2>1, <2>2, RecordInvQuiet DEF Chosen
  <2>3. ASSUME NEW h \in Looks, NEW p \in ChooseRootfs(Conf, h),
               chosen' = <<p>>, pc' \in {"mountfiles", "gather"}
        PROVE  RecordInv'
    <3>1. Sized(p)
      BY VirtiofsSized
    <3>2. Sized(chosen[1])'
      BY <2>1, <2>3, <3>1 DEF Sized, Conf
    <3> QED
      BY <2>1, <2>3, <3>2 DEF RecordInv, Chosen
  <2> QED
    BY <2>1, <2>2, <2>3
<1>8. CASE CopyMountFiles
  BY <1>8 DEF CopyMountFiles, RecordInv, Chosen, Sized, Conf
<1>9. CASE CopyBootFile
  BY <1>9 DEF CopyBootFile, RecordInv, Chosen, Sized, Conf
<1>10. CASE RemoveBootFile
  BY <1>10 DEF RemoveBootFile, RecordInv, Chosen, Sized, Conf
<1>11. CASE UnmountRootfs
  BY <1>11 DEF UnmountRootfs, RecordInv, Chosen, Sized, Conf
<1>12. CASE SaveMonitorResources
  <2>1. /\ pc = "gather" /\ UNCHANGED <<cfg, conf, chosen>>
        /\ \/ pc' = "failed"
           \/ /\ pc' = "spec"
              /\ monitor' = <<GetMonitorResources(chosen[1], Conf, host, cfg.memory)>>
    BY <1>12 DEF SaveMonitorResources
  <2>2. CASE pc' = "failed"
    BY <1>c, <2>1, <2>2, RecordInvQuiet DEF Chosen
  <2>3. CASE pc' = "spec" /\ monitor' = <<GetMonitorResources(chosen[1], Conf, host, cfg.memory)>>
    <3>1. /\ monitor'[1].rootfs = chosen[1]
          /\ chosen[1].type = "virtiofs" => monitor'[1].tmpfs = cfg.memory
      BY <2>3 DEF GetMonitorResources, TmpfsSize
    <3> QED
      BY <2>1, <2>3, <3>1 DEF RecordInv, Chosen, Sized, Conf
  <2> QED
    BY <2>1, <2>2, <2>3
<1>13. CASE WriteMonitorSpec
  <2>1. /\ pc = "spec" /\ pc' = "save" /\ UNCHANGED <<cfg, conf, chosen, monitor>>
        /\ cfg.libcontainer = "true" => mspec' = <<BuildMonitorSpec(Conf, cfg, monitor[1])>>
    BY <1>13 DEF WriteMonitorSpec
  <2> QED
    BY <2>1 DEF RecordInv, Chosen, Sized, Conf
<1>14. CASE SaveContainerState
  <2>1. /\ pc = "save" /\ pc' = "created" /\ UNCHANGED <<cfg, conf, chosen, monitor, mspec, annot>>
        /\ state' = <<StateAnnotations(conf, annot)>>
    BY <1>14 DEF SaveContainerState
  <2> QED
    BY <2>1 DEF RecordInv, Chosen, Sized, Conf
<1>15. CASE CreateFails
  BY <1>15, <1>c, RecordInvQuiet DEF CreateFails, Chosen
<1>16. CASE Exec
  <2>1. /\ pc = "created" /\ pc' = "running"
        /\ UNCHANGED <<cfg, conf, chosen, monitor, mspec, state, annot>>
        /\ args' = IF GetCfg.libcontainer = "true" THEN mspec
                   ELSE <<BuildMonitorSpec(GetConf, GetCfg, monitor[1])>>
    BY <1>16 DEF Exec
  <2>2. GetConf = Conf /\ GetCfg = cfg
    BY <2>1, ReadBack
  <2>3. args' = <<BuildMonitorSpec(Conf, cfg, monitor[1])>>
    BY <2>1, <2>2 DEF RecordInv
  <2> QED
    BY <2>1, <2>3 DEF RecordInv, Chosen, Sized, Conf
<1>17. CASE CreateAgain
  <2>1. IsCfg(DefaultConfig)
    BY DEF IsCfg, DefaultConfig, Fields
  <2> QED
    BY <1>17, <2>1, RecordInvQuiet DEF CreateAgain, Chosen
<1> QED
  BY <1>0, <1>1, <1>2, <1>3, <1>4, <1>5, <1>6, <1>7, <1>8, <1>9, <1>10, <1>11, <1>12, <1>13,
     <1>14, <1>15, <1>16, <1>17
  DEF Next

\* The records make every later command work as create decided, whatever the
\* spec's annotations are and whatever config.toml says by then, and a guest
\* that virtiofsd serves has as much memory as /tmp was sized for.
THEOREM RecordsAgree == Spec => []LaterAgrees
<1>1. RecordInv => LaterAgrees
  <2> SUFFICES ASSUME RecordInv PROVE LaterAgrees
    OBVIOUS
  <2>1. ASSUME pc = "running", monitor[1].rootfs.type = "virtiofs"
        PROVE  monitor[1].tmpfs = args[1].memory
    <3>1. /\ chosen[1].type = "virtiofs" /\ monitor[1].tmpfs = cfg.memory
          /\ Conf.hypervisor # "hyperlight-unikraft"
          /\ args[1] = BuildMonitorSpec(Conf, cfg, monitor[1])
      BY <2>1 DEF RecordInv, Chosen, Sized
    <3> QED
      BY <3>1 DEF BuildMonitorSpec
  <2>2. pc = "running" => args = <<BuildMonitorSpec(Conf, cfg, monitor[1])>>
    BY DEF RecordInv
  <2> QED
    BY <2>1, <2>2, ReadBack DEF LaterAgrees
<1> QED
  BY <1>1, RecordInvInit, RecordInvNext, PTL DEF Spec

-----------------------------------------------------------------------------
(* The configuration.                                                      *)

\* What config.json says, by what the shim has added to it.
Injected ==
    IF injected = "all" THEN Patched(cntr.spec, Fetched("all"))
    ELSE IF injected = "labels" THEN Patched(cntr.spec, Fetched("labels"))
    ELSE cntr.spec

\* The configuration that the annotations ask for, and AsAsked without its
\* condition.
AskedConf == [k \in Keys |-> Asked(k)]
IsAsked ==
    IF Validate(AskedConf) THEN Conf = AskedConf
    ELSE /\ "urunc.json" \in had
         /\ \A k \in Keys : Conf[k] =
              IF k \in {"vAccel", "RPCAddress"} \/ (k = "ports" /\ AskedConf[k] # "")
              THEN AskedConf[k] ELSE Value(cntr.json.values, k)

Configured == pc = "choose" \/ Chosen

\* config.json follows the shim; until create touches it the snapshot is as it
\* was, the image's on the first create; and New has gone on with what it was
\* asked for, or found none.
ConfInv ==
    /\ cntr \in Containers
    /\ annot = Injected
    /\ pc = "shim" => injected = "none"
    /\ pc \in {"shim", "load", "new", "choose", "runc"} => snap = had
    /\ creates \in Nat \ {0} /\ (creates = 1 => had = cntr.files)
    /\ Configured => IsAsked /\ ValidateValues(Conf)
    /\ pc = "runc" => IsQueueProxy \/ GetUnikernelConfig(annot, JSONFile) = {}

\* The first of the sources that have a key.
LEMMA FirstSource ==
    ASSUME NEW W, W \subseteq Nat, NEW i \in W, \A j \in W : i <= j
    PROVE  (CHOOSE x \in W : \A j \in W : x <= j) = i
<1>1. ASSUME NEW x \in W, \A j \in W : x <= j PROVE x = i
  <2>1. x <= i /\ i <= x
    BY <1>1
  <2> QED
    BY <2>1
<1> QED
  BY <1>1

\* A key of two maps in one.
LEMMA PreferReads ==
    ASSUME NEW f, NEW g, NEW k
    PROVE  Value(Prefer(f, g), k) = IF k \in DOMAIN f THEN f[k] ELSE Value(g, k)
BY DEF Value, Prefer

\* Reading config.json is asking the spec, the manifest and the labels in turn.
LEMMA ReadsAsked ==
    ASSUME annot = Injected
    PROVE  GetConfigFromSpec(annot) = AskedConf
<1> SUFFICES ASSUME NEW k \in Keys PROVE Value(annot, k) = Asked(k)
  BY DEF GetConfigFromSpec, AskedConf
<1> DEFINE W == {i \in DOMAIN Sources : k \in DOMAIN Sources[i]}
           First == CHOOSE x \in W : \A j \in W : x <= j
<1>1. Asked(k) = IF W = {} THEN "" ELSE Sources[First][k]
  BY DEF Asked
<1> HIDE DEF First
<1>2. CASE injected = "all"
  <2>1. Sources = <<cntr.spec, cntr.manifest, cntr.labels>>
    BY <1>2 DEF Sources
  <2>2. DOMAIN Sources = 1..3 /\ Sources[1] = cntr.spec /\ Sources[2] = cntr.manifest /\ Sources[3] = cntr.labels
    BY <2>1
  <2>3. W \subseteq {1, 2, 3}
    BY <2>2
  <2>4. Value(annot, k) = IF k \in DOMAIN cntr.spec THEN cntr.spec[k]
                          ELSE IF k \in DOMAIN cntr.manifest THEN cntr.manifest[k]
                          ELSE Value(cntr.labels, k)
    <3>1. annot = Prefer(cntr.spec, Prefer(cntr.manifest, cntr.labels))
      BY <1>2 DEF Injected, Patched, Fetched
    <3> QED
      BY <3>1, PreferReads
  <2>5. CASE k \in DOMAIN cntr.spec
    <3>1. 1 \in W /\ \A j \in W : 1 <= j
      BY <2>2, <2>3, <2>5
    <3>2. First = 1
      BY <2>3, <3>1, FirstSource DEF First
    <3> QED
      BY <1>1, <2>2, <2>4, <2>5, <3>1, <3>2 DEF Value
  <2>6. CASE k \notin DOMAIN cntr.spec /\ k \in DOMAIN cntr.manifest
    <3>1. 2 \in W /\ \A j \in W : 2 <= j
      BY <2>2, <2>3, <2>6
    <3>2. First = 2
      BY <2>3, <3>1, FirstSource DEF First
    <3> QED
      BY <1>1, <2>2, <2>4, <2>6, <3>1, <3>2 DEF Value
  <2>7. CASE k \notin DOMAIN cntr.spec /\ k \notin DOMAIN cntr.manifest /\ k \in DOMAIN cntr.labels
    <3>1. 3 \in W /\ \A j \in W : 3 <= j
      BY <2>2, <2>3, <2>7
    <3>2. First = 3
      BY <2>3, <3>1, FirstSource DEF First
    <3> QED
      BY <1>1, <2>2, <2>4, <2>7, <3>1, <3>2 DEF Value
  <2>8. CASE k \notin DOMAIN cntr.spec /\ k \notin DOMAIN cntr.manifest /\ k \notin DOMAIN cntr.labels
    <3>1. W = {}
      BY <2>2, <2>3, <2>8
    <3> QED
      BY <1>1, <2>4, <2>8, <3>1 DEF Value
  <2> QED
    BY <2>5, <2>6, <2>7, <2>8
<1>3. CASE injected = "labels"
  <2>1. Sources = <<cntr.spec, cntr.labels>>
    BY <1>3 DEF Sources
  <2>2. DOMAIN Sources = 1..2 /\ Sources[1] = cntr.spec /\ Sources[2] = cntr.labels
    BY <2>1
  <2>3. W \subseteq {1, 2}
    BY <2>2
  <2>4. Value(annot, k) = IF k \in DOMAIN cntr.spec THEN cntr.spec[k] ELSE Value(cntr.labels, k)
    <3>1. annot = Prefer(cntr.spec, cntr.labels)
      BY <1>3 DEF Injected, Patched, Fetched
    <3> QED
      BY <3>1, PreferReads
  <2>5. CASE k \in DOMAIN cntr.spec
    <3>1. 1 \in W /\ \A j \in W : 1 <= j
      BY <2>2, <2>3, <2>5
    <3>2. First = 1
      BY <2>3, <3>1, FirstSource DEF First
    <3> QED
      BY <1>1, <2>2, <2>4, <2>5, <3>1, <3>2 DEF Value
  <2>6. CASE k \notin DOMAIN cntr.spec /\ k \in DOMAIN cntr.labels
    <3>1. 2 \in W /\ \A j \in W : 2 <= j
      BY <2>2, <2>3, <2>6
    <3>2. First = 2
      BY <2>3, <3>1, FirstSource DEF First
    <3> QED
      BY <1>1, <2>2, <2>4, <2>6, <3>1, <3>2 DEF Value
  <2>7. CASE k \notin DOMAIN cntr.spec /\ k \notin DOMAIN cntr.labels
    <3>1. W = {}
      BY <2>2, <2>3, <2>7
    <3> QED
      BY <1>1, <2>4, <2>7, <3>1 DEF Value
  <2> QED
    BY <2>5, <2>6, <2>7
<1>4. CASE injected \notin {"all", "labels"}
  <2>1. Sources = <<cntr.spec>> /\ annot = cntr.spec
    BY <1>4 DEF Sources, Injected
  <2>2. DOMAIN Sources = {1} /\ Sources[1] = cntr.spec
    BY <2>1
  <2>3. CASE k \in DOMAIN cntr.spec
    <3>1. 1 \in W /\ \A j \in W : 1 <= j
      BY <2>2, <2>3
    <3>2. First = 1
      BY <2>2, <3>1, FirstSource DEF First
    <3> QED
      BY <1>1, <2>1, <2>2, <2>3, <3>1, <3>2 DEF Value
  <2>4. CASE k \notin DOMAIN cntr.spec
    <3>1. W = {}
      BY <2>2, <2>4
    <3> QED
      BY <1>1, <2>1, <2>4, <3>1 DEF Value
  <2> QED
    BY <2>3, <2>4
<1> QED
  BY <1>2, <1>3, <1>4

\* create's map holds the configuration that New made it from: urunc's own
\* keys are others.
LEMMA ConfOf ==
    ASSUME NEW c, NEW m, c = [k \in Keys |-> c[k]]
    PROVE  GetConfigFromSpec(Prefer(UruncConfigMap(m), ConfigMap(c))) = c
<1> DEFINE u == UruncConfigMap(m)
           f == ConfigMap(c)
<1>1. DOMAIN u = CfgKeys /\ CfgKeys \cap Keys = {}
  BY DEF UruncConfigMap, CfgKeys, CfgKey, Keys
<1>2. DOMAIN f = {x \in Keys : c[x] # ""} /\ \A x \in DOMAIN f : f[x] = c[x]
  BY DEF ConfigMap
<1> HIDE DEF u, f
<1>3. ASSUME NEW k \in Keys PROVE Value(Prefer(u, f), k) = c[k]
  <2>1. k \notin DOMAIN u
    BY <1>1
  <2>2. Value(f, k) = c[k]
    BY <1>2 DEF Value
  <2> QED
    BY <2>1, <2>2, PreferReads
<1>4. GetConfigFromSpec(Prefer(u, f)) = [k \in Keys |-> c[k]]
  BY <1>3 DEF GetConfigFromSpec
<1> QED
  BY <1>4 DEF u, f

\* urunc.json as New finds it.
LEMMA JSONRead ==
    ASSUME cntr \in Containers
    PROVE  /\ JSONFile.values = cntr.json.values
           /\ JSONFile.decodes <=> cntr.json.decodes /\ "urunc.json" \in snap
<1>1. /\ cntr.json = [decodes |-> cntr.json.decodes, values |-> cntr.json.values]
      /\ cntr.json.decodes \in BOOLEAN
  BY ImageAssumption
<1> QED
  BY <1>1 DEF JSONFile

\* What GetUnikernelConfig returns is what was asked for.
LEMMA FoundAsked ==
    ASSUME ConfInv, pc = "new", NEW c \in GetUnikernelConfig(annot, JSONFile),
           c = GetConfigFromSpec(conf'), UNCHANGED <<cntr, injected, had>>
    PROVE  IsAsked'
<1>1. /\ cntr \in Containers /\ snap = had
      /\ GetConfigFromSpec(annot) = AskedConf
  BY ReadsAsked DEF ConfInv
<1>2. AskedConf' = AskedConf
  BY DEF AskedConf, Asked, Sources
<1>3. Conf' = c
  BY DEF Conf
<1>4. CASE Validate(AskedConf)
  <2>1. c = AskedConf
    BY <1>1, <1>4 DEF GetUnikernelConfig
  <2> QED
    BY <1>2, <1>3, <1>4, <2>1 DEF IsAsked
<1>5. CASE ~Validate(AskedConf)
  <2>1. c = GetConfigFromJSON(JSONFile, annot) /\ JSONFile.decodes
    BY <1>1, <1>5 DEF GetUnikernelConfig
  <2>2. "urunc.json" \in had /\ JSONFile.values = cntr.json.values
    BY <1>1, <2>1, JSONRead
  <2>3. ASSUME NEW k \in Keys
        PROVE  c[k] = IF k \in {"vAccel", "RPCAddress"} \/ (k = "ports" /\ AskedConf[k] # "")
                      THEN AskedConf[k] ELSE Value(cntr.json.values, k)
    <3>1. \A x \in Keys : Value(annot, x) = AskedConf[x]
      BY <1>1 DEF GetConfigFromSpec
    <3>2. c[k] = IF k \in TakenFromSpec(annot) THEN Value(annot, k) ELSE Value(cntr.json.values, k)
      BY <2>1, <2>2 DEF GetConfigFromJSON
    <3>3. k \in TakenFromSpec(annot) <=> k \in {"vAccel", "RPCAddress"} \/ (k = "ports" /\ AskedConf[k] # "")
      BY <3>1 DEF TakenFromSpec
    <3> QED
      BY <3>1, <3>2, <3>3
  <2> QED
    BY <1>2, <1>3, <1>5, <2>2, <2>3 DEF IsAsked
<1> QED
  BY <1>4, <1>5

\* The steps that leave the container and its configuration as they are.
LEMMA ConfInvQuiet ==
    ASSUME ConfInv, UNCHANGED <<cntr, annot, injected, conf, creates, had>>,
           pc' # "shim", pc' # "runc", Configured' => Configured,
           pc' \in {"load", "new", "choose"} => snap' = had
    PROVE  ConfInv'
<1>1. Injected' = Injected /\ Conf' = Conf
  BY DEF Injected, Fetched, Patched, Conf
<1>2. AskedConf' = AskedConf
  BY DEF AskedConf, Asked, Sources
<1>3. IsAsked' = IsAsked
  BY <1>1, <1>2 DEF IsAsked
<1> QED
  BY <1>1, <1>3 DEF ConfInv

LEMMA ConfInvInit == Init => ConfInv
BY DEF Init, ConfInv, Injected, Configured, Chosen

\* Every step keeps it.
LEMMA ConfInvNext == ConfInv /\ [Next]_vars => ConfInv'
<1> SUFFICES ASSUME ConfInv, [Next]_vars PROVE ConfInv'
  OBVIOUS
<1> USE DEF Goto, given, bundle, memory, records
<1>0. CASE UNCHANGED vars
  <2>1. UNCHANGED <<cntr, annot, injected, snap, conf, creates, had, pc>>
    BY <1>0 DEF vars
  <2>2. Injected' = Injected /\ Conf' = Conf /\ IsQueueProxy' = IsQueueProxy /\ JSONFile' = JSONFile
    BY <2>1 DEF Injected, Fetched, Patched, Conf, IsQueueProxy, JSONFile
  <2>3. AskedConf' = AskedConf
    BY <2>1 DEF AskedConf, Asked, Sources
  <2>4. IsAsked' = IsAsked
    BY <2>1, <2>2, <2>3 DEF IsAsked
  <2> QED
    BY <2>1, <2>2, <2>4 DEF ConfInv, Configured, Chosen
<1>1. CASE EditConfig
  <2>1. UNCHANGED <<cntr, annot, injected, snap, conf, creates, had, pc>>
    BY <1>1 DEF EditConfig
  <2>2. Injected' = Injected /\ Conf' = Conf /\ IsQueueProxy' = IsQueueProxy /\ JSONFile' = JSONFile
    BY <2>1 DEF Injected, Fetched, Patched, Conf, IsQueueProxy, JSONFile
  <2>3. AskedConf' = AskedConf
    BY <2>1 DEF AskedConf, Asked, Sources
  <2>4. IsAsked' = IsAsked
    BY <2>1, <2>2, <2>3 DEF IsAsked
  <2> QED
    BY <2>1, <2>2, <2>4 DEF ConfInv, Configured, Chosen
<1>2. CASE InjectUruncAnnotations
  <2>1. /\ pc = "shim" /\ pc' = "load" /\ UNCHANGED <<cntr, snap, creates, had>>
        /\ \/ annot' = Patched(annot, Fetched("all")) /\ injected' = "all"
           \/ annot' = Patched(annot, Fetched("labels")) /\ injected' = "labels"
    BY <1>2 DEF InjectUruncAnnotations
  <2>2. annot = cntr.spec
    BY <2>1 DEF ConfInv, Injected
  <2>3. annot' = Injected'
    BY <2>1, <2>2 DEF Injected, Fetched, Patched
  <2> QED
    BY <2>1, <2>3 DEF ConfInv, Configured, Chosen
<1>3. CASE InjectFails
  BY <1>3, ConfInvQuiet DEF InjectFails, ConfInv, Configured, Chosen
<1>4. CASE LoadConfig
  BY <1>4, ConfInvQuiet DEF LoadConfig, ConfInv, Configured, Chosen
<1>5. CASE NewHandsOver
  <2>1. /\ pc = "new" /\ pc' = "runc"
        /\ UNCHANGED <<cntr, annot, injected, snap, conf, creates, had>>
        /\ IsQueueProxy \/ GetUnikernelConfig(annot, JSONFile) = {}
    BY <1>5 DEF NewHandsOver
  <2>2. Injected' = Injected /\ IsQueueProxy' = IsQueueProxy /\ JSONFile' = JSONFile
    BY <2>1 DEF Injected, Fetched, Patched, IsQueueProxy, JSONFile
  <2> QED
    BY <2>1, <2>2 DEF ConfInv, Configured, Chosen
<1>6. CASE New
  <2>1. /\ pc = "new" /\ UNCHANGED <<cntr, annot, injected, snap, creates, had>>
        /\ \/ pc' = "failed" /\ conf' = conf
           \/ \E c \in GetUnikernelConfig(annot, JSONFile) :
                 /\ pc' = "choose" /\ ValidateValues(c)
                 /\ conf' = Prefer(UruncConfigMap(cfg), ConfigMap(c))
    BY <1>6 DEF New
  <2>2. CASE pc' = "failed" /\ conf' = conf
    BY <2>1, <2>2, ConfInvQuiet DEF Configured, Chosen
  <2>3. ASSUME NEW c \in GetUnikernelConfig(annot, JSONFile), pc' = "choose", ValidateValues(c),
               conf' = Prefer(UruncConfigMap(cfg), ConfigMap(c))
        PROVE  ConfInv'
    <3>1. c = [k \in Keys |-> c[k]]
      BY <2>3 DEF GetUnikernelConfig, GetConfigFromSpec, GetConfigFromJSON
    <3>2. c = GetConfigFromSpec(conf')
      BY <2>3, <3>1, ConfOf
    <3>3. IsAsked'
      BY <2>1, <2>3, <3>2, FoundAsked
    <3>4. ValidateValues(Conf')
      BY <2>3, <3>2 DEF Conf
    <3>5. Injected' = Injected
      BY <2>1 DEF Injected, Fetched, Patched
    <3> QED
      BY <2>1, <2>3, <3>3, <3>4, <3>5 DEF ConfInv
  <2> QED
    BY <2>1, <2>2, <2>3
<1>7. CASE Choose
  <2>1. /\ pc = "choose" /\ pc' \in {"failed", "mountfiles", "gather"}
        /\ UNCHANGED <<cntr, annot, injected, conf, creates, had>>
    BY <1>7 DEF Choose
  <2> QED
    BY <2>1, ConfInvQuiet DEF Configured
<1>8. CASE CopyMountFiles
  BY <1>8, ConfInvQuiet DEF CopyMountFiles, Configured, Chosen
<1>9. CASE CopyBootFile
  <2>1. /\ pc = "copy" /\ pc' \in {"remove", "failed"}
        /\ UNCHANGED <<cntr, annot, injected, conf, creates, had>>
    BY <1>9 DEF CopyBootFile
  <2> QED
    BY <2>1, ConfInvQuiet DEF Configured, Chosen
<1>10. CASE RemoveBootFile
  BY <1>10, ConfInvQuiet DEF RemoveBootFile, Configured, Chosen
<1>11. CASE UnmountRootfs
  BY <1>11, ConfInvQuiet DEF UnmountRootfs, Configured, Chosen
<1>12. CASE SaveMonitorResources
  <2>1. /\ pc = "gather" /\ pc' \in {"spec", "failed"}
        /\ UNCHANGED <<cntr, annot, injected, conf, creates, had>>
    BY <1>12 DEF SaveMonitorResources
  <2> QED
    BY <2>1, ConfInvQuiet DEF Configured, Chosen
<1>13. CASE WriteMonitorSpec
  BY <1>13, ConfInvQuiet DEF WriteMonitorSpec, Configured, Chosen
<1>14. CASE SaveContainerState
  BY <1>14, ConfInvQuiet DEF SaveContainerState, Configured, Chosen
<1>15. CASE CreateFails
  BY <1>15, ConfInvQuiet DEF CreateFails, Configured, Chosen
<1>16. CASE Exec
  BY <1>16, ConfInvQuiet DEF Exec, Configured, Chosen
<1>17. CASE CreateAgain
  BY <1>17 DEF CreateAgain, ConfInv, Injected, Configured, Chosen
<1> QED
  BY <1>0, <1>1, <1>2, <1>3, <1>4, <1>5, <1>6, <1>7, <1>8, <1>9, <1>10, <1>11, <1>12, <1>13,
     <1>14, <1>15, <1>16, <1>17
  DEF Next

LEMMA ConfAlways == Spec => []ConfInv
BY ConfInvInit, ConfInvNext, PTL DEF Spec

\* The configuration that create works with is the one asked for by the spec,
\* the manifest, the labels or urunc.json, in this order, however often the
\* container was created before and whatever the shim got at.
THEOREM ConfigurationAsAsked == Spec => []AsAsked
<1>1. ConfInv => AsAsked
  BY DEF ConfInv, Configured, IsAsked, AskedConf, AsAsked
<1> QED
  BY <1>1, ConfAlways, PTL

\* A unikernel's container is handed over to runc only if the shim did not get
\* at all of its annotations, or an earlier create has taken its urunc.json.
THEOREM UnikernelsKept == Spec => []NotHandedOver
<1>1. ConfInv => NotHandedOver
  <2> SUFFICES ASSUME ConfInv, pc = "runc", Value(cntr.spec, "container-name") # "queue-proxy"
               PROVE  /\ Validate(GetConfigFromSpec(Patched(cntr.spec, Fetched("all")))) => injected # "all"
                      /\ cntr.json.decodes /\ Validate(GetConfigFromJSON(cntr.json, cntr.spec))
                           => creates > 1 /\ "urunc.json" \notin had
    BY DEF NotHandedOver
  <2>1. /\ cntr \in Containers /\ annot = Injected /\ snap = had /\ creates \in Nat \ {0}
        /\ creates = 1 => had = cntr.files
        /\ IsQueueProxy \/ GetUnikernelConfig(annot, JSONFile) = {}
    BY DEF ConfInv
  <2>2. ~IsQueueProxy
    <3>1. /\ "container-name" \notin DOMAIN cntr.manifest
          /\ "container-name" \notin DOMAIN cntr.labels
      BY <2>1, ImageAssumption
    <3>2. \A w : Value(Patched(cntr.spec, Fetched(w)), "container-name") = Value(cntr.spec, "container-name")
      <4>1. \A w : "container-name" \notin DOMAIN Fetched(w)
        BY <3>1 DEF Fetched, Prefer
      <4> QED
        BY <4>1, PreferReads DEF Patched, Value
    <3> QED
      BY <2>1, <3>2 DEF Injected, IsQueueProxy
  <2>3. /\ ~Validate(GetConfigFromSpec(annot))
        /\ ~(JSONFile.decodes /\ Validate(GetConfigFromJSON(JSONFile, annot)))
    BY <2>1, <2>2 DEF GetUnikernelConfig
  <2>4. injected = "all" => ~Validate(GetConfigFromSpec(Patched(cntr.spec, Fetched("all"))))
    BY <2>1, <2>3 DEF Injected
  <2>5. ASSUME cntr.json.decodes, Validate(GetConfigFromJSON(cntr.json, cntr.spec))
        PROVE  creates > 1 /\ "urunc.json" \notin had
    <3>1. Validate(GetConfigFromJSON(JSONFile, annot))
      <4>1. JSONFile.values = cntr.json.values
        BY <2>1, JSONRead
      <4>2. ASSUME NEW k \in {"type", "hypervisor", "binary"}
            PROVE  GetConfigFromJSON(JSONFile, annot)[k] = GetConfigFromJSON(cntr.json, cntr.spec)[k]
        <5>1. k \in Keys
          BY DEF Keys
        <5>2. \A a : k \notin TakenFromSpec(a)
          BY DEF TakenFromSpec
        <5> QED
          BY <4>1, <5>1, <5>2 DEF GetConfigFromJSON
      <4> QED
        BY <2>5, <4>2 DEF Validate
    <3>2. "urunc.json" \notin had
      BY <2>1, <2>3, <2>5, <3>1, JSONRead
    <3>3. creates # 1
      BY <2>1, <2>5, <3>2, ImageAssumption
    <3> QED
      BY <2>1, <3>2, <3>3
  <2> QED
    BY <2>4, <2>5
<1> QED
  BY <1>1, ConfAlways, PTL

-----------------------------------------------------------------------------
(* Types.                                                                  *)

\* A record that was not written yet, or was.
Once(s) == s = None \/ \E x : s = <<x>>

TypeInv == TypeOK /\ Once(chosen) /\ Once(state) /\ Once(monitor)

LEMMA OnceLen == ASSUME NEW s, Once(s) PROVE Len(s) <= 1
<1>1. CASE s = None
  BY <1>1 DEF None
<1>2. ASSUME NEW x, s = <<x>> PROVE Len(s) <= 1
  <2>1. Len(<<x>>) = 1
    OBVIOUS
  <2> QED
    BY <1>2, <2>1
<1> QED
  BY <1>1, <1>2 DEF Once

\* A configuration that New accepts is one of the supported pairs.
LEMMA PairSupported ==
    ASSUME ConfInv, Chosen
    PROVE  <<Conf.hypervisor, Conf.type>> \in SupportedGuestMonitorPairs
BY DEF ConfInv, Configured, ValidateValues

\* What is left to show of a step: the records, where it goes, and the files.
LEMMA TypeStep ==
    ASSUME ConfInv', Once(chosen)', Once(state)', Once(monitor)',
           pc' \in {"shim", "load", "new", "choose", "mountfiles", "copy", "remove", "gather",
                    "spec", "save", "created", "running", "failed", "runc"},
           (snap \cup monfs \subseteq cntr.files \cup cntr.mounts)'
    PROVE  TypeInv'
<1>1. (Len(chosen) <= 1 /\ Len(state) <= 1 /\ Len(monitor) <= 1)'
  BY OnceLen
<1>2. (Chosen => <<Conf.hypervisor, Conf.type>> \in SupportedGuestMonitorPairs)'
  BY DEF ConfInv, Configured, ValidateValues
<1> QED
  BY <1>1, <1>2 DEF TypeInv, TypeOK

LEMMA TypeInvInit == Init => TypeInv
<1> SUFFICES ASSUME Init PROVE TypeInv
  OBVIOUS
<1>1. Once(chosen) /\ Once(state) /\ Once(monitor)
  BY DEF Init, Once
<1>2. Len(chosen) <= 1 /\ Len(state) <= 1 /\ Len(monitor) <= 1
  BY <1>1, OnceLen
<1> QED
  BY <1>1, <1>2 DEF Init, TypeInv, TypeOK, Chosen

LEMMA TypeInvNext == TypeInv /\ ConfInv' /\ [Next]_vars => TypeInv'
<1> SUFFICES ASSUME TypeInv, ConfInv', [Next]_vars PROVE TypeInv'
  OBVIOUS
<1> USE DEF Goto, given, bundle, memory, records
<1> DEFINE Pcs == {"shim", "load", "new", "choose", "mountfiles", "copy", "remove", "gather",
                   "spec", "save", "created", "running", "failed", "runc"}
<1>t. /\ pc \in Pcs /\ Once(chosen) /\ Once(state) /\ Once(monitor)
      /\ snap \cup monfs \subseteq cntr.files \cup cntr.mounts
  BY DEF TypeInv, TypeOK
<1>s. ASSUME Once(chosen'), Once(state'), Once(monitor'), pc' \in Pcs,
             snap' \cup monfs' \subseteq cntr.files \cup cntr.mounts, cntr' = cntr
      PROVE  TypeInv'
  BY <1>s, TypeStep DEF Once
<1>0. CASE UNCHANGED vars
  BY <1>0, <1>t, <1>s DEF vars
<1>1. CASE EditConfig
  BY <1>1, <1>t, <1>s DEF EditConfig
<1>2. CASE InjectUruncAnnotations
  BY <1>2, <1>t, <1>s DEF InjectUruncAnnotations
<1>3. CASE InjectFails
  BY <1>3, <1>t, <1>s DEF InjectFails
<1>4. CASE LoadConfig
  BY <1>4, <1>t, <1>s DEF LoadConfig
<1>5. CASE NewHandsOver
  BY <1>5, <1>t, <1>s DEF NewHandsOver
<1>6. CASE New
  <2>1. pc' \in {"choose", "failed"} /\ UNCHANGED <<cntr, snap, monfs, chosen, state, monitor>>
    BY <1>6 DEF New
  <2> QED
    BY <2>1, <1>t, <1>s
<1>7. CASE Choose
  <2>1. /\ pc' \in {"failed", "mountfiles", "gather"} /\ UNCHANGED <<cntr, snap, monfs, state, monitor>>
        /\ chosen' = chosen \/ \E p : chosen' = <<p>>
    BY <1>7 DEF Choose
  <2>2. Once(chosen')
    BY <2>1, <1>t DEF Once
  <2> QED
    BY <2>1, <2>2, <1>t, <1>s
<1>8. CASE CopyMountFiles
  <2>1. /\ pc' = "copy" /\ UNCHANGED <<cntr, monfs, chosen, state, monitor>>
        /\ snap' = snap \cup cntr.mounts
    BY <1>8 DEF CopyMountFiles
  <2> QED
    BY <2>1, <1>t, <1>s
<1>9. CASE CopyBootFile
  <2>1. /\ pc' \in {"remove", "failed"} /\ UNCHANGED <<cntr, snap, chosen, state, monitor>>
        /\ monfs' = monfs \/ (Head(moving) \in snap /\ monfs' = monfs \cup {Head(moving)})
    BY <1>9 DEF CopyBootFile
  <2>2. snap' \cup monfs' \subseteq cntr.files \cup cntr.mounts
    BY <2>1, <1>t
  <2> QED
    BY <2>1, <2>2, <1>t, <1>s
<1>10. CASE RemoveBootFile
  <2>1. /\ pc' = "copy" /\ UNCHANGED <<cntr, monfs, chosen, state, monitor>>
        /\ snap' \subseteq snap
    BY <1>10 DEF RemoveBootFile
  <2> QED
    BY <2>1, <1>t, <1>s
<1>11. CASE UnmountRootfs
  BY <1>11, <1>t, <1>s DEF UnmountRootfs
<1>12. CASE SaveMonitorResources
  <2>1. /\ pc' \in {"failed", "spec"} /\ UNCHANGED <<cntr, snap, monfs, chosen, state>>
        /\ monitor' = monitor \/ \E r : monitor' = <<r>>
    BY <1>12 DEF SaveMonitorResources
  <2>2. Once(monitor')
    BY <2>1, <1>t DEF Once
  <2> QED
    BY <2>1, <2>2, <1>t, <1>s
<1>13. CASE WriteMonitorSpec
  BY <1>13, <1>t, <1>s DEF WriteMonitorSpec
<1>14. CASE SaveContainerState
  <2>1. /\ pc' = "created" /\ UNCHANGED <<cntr, snap, monfs, chosen, monitor>>
        /\ \E a : state' = <<a>>
    BY <1>14 DEF SaveContainerState
  <2>2. Once(state')
    BY <2>1 DEF Once
  <2> QED
    BY <2>1, <2>2, <1>t, <1>s
<1>15. CASE CreateFails
  BY <1>15, <1>t, <1>s DEF CreateFails
<1>16. CASE Exec
  BY <1>16, <1>t, <1>s DEF Exec
<1>17. CASE CreateAgain
  <2>1. /\ pc' = "shim" /\ UNCHANGED <<cntr, snap>> /\ monfs' = {}
        /\ chosen' = None /\ state' = None /\ monitor' = None
    BY <1>17 DEF CreateAgain
  <2>2. Once(None)
    BY DEF Once
  <2> QED
    BY <2>1, <2>2, <1>t, <1>s
<1> QED
  BY <1>0, <1>1, <1>2, <1>3, <1>4, <1>5, <1>6, <1>7, <1>8, <1>9, <1>10, <1>11, <1>12, <1>13,
     <1>14, <1>15, <1>16, <1>17
  DEF Next

\* The snapshot and the bundle hold files of the image and of the mounts only,
\* and no create goes on to the rootfs with a monitor that does not run the
\* guest.
THEOREM PrepareTyped == Spec => []TypeOK
<1>1. TypeInv => TypeOK
  BY DEF TypeInv
<1> QED
  BY <1>1, ConfAlways, TypeInvInit, TypeInvNext, PTL DEF Spec

-----------------------------------------------------------------------------
(* What the monitor opens.                                                 *)

Gathering == pc \in {"gather", "spec", "save", "created", "running"}

\* A snapshot that stays the container's rootfs stays mounted and whole; one
\* that becomes a block device is unmounted, for a guest that has block
\* devices, with the mounted files in it; and monitor.json says which it is.
ReachInv ==
    /\ ConfInv /\ RecordInv /\ BootInv
    /\ pc \in {"mountfiles", "copy", "remove"} => IsDetached(chosen[1])
    /\ Chosen /\ IsDetached(chosen[1]) => SupportsBlock(Conf.type)
    /\ Gathering => IF IsDetached(chosen[1]) THEN ~mounted ELSE mounted /\ had \subseteq snap
    /\ Chosen /\ pc # "mountfiles" /\ IsDetached(chosen[1]) => cntr.mounts \subseteq snap \cup BootNames
    /\ pc \in {"spec", "save", "created", "running"} =>
         monitor = <<GetMonitorResources(chosen[1], Conf, host, cfg.memory)>>

\* Only a guest that supports block devices is given the snapshot as one.
LEMMA DetachedBlock ==
    ASSUME NEW c, NEW h, NEW p \in ChooseRootfs(c, h), IsDetached(p)
    PROVE  SupportsBlock(c.type)
<1>1. ASSUME NEW t, NEW x, NEW y, NEW S, S \subseteq {Params(t, x, y)}, t # "block" \/ y = ""
      PROVE  \A q \in S : ~IsDetached(q)
  <2>1. ~IsDetached(Params(t, x, y))
    BY <1>1 DEF Params, IsDetached
  <2> QED
    BY <1>1, <2>1, Zenon
<1>3. \A q \in TryInitrd(c) : ~IsDetached(q)
  <2>1. TryInitrd(c) \subseteq {Params("initrd", c.initrd, "rootfs")}
    BY Zenon DEF TryInitrd
  <2> QED
    BY <1>1, <2>1
<1>4. \A q \in TryExplicitBlock(c) : ~IsDetached(q)
  <2>1. TryExplicitBlock(c) \subseteq {Params("block", c.block, "")}
    BY Zenon DEF TryExplicitBlock
  <2> QED
    BY <1>1, <2>1
<1>5. \A q \in TryVirtiofs(c, h) : ~IsDetached(q)
  <2>1. TryVirtiofs(c, h) \subseteq {Params("virtiofs", "rootfs", "rootfs")}
    BY Zenon DEF TryVirtiofs
  <2> QED
    BY <1>1, <2>1
<1>6. \A q \in Try9pfs(c) : ~IsDetached(q)
  <2>1. Try9pfs(c) \subseteq {Params("9pfs", "rootfs", "rootfs")}
    BY Zenon DEF Try9pfs
  <2> QED
    BY <1>1, <2>1
<1>7. \A q \in NoRootfs(c) : ~IsDetached(q)
  <2>1. NoRootfs(c) \subseteq {Params("", "", "rootfs")}
    BY Zenon DEF NoRootfs
  <2> QED
    BY <1>1, <2>1
<1>2. p \in TryContainerBlockRootfs(c, h)
  BY <1>3, <1>4, <1>5, <1>6, <1>7 DEF ChooseRootfs, TryContainerRootfs, TryContainerSharedFS, OrElse
<1> QED
  BY <1>2, Zenon DEF TryContainerBlockRootfs

\* The block devices of a guest with the snapshot for one: it alone, with a node.
LEMMA DetachedDevice ==
    ASSUME NEW p, NEW c, IsDetached(p), NEW b \in BlockDevs(p, c)
    PROVE  ~b.explicit /\ b.source \in BlockDevNodes(p, c)
<1> DEFINE d == [source |-> p.path, explicit |-> p.mountedPath = "",
                 mountPoint |-> IF c.type = "rumprun" THEN "/data" ELSE "/"]
<1>1. p.type = "block" /\ p.mountedPath # ""
  BY DEF IsDetached
<1>2. b = d
  BY <1>1 DEF BlockDevs
<1>3. d.source = p.path /\ (d.explicit <=> p.mountedPath = "")
  BY Zenon
<1> HIDE DEF d
<1>4. b.source \in BlockDevNodes(p, c)
  BY <1>1 DEF BlockDevNodes
<1> QED
  BY <1>1, <1>2, <1>3, <1>4

\* All others are images of the container.
LEMMA ImagesExplicit ==
    ASSUME NEW p, NEW c, ~IsDetached(p), NEW b \in BlockDevs(p, c)
    PROVE  b.explicit
<1> DEFINE d == [source |-> p.path, explicit |-> p.mountedPath = "",
                 mountPoint |-> IF c.type = "rumprun" THEN "/data" ELSE "/"]
           e == [source |-> c.block, explicit |-> TRUE, mountPoint |-> c.blkMntPoint]
<1>1. CASE p.type = "block"
  <2>1. b = d
    BY <1>1 DEF BlockDevs
  <2>2. d.explicit <=> p.mountedPath = ""
    BY Zenon
  <2> HIDE DEF d
  <2> QED
    BY <1>1, <2>1, <2>2 DEF IsDetached
<1>2. CASE p.type # "block"
  <2>1. b = e
    BY <1>2 DEF BlockDevs
  <2>2. e.explicit
    BY Zenon
  <2> HIDE DEF e
  <2> QED
    BY <2>1, <2>2
<1> QED
  BY <1>1, <1>2

\* Until the rootfs is chosen, and after a failure, there is nothing to show.
LEMMA ReachQuiet ==
    ASSUME ConfInv', RecordInv', BootInv', ~Chosen'
    PROVE  ReachInv'
BY DEF ReachInv, Chosen, Gathering

\* The steps after the choice that leave the files alone.
LEMMA ReachGathering ==
    ASSUME ReachInv, ConfInv', RecordInv', BootInv', Gathering,
           UNCHANGED <<cntr, host, snap, mounted, had, conf, cfg, chosen>>,
           \/ pc' = pc /\ monitor' = monitor
           \/ pc' \in {"save", "created", "running"} /\ pc # "gather" /\ monitor' = monitor
           \/ pc' = "spec" /\ monitor' = <<GetMonitorResources(chosen[1], Conf, host, cfg.memory)>>
    PROVE  ReachInv'
BY DEF ReachInv, Chosen, Gathering, Conf, BootNames

LEMMA ReachInvInit == Init => ReachInv
BY ConfInvInit, RecordInvInit, BootInvInit DEF Init, ReachInv, Chosen, Gathering

LEMMA ReachInvNext == ReachInv /\ [Next]_vars => ReachInv'
<1> SUFFICES ASSUME ReachInv, [Next]_vars PROVE ReachInv'
  OBVIOUS
<1> USE DEF Goto, given, bundle, memory, records
<1>i. ConfInv' /\ RecordInv' /\ BootInv'
  BY ConfInvNext, RecordInvNext, BootInvNext DEF ReachInv
<1>0. CASE UNCHANGED vars
  BY <1>0, <1>i DEF vars, ReachInv, Chosen, Gathering, Conf, BootNames
<1>1. CASE EditConfig
  BY <1>1, <1>i DEF EditConfig, ReachInv, Chosen, Gathering, Conf, BootNames
<1>2. CASE InjectUruncAnnotations
  BY <1>2, <1>i, ReachQuiet DEF InjectUruncAnnotations, Chosen
<1>3. CASE InjectFails
  BY <1>3, <1>i, ReachQuiet DEF InjectFails, Chosen
<1>4. CASE LoadConfig
  BY <1>4, <1>i, ReachQuiet DEF LoadConfig, Chosen
<1>5. CASE NewHandsOver
  BY <1>5, <1>i, ReachQuiet DEF NewHandsOver, Chosen
<1>6. CASE New
  <2>1. pc' \in {"choose", "failed"}
    BY <1>6 DEF New
  <2> QED
    BY <2>1, <1>i, ReachQuiet DEF Chosen
<1>7. CASE Choose
  <2>1. /\ pc = "choose" /\ UNCHANGED <<cntr, snap, mounted, had, conf>>
        /\ \/ pc' = "failed"
           \/ \E h \in Looks : \E p \in ChooseRootfs(Conf, h) :
                chosen' = <<p>> /\ pc' = IF IsDetached(p) THEN "mountfiles" ELSE "gather"
    BY <1>7 DEF Choose
  <2>2. CASE pc' = "failed"
    BY <1>i, <2>2, ReachQuiet DEF Chosen
  <2>3. ASSUME NEW h \in Looks, NEW p \in ChooseRootfs(Conf, h),
               chosen' = <<p>>, pc' = IF IsDetached(p) THEN "mountfiles" ELSE "gather"
        PROVE  ReachInv'
    <3>1. IsDetached(p) => SupportsBlock(Conf.type)
      BY DetachedBlock
    <3>2. chosen'[1] = p /\ Conf' = Conf
      BY <2>1, <2>3 DEF Conf
    <3>3. mounted /\ snap = had
      BY <2>1 DEF ReachInv, BootInv, ConfInv
    <3>4. CASE IsDetached(p)
      BY <1>i, <2>1, <2>3, <3>1, <3>2, <3>4 DEF ReachInv, Chosen, Gathering
    <3>5. CASE ~IsDetached(p)
      BY <1>i, <2>1, <2>3, <3>2, <3>3, <3>5 DEF ReachInv, Chosen, Gathering
    <3> QED
      BY <3>4, <3>5
  <2> QED
    BY <2>1, <2>2, <2>3
<1>8. CASE CopyMountFiles
  <2>1. /\ pc = "mountfiles" /\ pc' = "copy" /\ UNCHANGED <<cntr, conf, chosen>>
        /\ snap' = snap \cup cntr.mounts
    BY <1>8 DEF CopyMountFiles
  <2>2. Conf' = Conf /\ cntr.mounts \subseteq snap'
    BY <2>1 DEF Conf
  <2> QED
    BY <1>i, <2>1, <2>2 DEF ReachInv, Chosen, Gathering
<1>9. CASE CopyBootFile
  <2>1. /\ pc = "copy" /\ pc' \in {"remove", "failed"} /\ UNCHANGED <<cntr, snap, conf, chosen>>
    BY <1>9 DEF CopyBootFile
  <2>2. Conf' = Conf /\ BootNames' = BootNames
    BY <2>1 DEF Conf, BootNames
  <2> QED
    BY <1>i, <2>1, <2>2 DEF ReachInv, Chosen, Gathering
<1>10. CASE RemoveBootFile
  <2>1. /\ pc = "remove" /\ pc' = "copy" /\ UNCHANGED <<cntr, conf, chosen>>
        /\ snap' = snap \ {Head(moving)}
    BY <1>10 DEF RemoveBootFile
  <2>2. Conf' = Conf /\ BootNames' = BootNames
    BY <2>1 DEF Conf, BootNames
  <2>3. Head(moving) \in BootNames
    <3>1. moving \in Seq(BootNames) /\ moving # <<>>
      BY <2>1 DEF ReachInv, BootInv
    <3> QED
      BY <3>1, HeadTailProperties
  <2>4. cntr.mounts \subseteq snap' \cup BootNames'
    BY <2>1, <2>2, <2>3 DEF ReachInv, Chosen
  <2> QED
    BY <1>i, <2>1, <2>2, <2>4 DEF ReachInv, Chosen, Gathering
<1>11. CASE UnmountRootfs
  <2>1. /\ pc = "copy" /\ pc' = "gather" /\ UNCHANGED <<cntr, snap, conf, chosen>>
        /\ mounted' = FALSE
    BY <1>11 DEF UnmountRootfs
  <2>2. Conf' = Conf /\ BootNames' = BootNames
    BY <2>1 DEF Conf, BootNames
  <2> QED
    BY <1>i, <2>1, <2>2 DEF ReachInv, Chosen, Gathering
<1>12. CASE SaveMonitorResources
  <2>1. /\ pc = "gather" /\ UNCHANGED <<cntr, host, snap, mounted, had, conf, cfg, chosen>>
        /\ \/ pc' = "failed"
           \/ pc' = "spec" /\ monitor' = <<GetMonitorResources(chosen[1], Conf, host, cfg.memory)>>
    BY <1>12 DEF SaveMonitorResources
  <2>2. CASE pc' = "failed"
    BY <1>i, <2>2, ReachQuiet DEF Chosen
  <2>3. CASE pc' # "failed"
    BY <1>i, <2>1, <2>3, ReachGathering DEF Gathering
  <2> QED
    BY <2>2, <2>3
<1>13. CASE WriteMonitorSpec
  BY <1>13, <1>i, ReachGathering DEF WriteMonitorSpec, Gathering
<1>14. CASE SaveContainerState
  BY <1>14, <1>i, ReachGathering DEF SaveContainerState, Gathering
<1>15. CASE CreateFails
  BY <1>15, <1>i, ReachQuiet DEF CreateFails, Chosen
<1>16. CASE Exec
  BY <1>16, <1>i, ReachGathering DEF Exec, Gathering
<1>17. CASE CreateAgain
  BY <1>17, <1>i, ReachQuiet DEF CreateAgain, Chosen
<1> QED
  BY <1>0, <1>1, <1>2, <1>3, <1>4, <1>5, <1>6, <1>7, <1>8, <1>9, <1>10, <1>11, <1>12, <1>13,
     <1>14, <1>15, <1>16, <1>17
  DEF Next

\* A monitor finds what it is told to open: in the bundle if the snapshot has
\* become its block device, else in the mounted snapshot; and a device node for
\* a block device of the host.
THEOREM MonitorFindsSources == Spec => []SourcesReachable
<1>1. (ReachInv /\ TypeInv) => SourcesReachable
  <2> SUFFICES ASSUME ReachInv, TypeInv, pc = "running" PROVE SourcesReachable
    BY DEF SourcesReachable
  <2> DEFINE p == chosen[1]
             m == monitor[1]
             a == args[1]
  <2>1. /\ m = GetMonitorResources(p, Conf, host, cfg.memory)
        /\ a = BuildMonitorSpec(Conf, cfg, m)
        /\ ConfInv
    BY DEF ReachInv, RecordInv
  <2>2. /\ m.rootfs = p /\ m.cntrMount = ContainerRootfsMount(p, Conf)
        /\ m.devices = MonitorDevices(Conf, host) \cup BlockDevNodes(p, Conf)
        /\ m.blocks = BlockDevs(p, Conf)
        /\ a.blocks = BlockDevs(p, Conf)
        /\ a.kernel = Conf.binary /\ a.initrd = Conf.initrd /\ a.snapshot = Conf.snapshot
    <3>1. /\ m.rootfs = p /\ m.cntrMount = ContainerRootfsMount(p, Conf)
          /\ m.devices = MonitorDevices(Conf, host) \cup BlockDevNodes(p, Conf)
          /\ m.blocks = BlockDevs(p, Conf)
      BY <2>1 DEF GetMonitorResources
    <3>2. /\ a.blocks = m.blocks
          /\ a.kernel = Conf.binary /\ a.initrd = Conf.initrd /\ a.snapshot = Conf.snapshot
      BY <2>1 DEF BuildMonitorSpec
    <3> QED
      BY <3>1, <3>2
  <2>3. /\ cntr.mounts \subseteq snap \cup BootNames \/ ~IsDetached(p)
        /\ had \subseteq snap \cup monfs
        /\ IF IsDetached(p) THEN ~mounted /\ BootNames \ {""} \subseteq monfs
           ELSE mounted /\ had \subseteq snap
    BY DEF ReachInv, Chosen, Gathering, BootInv, BootFilesSurvive, BootNames
  <2> HIDE DEF p, m, a
  <2>4. CASE IsDetached(p)
    <3>1. m.cntrMount = {}
      BY <2>2, <2>4 DEF ContainerRootfsMount
    <3>2. ContainerRootfs(m) = monfs
      BY <3>1 DEF ContainerRootfs
    <3>3. Conf.snapshot = ""
      <4>1. SupportsBlock(Conf.type) /\ ValidateValues(Conf)
        BY <2>4 DEF ReachInv, ConfInv, Configured, Chosen, p
      <4>2. ASSUME Conf.snapshot # "" PROVE FALSE
        <5>1. Conf.hypervisor = "hyperlight-unikraft"
          BY <4>1, <4>2 DEF ValidateValues, ValidateSnapshot
        <5>2. Conf.type = "unikraft"
          BY <4>1, <5>1 DEF ValidateValues, SupportedGuestMonitorPairs
        <5>3. ~SupportsBlock("unikraft")
          BY DEF SupportsBlock, NewUnikernel, Unikraft
        <5> QED
          BY <4>1, <5>2, <5>3
      <4> QED
        BY <4>2
    <3>4. "" \notin had
      <4>1. had \subseteq cntr.files \cup cntr.mounts
        BY <2>3 DEF TypeInv, TypeOK
      <4> QED
        BY <2>1, <4>1, ImageAssumption DEF ConfInv
    <3>5. {a.kernel, a.initrd, a.snapshot} \cap had \subseteq ContainerRootfs(m)
      BY <2>2, <2>3, <2>4, <3>2, <3>3, <3>4 DEF BootNames
    <3>6. \A b \in a.blocks : ~b.explicit /\ b.source \in m.devices
      BY <2>2, <2>4, DetachedDevice
    <3> QED
      BY <2>2, <2>3, <2>4, <3>5, <3>6 DEF SourcesReachable, BootNames, m, a
  <2>5. CASE ~IsDetached(p)
    <3>1. m.cntrMount # {}
      BY <2>2, <2>5 DEF ContainerRootfsMount
    <3>2. ContainerRootfs(m) = snap
      BY <2>3, <2>5, <3>1 DEF ContainerRootfs
    <3>3. had \subseteq ContainerRootfs(m)
      BY <2>3, <2>5, <3>2
    <3>4. \A b \in a.blocks : b.explicit
      BY <2>2, <2>5, ImagesExplicit
    <3> QED
      BY <2>2, <2>5, <3>3, <3>4 DEF SourcesReachable, m, a
  <2> QED
    BY <2>4, <2>5
<1>2. Spec => []TypeInv
  BY ConfAlways, TypeInvInit, TypeInvNext, PTL DEF Spec
<1> QED
  BY <1>1, <1>2, ReachInvInit, ReachInvNext, PTL DEF Spec
==============================================================================
