---------------------------- MODULE LifecycleProofs ----------------------------
(***************************************************************************)
(* Proofs about Lifecycle, for any number of invocations.  The caller is   *)
(* assumed to keep create apart from the other commands and to keep the    *)
(* bundle (Contract); nothing is assumed about start, kill and delete,     *)
(* which may overlap in any way, nor about which process is killed when.   *)
(***************************************************************************)
EXTENDS Lifecycle, TLAPS

Contract == SerialCreate /\ ~BundleMayVanish

-----------------------------------------------------------------------------
(* The inductive invariant *)

\* An invocation is at a point of its own command.
PcsOf(c) ==
    CASE c = "none" -> {"idle"}
      [] c = "create" -> CreatePcs \cup EndPcs
      [] c = "start" -> StartPcs \cup EndPcs
      [] c = "kill" -> KillPcs \cup EndPcs
      [] OTHER -> DeletePcs \cup EndPcs

PcOK == \A p \in Procs : pc[p] \in PcsOf(cmd[p])

\* A create runs alone, and no released process exists until it releases its own.
CreateAlone ==
    \A p \in Procs : Creating(p) =>
        /\ \A q \in Procs : InProgress(q) => q = p
        /\ pc[p] # "drain_ok" => \A c \in Procs : ~Armed(c)

\* The base directory and state.json as the running create left them.
CreateOwnsDir ==
    \A p \in Procs : Creating(p) =>
        /\ pc[p] = "prepare" => dir = NoProc
        /\ pc[p] # "prepare" => dir = p
        /\ pc[p] \in {"save_created", "write_created"} => view[p].pid = p
        /\ pc[p] = "write_created" => p \in open
        /\ pc[p] \in {"hooks", "ack"} => file = [status |-> "created", pid |-> p]

\* Only a create that wrote UC_ACK has released its process.
AckedByCreate ==
    \A c \in Procs : ack[c] \/ Armed(c) => cmd[c] = "create" /\ pc[c] \in {"drain_ok"} \cup EndPcs

\* Every command that has read state.json holds the pid of a released process.
ViewsAgree ==
    \A p, c \in Procs :
        /\ cmd[p] # "create" /\ InProgress(p) /\ pc[p] # "get"
        /\ Armed(c)
        => view[p].pid = c

\* A delete that passed its liveness check has nothing alive behind it.
DeleteAfterStop ==
    \A p \in Procs : Deleting(p) /\ pc[p] \in {"release", "remove"} =>
        \A c \in Procs : ~Armed(c)

KnownInv ==
    /\ TypeOK
    /\ bundle = TRUE
    /\ PcOK
    /\ CreateAlone
    /\ CreateOwnsDir
    /\ AckedByCreate
    /\ ViewsAgree
    /\ DeleteAfterStop
    /\ LiveMonitorIsKnown

-----------------------------------------------------------------------------
(* The invariant behind the outcome of a start *)

\* Where a create is once it has spawned its process, and once it has released it.
SpawnedPcs  == {"save_created", "write_created", "hooks", "ack", "drain_ok", "drain_fail"} \cup EndPcs
ReleasedPcs == {"drain_ok"} \cup EndPcs

\* A reexec process belongs to a create that has spawned it.
SpawnedByCreate == \A c \in Procs : rx[c] # "none" => cmd[c] = "create" /\ pc[c] \in SpawnedPcs

\* A reexec process connects once, after it was released, to a start that has
\* read its pid; the start has not forgotten the pid since.
ConnectsToReader ==
    \A c \in Procs :
      /\ rx[c] \in {"exec", "ready", "monitor"} => uconn[c] # NoProc
      /\ uconn[c] # NoProc =>
        /\ rx[c] \in {"exec", "ready", "monitor", "zombie", "dead"}
        /\ pc[c] \in ReleasedPcs
        /\ cmd[uconn[c]] = "start" /\ pc[uconn[c]] \in ListenPcs \cup EndPcs
        /\ view[uconn[c]].pid = c

\* A reexec process reports once, when it has connected.
ReportsOnce ==
    \A c \in Procs : msg[c] # "none" =>
        rx[c] \in {"ready", "monitor", "zombie", "dead"} /\ uconn[c] # NoProc

\* A start goes on only after RX_SUCCESS of the process it found in state.json.
SavesAfterReport ==
    \A s \in Procs :
        cmd[s] = "start" /\ pc[s] \in {"save_running", "write_running", "poststart", "ok"} =>
            \E c \in Procs : view[s].pid = c /\ uconn[c] = s /\ msg[c] = "success"

OutcomeInv ==
    /\ KnownInv
    /\ SpawnedByCreate
    /\ ConnectsToReader
    /\ ReportsOnce
    /\ SavesAfterReport
    /\ RunningMeansReported

-----------------------------------------------------------------------------
(* Type correctness *)

\* Every step is one of the actions of the model.
LEMMA NextCases ==
    ASSUME Next
    PROVE  \/ \E p \in Procs :
               \/ \E c \in Commands : Begin(p, c)
               \/ SaveOpen(p) \/ SaveFails(p) \/ SaveWrite(p)
               \/ CreatePrepare(p) \/ CreateSpawn(p) \/ CreateHooks(p) \/ CreateAck(p)
               \/ CreateDrain(p) \/ Get(p) \/ StartListen(p) \/ StartDial(p) \/ StartSend(p)
               \/ StartAwait(p) \/ StartPoststart(p) \/ KillSignal(p)
               \/ DeleteGet(p) \/ DeleteKill(p) \/ DeleteReap(p) \/ DeleteCheck(p)
               \/ DeleteRelease(p) \/ DeleteRemove(p)
               \/ RxBoot(p) \/ RxAwaitAck(p) \/ RxGet(p) \/ RxListen(p) \/ RxAwaitStart(p)
               \/ RxUnlisten(p) \/ RxConnect(p) \/ RxExec(p) \/ RxExecMonitor(p)
               \/ Reap(p) \/ CliDies(p) \/ RxDies(p)
           \/ BundleVanishes
BY Zenon DEF Next, CliStep, SaveStep, CreateStep, StartStep, DeleteStep, RxStep

\* The variables of the model of the commands, of the reexec process and of
\* state.json keep their types, whatever the caller does.
THEOREM TypeCorrect == Spec => []TypeOK
<1> USE ConstAssumption DEF OptProc, States, vars, cliVars, diskVars, rxVars, sockVars
<1>1. Init => TypeOK
  BY DEF Init, TypeOK, NoFile, Pcs, RxPcs
<1>2. TypeOK /\ [Next]_vars => TypeOK'
  <2> SUFFICES ASSUME TypeOK, [Next]_vars PROVE TypeOK'
    OBVIOUS
  <2> USE DEF TypeOK
  <2>1. ASSUME NEW p \in Procs, NEW c \in Commands, Begin(p, c) PROVE TypeOK'
    BY <2>1 DEF Begin, Goto, FirstPc, AllCommands, Pcs, CreatePcs, StartPcs
  <2>2. ASSUME NEW p \in Procs, SaveOpen(p) PROVE TypeOK'
    BY <2>2 DEF SaveOpen, Goto, SavePcs, AfterSave, Torn, Pcs, EndPcs, CreatePcs, StartPcs, ListenPcs, KillPcs, DeletePcs
  <2>3. ASSUME NEW p \in Procs, SaveFails(p) PROVE TypeOK'
    BY <2>3 DEF SaveFails, Goto, SavePcs, DestroyStartListener, Pcs, EndPcs, CreatePcs, StartPcs, ListenPcs, KillPcs, DeletePcs
  <2>4. ASSUME NEW p \in Procs, SaveWrite(p) PROVE TypeOK'
    BY <2>4 DEF SaveWrite, Goto, WritePcs, Saved, Statuses, Pcs, EndPcs, CreatePcs, StartPcs, ListenPcs, KillPcs, DeletePcs
  <2>5. ASSUME NEW p \in Procs, CreatePrepare(p) PROVE TypeOK'
    BY <2>5 DEF CreatePrepare, Goto, Statuses, Pcs, EndPcs, CreatePcs, StartPcs, ListenPcs, KillPcs, DeletePcs
  <2>6. ASSUME NEW p \in Procs, CreateSpawn(p) PROVE TypeOK'
    <3>1. pc' \in [Procs -> Pcs]
      BY <2>6 DEF CreateSpawn, Goto, Pcs, EndPcs, CreatePcs
    <3>2. rx' \in [Procs -> RxPcs]
      BY <2>6 DEF CreateSpawn, RxGoto, RxPcs, AliveRx
    <3>3. view' \in [Procs -> States]
      BY <2>6 DEF CreateSpawn
    <3> QED
      BY <2>6, <3>1, <3>2, <3>3 DEF CreateSpawn
  <2>7. ASSUME NEW p \in Procs, CreateHooks(p) PROVE TypeOK'
    BY <2>7 DEF CreateHooks, Goto, Pcs, EndPcs, CreatePcs, StartPcs, ListenPcs, KillPcs, DeletePcs
  <2>8. ASSUME NEW p \in Procs, CreateAck(p) PROVE TypeOK'
    <3>1. pc' \in [Procs -> Pcs]
      BY <2>8 DEF CreateAck, Goto, Pcs, CreatePcs
    <3>2. ack' \in [Procs -> BOOLEAN]
      BY <2>8 DEF CreateAck
    <3> QED
      BY <2>8, <3>1, <3>2 DEF CreateAck
  <2>9. ASSUME NEW p \in Procs, Get(p) PROVE TypeOK'
    BY <2>9 DEF Get, Goto, Pcs, EndPcs, CreatePcs, StartPcs, ListenPcs, KillPcs, DeletePcs
  <2>10. ASSUME NEW p \in Procs, StartListen(p) PROVE TypeOK'
    BY <2>10 DEF StartListen, Goto, Pcs, EndPcs, CreatePcs, StartPcs, ListenPcs, KillPcs, DeletePcs
  <2>11. ASSUME NEW p \in Procs, StartDial(p) PROVE TypeOK'
    <3>1. pc' = [pc EXCEPT ![p] = "send"] \/ pc' = [pc EXCEPT ![p] = "fail"]
      BY <2>11 DEF StartDial, Goto
    <3>2. usock' \in OptProc /\ dialed' \in [Procs -> OptProc]
      BY <2>11 DEF StartDial, DestroyStartListener
    <3> QED
      BY <2>11, <3>1, <3>2 DEF StartDial, Pcs, EndPcs, StartPcs, ListenPcs
  <2>12. ASSUME NEW p \in Procs, StartSend(p) PROVE TypeOK'
    <3>1. pc' \in [Procs -> Pcs]
      BY <2>12 DEF StartSend, Goto, Pcs, EndPcs, StartPcs, ListenPcs
    <3>2. sent' \in [Procs -> BOOLEAN] /\ usock' \in OptProc
      BY <2>12 DEF StartSend, DestroyStartListener
    <3> QED
      BY <2>12, <3>1, <3>2 DEF StartSend
  <2>13. ASSUME NEW p \in Procs, StartAwait(p) PROVE TypeOK'
    BY <2>13 DEF StartAwait, Goto, DestroyStartListener, Pcs, EndPcs, CreatePcs, StartPcs, ListenPcs, KillPcs, DeletePcs
  <2>14. ASSUME NEW p \in Procs, StartPoststart(p) PROVE TypeOK'
    BY <2>14 DEF StartPoststart, Goto, DestroyStartListener, Pcs, EndPcs, CreatePcs, StartPcs, ListenPcs, KillPcs, DeletePcs
  <2>15. ASSUME NEW p \in Procs, KillSignal(p) PROVE TypeOK'
    BY <2>15 DEF KillSignal, Goto, RxGoto, RxExit, Pcs, RxPcs, AliveRx, ArmedRx, EndPcs, CreatePcs, StartPcs, ListenPcs, KillPcs, DeletePcs
  <2>16. ASSUME NEW p \in Procs, DeleteGet(p) PROVE TypeOK'
    BY <2>16 DEF DeleteGet, Goto, RemoveBaseDir, NoFile, Pcs, EndPcs, CreatePcs, StartPcs, ListenPcs, KillPcs, DeletePcs
  <2>17. ASSUME NEW p \in Procs, DeleteKill(p) PROVE TypeOK'
    BY <2>17 DEF DeleteKill, Goto, RxGoto, RxExit, Pcs, RxPcs, AliveRx, ArmedRx, EndPcs, CreatePcs, StartPcs, ListenPcs, KillPcs, DeletePcs
  <2>18. ASSUME NEW p \in Procs, DeleteReap(p) PROVE TypeOK'
    BY <2>18 DEF DeleteReap, Goto, Pcs, EndPcs, CreatePcs, StartPcs, ListenPcs, KillPcs, DeletePcs
  <2>19. ASSUME NEW p \in Procs, DeleteCheck(p) PROVE TypeOK'
    BY <2>19 DEF DeleteCheck, Goto, Pcs, EndPcs, CreatePcs, StartPcs, ListenPcs, KillPcs, DeletePcs
  <2>20. ASSUME NEW p \in Procs, DeleteRelease(p) PROVE TypeOK'
    BY <2>20 DEF DeleteRelease, Goto, Pcs, EndPcs, CreatePcs, StartPcs, ListenPcs, KillPcs, DeletePcs
  <2>21. ASSUME NEW p \in Procs, DeleteRemove(p) PROVE TypeOK'
    BY <2>21 DEF DeleteRemove, Goto, RemoveBaseDir, NoFile, Pcs, EndPcs, CreatePcs, StartPcs, ListenPcs, KillPcs, DeletePcs
  <2>22. ASSUME NEW p \in Procs, RxAwaitAck(p) PROVE TypeOK'
    <3>1. rx' \in [Procs -> RxPcs]
      BY <2>22 DEF RxAwaitAck, RxGoto, RxExit, RxPcs, AliveRx, ArmedRx
    <3>2. ack' \in [Procs -> BOOLEAN]
      BY <2>22 DEF RxAwaitAck
    <3> QED
      BY <2>22, <3>1, <3>2 DEF RxAwaitAck
  <2>23. ASSUME NEW p \in Procs, RxGet(p) PROVE TypeOK'
    BY <2>23 DEF RxGet, RxGoto, RxExit, RxPcs, AliveRx, ArmedRx
  <2>24. ASSUME NEW p \in Procs, RxListen(p) PROVE TypeOK'
    BY <2>24 DEF RxListen, RxGoto, RxExit, RxPcs, AliveRx, ArmedRx
  <2>25. ASSUME NEW p \in Procs, RxAwaitStart(p) PROVE TypeOK'
    <3>1. rx' \in [Procs -> RxPcs]
      BY <2>25 DEF RxAwaitStart, RxGoto, RxExit, RxPcs, AliveRx, ArmedRx
    <3>2. dialed' \in [Procs -> OptProc]
      BY <2>25 DEF RxAwaitStart
    <3> QED
      BY <2>25, <3>1, <3>2 DEF RxAwaitStart
  <2>26. ASSUME NEW p \in Procs, RxUnlisten(p) PROVE TypeOK'
    BY <2>26 DEF RxUnlisten, RxGoto, RxExit, RxPcs, AliveRx, ArmedRx
  <2>27. ASSUME NEW p \in Procs, RxConnect(p) PROVE TypeOK'
    <3>1. rx' \in [Procs -> RxPcs]
      BY <2>27 DEF RxConnect, RxGoto, RxExit, RxPcs, AliveRx, ArmedRx
    <3>2. uconn' \in [Procs -> OptProc]
      BY <2>27 DEF RxConnect
    <3> QED
      BY <2>27, <3>1, <3>2 DEF RxConnect
  <2>28. ASSUME NEW p \in Procs, RxExec(p) PROVE TypeOK'
    <3>1. rx' \in [Procs -> RxPcs]
      BY <2>28 DEF RxExec, RxGoto, RxExit, RxPcs, AliveRx, ArmedRx
    <3>2. msg' \in [Procs -> {"none", "success", "error"}]
      BY <2>28 DEF RxExec
    <3> QED
      BY <2>28, <3>1, <3>2 DEF RxExec
  <2>29. ASSUME NEW p \in Procs, RxExecMonitor(p) PROVE TypeOK'
    BY <2>29 DEF RxExecMonitor, RxGoto, RxExit, RxPcs, AliveRx, ArmedRx
  <2>30. ASSUME NEW p \in Procs, Reap(p) PROVE TypeOK'
    BY <2>30 DEF Reap, RxGoto, RxExit, RxPcs, AliveRx, ArmedRx
  <2>31. ASSUME NEW p \in Procs, CliDies(p) PROVE TypeOK'
    BY <2>31 DEF CliDies, Goto, Pcs, EndPcs, CreatePcs, StartPcs, ListenPcs, KillPcs, DeletePcs
  <2>32. ASSUME NEW p \in Procs, RxDies(p) PROVE TypeOK'
    BY <2>32 DEF RxDies, RxGoto, RxExit, RxPcs, AliveRx, ArmedRx
  <2>33. CASE BundleVanishes
    BY <2>33 DEF BundleVanishes
  <2>34. CASE UNCHANGED vars
    BY <2>34
  <2>35. ASSUME NEW p \in Procs, CreateDrain(p) PROVE TypeOK'
    BY <2>35 DEF CreateDrain, Goto, Pcs, EndPcs
  <2>36. ASSUME NEW p \in Procs, RxBoot(p) PROVE TypeOK'
    BY <2>36 DEF RxBoot, RxGoto, RxPcs, AliveRx
  <2> QED
    BY NextCases, <2>1, <2>2, <2>3, <2>4, <2>5, <2>6, <2>7, <2>8, <2>9, <2>10, <2>11, <2>12, <2>13, <2>14, <2>15, <2>16, <2>17, <2>18, <2>19, <2>20, <2>21, <2>22, <2>23, <2>24, <2>25, <2>26, <2>27, <2>28, <2>29, <2>30, <2>31, <2>32, <2>33, <2>34, <2>35, <2>36
<1> QED
  BY <1>1, <1>2, PTL DEF Spec

-----------------------------------------------------------------------------
(* LiveMonitorIsKnown and DeleteOnlyStopped *)

\* The points of each command.
LEMMA PcsOfValues ==
    /\ PcsOf("create") = CreatePcs \cup EndPcs
    /\ PcsOf("start") = StartPcs \cup EndPcs
    /\ PcsOf("kill") = KillPcs \cup EndPcs
    /\ PcsOf("delete") = DeletePcs \cup EndPcs
    /\ PcsOf("forcedelete") = DeletePcs \cup EndPcs
BY DEF PcsOf

\* A step that leaves the commands and the disk alone and releases no process
\* keeps KnownInv: the steps of the reexec process, its death and its reaping.
LEMMA QuietStep ==
    ASSUME KnownInv, TypeOK', UNCHANGED <<cliVars, bundle, diskVars>>,
           \A c \in Procs : (Armed(c)' => Armed(c)) /\ (ack'[c] => ack[c])
    PROVE  KnownInv'
<1> USE DEF KnownInv, cliVars, diskVars
<1>1. PcOK' /\ CreateOwnsDir'
  BY DEF PcOK, CreateOwnsDir, Creating, InProgress
<1>2. CreateAlone' /\ AckedByCreate'
  BY DEF CreateAlone, AckedByCreate, Creating, InProgress
<1>3. ViewsAgree' /\ DeleteAfterStop' /\ LiveMonitorIsKnown'
  BY DEF ViewsAgree, DeleteAfterStop, LiveMonitorIsKnown, InProgress, Deleting
<1> QED
  BY <1>1, <1>2, <1>3

\* A step of a start, kill or delete keeps KnownInv if what it leaves on disk
\* and in memory agrees with the released process.
LEMMA CommandStep ==
    ASSUME KnownInv, TypeOK', NEW p \in Procs, NEW to \in PcsOf(cmd[p]),
           cmd[p] # "create", InProgress(p), to # "get",
           pc' = [pc EXCEPT ![p] = to], UNCHANGED <<cmd, bundle, ack>>,
           \A c \in Procs : Armed(c)' => Armed(c),
           \A q \in Procs : q # p => view'[q] = view[q],
           \A c \in Procs : Armed(c)' /\ to \notin EndPcs => view'[p].pid = c,
           Deleting(p) /\ to \in {"release", "remove"} => \A c \in Procs : ~Armed(c)',
           LiveMonitorIsKnown'
    PROVE  KnownInv'
<1> USE DEF KnownInv, TypeOK
<1>1. \A q \in Procs : ~Creating(q)
  BY DEF CreateAlone, Creating
<1>2. \A q \in Procs : ~Creating(q)'
  BY <1>1 DEF Creating, InProgress
<1>3. PcOK'
  BY DEF PcOK
<1>4. AckedByCreate'
  <2> SUFFICES ASSUME NEW c \in Procs, ack'[c] \/ Armed(c)'
               PROVE  cmd'[c] = "create" /\ pc'[c] \in {"drain_ok"} \cup EndPcs
    BY DEF AckedByCreate
  <2>1. cmd[c] = "create" /\ pc[c] \in {"drain_ok"} \cup EndPcs
    BY DEF AckedByCreate
  <2> QED
    BY <2>1
<1>5. ViewsAgree'
  <2> SUFFICES ASSUME NEW q \in Procs, NEW c \in Procs,
                      cmd'[q] # "create", InProgress(q)', pc'[q] # "get", Armed(c)'
               PROVE  view'[q].pid = c
    BY DEF ViewsAgree
  <2>1. CASE q = p
    BY <2>1 DEF InProgress
  <2>2. CASE q # p
    BY <2>2 DEF ViewsAgree, InProgress
  <2> QED
    BY <2>1, <2>2
<1>6. DeleteAfterStop'
  BY DEF DeleteAfterStop, Deleting
<1> QED
  BY <1>2, <1>3, <1>4, <1>5, <1>6 DEF CreateAlone, CreateOwnsDir

\* A step of a create before it releases its process keeps KnownInv if the base
\* directory stays its own.
LEMMA BuildStep ==
    ASSUME KnownInv, TypeOK', NEW p \in Procs, NEW to \in CreatePcs \cup EndPcs,
           Creating(p), pc[p] # "drain_ok", to # "drain_ok",
           pc' = [pc EXCEPT ![p] = to], UNCHANGED <<cmd, bundle, ack>>,
           \A c \in Procs : ~Armed(c)',
           Creating(p)' => /\ to # "prepare" /\ dir' = p
                           /\ to \in {"save_created", "write_created"} => view'[p].pid = p
                           /\ to = "write_created" => p \in open'
                           /\ to \in {"hooks", "ack"} => file' = [status |-> "created", pid |-> p]
    PROVE  KnownInv'
<1> USE DEF KnownInv, TypeOK
<1>1. \A q \in Procs : q # p => ~InProgress(q) /\ ~InProgress(q)'
  BY DEF CreateAlone, InProgress
<1>2. CreateAlone'
  BY <1>1 DEF CreateAlone, Creating
<1>3. CreateOwnsDir'
  BY <1>1 DEF CreateOwnsDir, Creating
<1>4. PcOK'
  BY DEF PcOK, PcsOf, Creating
<1>5. AckedByCreate'
  <2> SUFFICES ASSUME NEW c \in Procs, ack[c]
               PROVE  cmd[c] = "create" /\ pc'[c] \in {"drain_ok"} \cup EndPcs
    BY DEF AckedByCreate
  <2>1. pc[c] \in {"drain_ok"} \cup EndPcs /\ cmd[c] = "create"
    BY DEF AckedByCreate
  <2>2. c # p
    BY <2>1 DEF Creating, InProgress, EndPcs
  <2> QED
    BY <2>1, <2>2
<1> QED
  BY <1>2, <1>3, <1>4, <1>5 DEF ViewsAgree, DeleteAfterStop, LiveMonitorIsKnown

\* Nothing is released and nothing is on disk initially.
LEMMA KnownInvInit == Init => KnownInv
BY ConstAssumption
   DEF Init, KnownInv, TypeOK, PcOK, PcsOf, CreateAlone, CreateOwnsDir, AckedByCreate, ViewsAgree,
       DeleteAfterStop, LiveMonitorIsKnown, Creating, InProgress, Armed, ArmedRx, NoFile, States,
       OptProc, Pcs, RxPcs, Deleting, AllCommands

\* The steps of the reexec process release nothing.
LEMMA RxKeepsKnown ==
    ASSUME KnownInv, TypeOK', NEW c \in Procs, RxStep(c) \/ Reap(c) \/ RxDies(c)
    PROVE  KnownInv'
<1> USE DEF KnownInv, TypeOK, Armed, ArmedRx, RxGoto, RxExit, cliVars, diskVars
<1>0. SUFFICES /\ UNCHANGED <<cliVars, bundle, diskVars>>
               /\ \A d \in Procs : (Armed(d)' => Armed(d)) /\ (ack'[d] => ack[d])
  BY QuietStep
<1>0a. CASE RxBoot(c)
  BY <1>0a DEF RxBoot
<1>1. CASE RxAwaitAck(c)
  BY <1>1 DEF RxAwaitAck
<1>2. CASE RxGet(c)
  BY <1>2 DEF RxGet
<1>3. CASE RxListen(c)
  BY <1>3 DEF RxListen
<1>4. CASE RxAwaitStart(c)
  BY <1>4 DEF RxAwaitStart
<1>5. CASE RxUnlisten(c)
  BY <1>5 DEF RxUnlisten
<1>6. CASE RxConnect(c)
  BY <1>6 DEF RxConnect
<1>7. CASE RxExec(c)
  BY <1>7 DEF RxExec
<1>8. CASE RxExecMonitor(c)
  BY <1>8 DEF RxExecMonitor
<1>9. CASE Reap(c)
  BY <1>9 DEF Reap
<1>10. CASE RxDies(c)
  BY <1>10 DEF RxDies, AliveRx
<1> QED
  BY <1>0a, <1>1, <1>2, <1>3, <1>4, <1>5, <1>6, <1>7, <1>8, <1>9, <1>10 DEF RxStep

\* The steps of start and kill agree with the released process: they were
\* issued after its create returned and read its pid.
LEMMA StartKillKeepKnown ==
    ASSUME KnownInv, TypeOK', NEW p \in Procs, cmd[p] \in {"start", "kill"},
           \/ SaveStep(p) \/ Get(p) \/ StartStep(p) \/ KillSignal(p) \/ CliDies(p)
    PROVE  KnownInv'
<1> USE DEF KnownInv, TypeOK
<1>1. InProgress(p) /\ cmd[p] # "create" /\ ~Deleting(p)
  BY DEF SaveStep, SaveOpen, SaveFails, SaveWrite, Get, StartStep, StartListen, StartDial,
         StartSend, StartAwait, StartPoststart, KillSignal, CliDies, InProgress, EndPcs,
         SavePcs, WritePcs, Deleting
<1>2. \A c \in Procs : Armed(c) /\ pc[p] # "get" => view[p].pid = c
  BY <1>1 DEF ViewsAgree
<1>3. CASE SaveOpen(p)
  <2>1. LiveMonitorIsKnown'
    BY <1>3 DEF SaveOpen, LiveMonitorIsKnown, Torn, rxVars, Armed
  <2>2. cmd[p] = "start" /\ pc[p] = "save_running"
    BY <1>3, <1>1, PcsOfValues DEF SaveOpen, SavePcs, PcOK, StartPcs, ListenPcs, KillPcs, EndPcs
  <2>3. pc' = [pc EXCEPT ![p] = "write_running"] /\ "write_running" \in PcsOf(cmd[p])
    BY <1>3, <2>2, PcsOfValues DEF SaveOpen, Goto, SavePcs, AfterSave, StartPcs, ListenPcs
  <2> QED
    BY <1>1, <1>2, <1>3, <2>1, <2>2, <2>3, CommandStep DEF SaveOpen, rxVars, Armed
<1>4. CASE SaveFails(p)
  <2>1. LiveMonitorIsKnown'
    BY <1>4 DEF SaveFails, LiveMonitorIsKnown, rxVars, diskVars, Armed
  <2>2. pc' = [pc EXCEPT ![p] = "fail"]
    <3>1. pc[p] # "save_created"
      BY <1>1, PcsOfValues DEF PcOK, StartPcs, ListenPcs, KillPcs, EndPcs
    <3> QED
      BY <1>4, <3>1 DEF SaveFails, Goto
  <2> QED
    BY <1>1, <1>4, <2>1, <2>2, CommandStep DEF SaveFails, rxVars, Armed, PcsOf, EndPcs
<1>5. CASE SaveWrite(p)
  <2>1. cmd[p] = "start" /\ pc[p] = "write_running"
    BY <1>5, <1>1 DEF SaveWrite, WritePcs, PcOK, PcsOf, StartPcs, ListenPcs, KillPcs, EndPcs
  <2>2. pc' = [pc EXCEPT ![p] = "poststart"] /\ "poststart" \in PcsOf(cmd[p])
    BY <1>5, <2>1 DEF SaveWrite, Goto, Saved, WritePcs, PcsOf, StartPcs, ListenPcs
  <2>3. /\ view' = [view EXCEPT ![p] = [status |-> "running", pid |-> view[p].pid]]
        /\ file' = file \/ file' = [status |-> "running", pid |-> view[p].pid]
    BY <1>5, <2>1 DEF SaveWrite, Saved, WritePcs
  <2>4. LiveMonitorIsKnown'
    BY <1>2, <1>5, <2>1, <2>3 DEF SaveWrite, LiveMonitorIsKnown, rxVars, Armed
  <2>5. UNCHANGED <<cmd, bundle, ack>> /\ \A c \in Procs : Armed(c)' => Armed(c)
    BY <1>5 DEF SaveWrite, rxVars, Armed
  <2>6. /\ \A q \in Procs : q # p => view'[q] = view[q]
        /\ \A c \in Procs : Armed(c)' => view'[p].pid = c
    BY <1>2, <2>1, <2>3, <2>5
  <2> QED
    BY <1>1, <2>2, <2>4, <2>5, <2>6, CommandStep
<1>6. CASE Get(p)
  <2>1. LiveMonitorIsKnown'
    BY <1>6 DEF Get, LiveMonitorIsKnown, rxVars, diskVars, Armed
  <2>2. PICK to \in PcsOf(cmd[p]) : pc' = [pc EXCEPT ![p] = to] /\ to # "get"
    <3>1. CASE cmd[p] = "start"
      BY <1>6, <3>1, PcsOfValues DEF Get, Goto, StartPcs, EndPcs
    <3>2. CASE cmd[p] = "kill"
      BY <1>6, <3>2, PcsOfValues DEF Get, Goto, KillPcs, EndPcs
    <3> QED
      BY <3>1, <3>2
  <2>3. to \notin EndPcs => \A c \in Procs : Armed(c) => view'[p].pid = c
    <3> SUFFICES ASSUME to \notin EndPcs, NEW c \in Procs, Armed(c) PROVE view'[p].pid = c
      OBVIOUS
    <3>1. Readable /\ view' = [view EXCEPT ![p] = file]
      BY <1>6, <2>2 DEF Get, Goto, EndPcs
    <3> QED
      BY <3>1 DEF Readable, LiveMonitorIsKnown, Statuses
  <2> QED
    BY <1>1, <1>6, <2>1, <2>2, <2>3, CommandStep DEF Get, rxVars, Armed
<1>7. CASE StartStep(p)
  <2>1. LiveMonitorIsKnown'
    <3>1. UNCHANGED <<rx, ack, dir, file>>
      BY <1>7 DEF StartStep, StartListen, StartDial, StartSend, StartAwait, StartPoststart,
                  rxVars, diskVars
    <3> QED
      BY <3>1 DEF LiveMonitorIsKnown, Armed
  <2>2. PICK to \in ListenPcs \cup EndPcs : pc' = [pc EXCEPT ![p] = to]
    BY <1>7 DEF StartStep, StartListen, StartDial, StartSend, StartAwait, StartPoststart, Goto,
                ListenPcs, EndPcs
  <2>3. to \in PcsOf(cmd[p]) /\ to # "get" /\ pc[p] # "get"
    BY <1>7, PcsOfValues DEF StartStep, StartListen, StartDial, StartSend, StartAwait,
                StartPoststart, StartPcs, ListenPcs, EndPcs
  <2>4. UNCHANGED <<cmd, bundle, view, rx, ack>>
    BY <1>7 DEF StartStep, StartListen, StartDial, StartSend, StartAwait, StartPoststart, rxVars,
                diskVars
  <2> QED
    BY <1>1, <1>2, <2>1, <2>2, <2>3, <2>4, CommandStep DEF Armed
<1>8. CASE KillSignal(p)
  <2>1. \A c \in Procs : Armed(c)' => Armed(c)
    BY <1>8 DEF KillSignal, RxExit, RxGoto, Armed, ArmedRx
  <2>2. LiveMonitorIsKnown'
    BY <1>8, <2>1 DEF KillSignal, LiveMonitorIsKnown, diskVars
  <2>3. PICK to \in {"ok", "fail"} : pc' = [pc EXCEPT ![p] = to]
    BY <1>8 DEF KillSignal, Goto
  <2> QED
    BY <1>1, <1>8, <2>1, <2>2, <2>3, CommandStep DEF KillSignal, PcsOf, EndPcs
<1>9. CASE CliDies(p)
  <2>1. LiveMonitorIsKnown'
    BY <1>9 DEF CliDies, LiveMonitorIsKnown, rxVars, Armed
  <2> QED
    BY <1>1, <1>9, <2>1, CommandStep DEF CliDies, Goto, rxVars, Armed, PcsOf, EndPcs
<1> QED
  BY <1>3, <1>4, <1>5, <1>6, <1>7, <1>8, <1>9 DEF SaveStep

\* The steps of delete: nothing is removed while a released process lives.
LEMMA DeleteKeepsKnown ==
    ASSUME KnownInv, TypeOK', NEW p \in Procs, Deleting(p), DeleteStep(p) \/ CliDies(p)
    PROVE  KnownInv'
<1> USE DEF KnownInv, TypeOK
<1>1. InProgress(p) /\ cmd[p] # "create" /\ cmd[p] \in {"delete", "forcedelete"}
  BY DEF DeleteStep, DeleteGet, DeleteKill, DeleteReap, DeleteCheck, DeleteRelease, DeleteRemove,
         CliDies, InProgress, EndPcs, Deleting
<1>2. \A c \in Procs : Armed(c) /\ pc[p] # "get" => view[p].pid = c
  BY <1>1 DEF ViewsAgree
<1>3. PcsOf(cmd[p]) = DeletePcs \cup EndPcs
  BY <1>1, PcsOfValues
<1>4. CASE DeleteGet(p)
  <2>1. CASE Readable
    <3>1. /\ view' = [view EXCEPT ![p] = file]
          /\ UNCHANGED <<cmd, bundle, ack, rx, diskVars>>
          /\ pc' = [pc EXCEPT ![p] = "kill"] \/ pc' = [pc EXCEPT ![p] = "check"]
      BY <1>4, <2>1 DEF DeleteGet, Readable, Missing, Statuses, Goto, rxVars
    <3>2. LiveMonitorIsKnown'
      BY <3>1 DEF LiveMonitorIsKnown, diskVars, Armed
    <3>3. \A c \in Procs : (Armed(c)' => Armed(c)) /\ (Armed(c)' => view'[p].pid = c)
      BY <2>1, <3>1 DEF Armed, LiveMonitorIsKnown, Readable, Statuses
    <3>4. \A q \in Procs : q # p => view'[q] = view[q]
      BY <3>1
    <3> QED
      BY <1>1, <1>3, <3>1, <3>2, <3>3, <3>4, CommandStep DEF DeletePcs
  <2>2. CASE ~Readable
    <3>1. PICK to \in EndPcs : pc' = [pc EXCEPT ![p] = to]
      BY <1>4, <2>2 DEF DeleteGet, Goto, EndPcs
    <3>2. UNCHANGED <<cmd, bundle, ack, rx, view>>
      BY <1>4, <2>2 DEF DeleteGet, rxVars
    <3>3. LiveMonitorIsKnown'
      <4>1. CASE Missing
        <5>1. file.status = "absent"
          BY <4>1 DEF Missing
        <5>2. \A c \in Procs : ~Armed(c)
          BY <5>1 DEF LiveMonitorIsKnown
        <5> QED
          BY <5>2, <3>2 DEF LiveMonitorIsKnown, Armed
      <4>2. CASE ~Missing
        <5>1. UNCHANGED diskVars
          BY <1>4, <2>2, <4>2 DEF DeleteGet
        <5> QED
          BY <3>2, <5>1 DEF LiveMonitorIsKnown, Armed, diskVars
      <4> QED
        BY <4>1, <4>2
    <3> QED
      BY <1>1, <1>3, <3>1, <3>2, <3>3, CommandStep DEF EndPcs, Armed
  <2> QED
    BY <2>1, <2>2
<1>5. CASE DeleteKill(p)
  <2>1. \A c \in Procs : Armed(c)' => Armed(c)
    BY <1>5 DEF DeleteKill, RxExit, RxGoto, Armed, ArmedRx
  <2>2. LiveMonitorIsKnown'
    BY <1>5, <2>1 DEF DeleteKill, LiveMonitorIsKnown, diskVars
  <2>3. PICK to \in {"check", "reap", "fail"} : pc' = [pc EXCEPT ![p] = to]
    BY <1>5 DEF DeleteKill, Goto
  <2> QED
    BY <1>1, <1>2, <1>3, <1>5, <2>1, <2>2, <2>3, CommandStep DEF DeleteKill, DeletePcs, EndPcs
<1>6. CASE DeleteReap(p)
  <2>1. PICK to \in {"check", "fail"} : pc' = [pc EXCEPT ![p] = to]
    BY <1>6 DEF DeleteReap, Goto
  <2>2. LiveMonitorIsKnown'
    BY <1>6 DEF DeleteReap, LiveMonitorIsKnown, diskVars, rxVars, Armed
  <2> QED
    BY <1>1, <1>2, <1>3, <1>6, <2>1, <2>2, CommandStep
    DEF DeleteReap, DeletePcs, EndPcs, rxVars, Armed
<1>7. CASE DeleteCheck(p)
  <2>1. LiveMonitorIsKnown'
    BY <1>7 DEF DeleteCheck, LiveMonitorIsKnown, diskVars, rxVars, Armed
  <2>2. CASE isRunning(p)
    BY <1>1, <1>3, <1>7, <2>1, <2>2, CommandStep
    DEF DeleteCheck, Goto, EndPcs, rxVars, Armed
  <2>3. CASE ~isRunning(p)
    <3>1. \A c \in Procs : ~Armed(c)
      BY <1>2, <1>7, <2>3 DEF DeleteCheck, isRunning, Probed, Armed, ArmedRx
    <3>2. \A c \in Procs : ~Armed(c)'
      BY <1>7, <3>1 DEF DeleteCheck, rxVars, Armed
    <3>3. pc' = [pc EXCEPT ![p] = "release"] /\ "release" \in DeletePcs
      BY <1>7, <2>3 DEF DeleteCheck, Goto, DeletePcs
    <3> QED
      BY <1>1, <1>3, <1>7, <2>1, <3>1, <3>2, <3>3, CommandStep DEF DeleteCheck, rxVars
  <2> QED
    BY <2>2, <2>3
<1>8. CASE DeleteRelease(p) \/ DeleteRemove(p)
  <2>1. \A c \in Procs : ~Armed(c)
    BY <1>8 DEF DeleteRelease, DeleteRemove, DeleteAfterStop
  <2>2. \A c \in Procs : ~Armed(c)'
    BY <1>8, <2>1 DEF DeleteRelease, DeleteRemove, rxVars, Armed
  <2>3. PICK to \in {"remove", "fail", "ok"} : pc' = [pc EXCEPT ![p] = to]
    BY <1>8 DEF DeleteRelease, DeleteRemove, Goto
  <2> QED
    BY <1>1, <1>3, <1>8, <2>1, <2>2, <2>3, CommandStep
    DEF DeleteRelease, DeleteRemove, LiveMonitorIsKnown, DeletePcs, EndPcs, rxVars
<1>9. CASE CliDies(p)
  <2>1. LiveMonitorIsKnown'
    BY <1>9 DEF CliDies, LiveMonitorIsKnown, rxVars, Armed
  <2> QED
    BY <1>1, <1>3, <1>9, <2>1, CommandStep DEF CliDies, Goto, rxVars, Armed, EndPcs
<1> QED
  BY <1>4, <1>5, <1>6, <1>7, <1>8, <1>9 DEF DeleteStep

\* The steps of create: it runs alone, and releases its process only after the
\* state it saved names it.
LEMMA CreateKeepsKnown ==
    ASSUME KnownInv, TypeOK', NEW p \in Procs, cmd[p] = "create",
           SaveStep(p) \/ CreateStep(p) \/ CliDies(p)
    PROVE  KnownInv'
<1> USE DEF KnownInv, TypeOK
<1>1. Creating(p)
  BY DEF SaveStep, SaveOpen, SaveFails, SaveWrite, CreateStep, CreatePrepare, CreateSpawn,
         CreateHooks, CreateAck, CreateDrain, CliDies, Creating, InProgress, EndPcs, SavePcs, WritePcs
<1>2. pc[p] # "drain_ok" => (\A c \in Procs : ~Armed(c)) /\ ~ack[p]
  BY <1>1 DEF CreateAlone, AckedByCreate, Creating, InProgress, EndPcs
<1>3. ASSUME UNCHANGED <<rx, ack>>, pc[p] # "drain_ok" PROVE \A c \in Procs : ~Armed(c)'
  BY <1>2, <1>3 DEF Armed
<1>4. pc[p] \in CreatePcs
  BY <1>1, PcsOfValues DEF PcOK, Creating, InProgress
<1>5. CASE SaveOpen(p)
  <2>1. \/ pc[p] = "save_creating" /\ pc' = [pc EXCEPT ![p] = "write_creating"]
        \/ pc[p] = "save_created" /\ pc' = [pc EXCEPT ![p] = "write_created"]
    BY <1>4, <1>5 DEF SaveOpen, Goto, SavePcs, AfterSave, CreatePcs
  <2>2. UNCHANGED <<cmd, bundle, ack, rx, dir, view>> /\ open' = open \cup {p}
    BY <1>5 DEF SaveOpen, rxVars
  <2> QED
    BY <1>1, <1>3, <2>1, <2>2, BuildStep DEF CreateOwnsDir, CreatePcs
<1>6. CASE SaveFails(p)
  <2>1. UNCHANGED <<cmd, bundle, ack, rx, dir>> /\ dir = p /\ pc[p] # "drain_ok"
    BY <1>1, <1>6 DEF SaveFails, rxVars, diskVars, CreateOwnsDir, SavePcs
  <2>2. CASE pc' = [pc EXCEPT ![p] = "fail"]
    BY <1>1, <1>3, <2>1, <2>2, BuildStep DEF EndPcs, Creating, InProgress
  <2>3. CASE pc' = [pc EXCEPT ![p] = "drain_fail"]
    BY <1>1, <1>3, <2>1, <2>3, BuildStep DEF CreatePcs
  <2> QED
    BY <1>6, <2>2, <2>3 DEF SaveFails, Goto
<1>7. CASE SaveWrite(p)
  <2>1. UNCHANGED <<cmd, bundle, ack, rx, dir>>
    BY <1>7 DEF SaveWrite, rxVars
  <2>2. CASE pc[p] = "write_creating"
    <3>1. pc' = [pc EXCEPT ![p] = "spawn"]
      BY <1>7, <2>2 DEF SaveWrite, Goto, Saved, WritePcs
    <3> QED
      BY <1>1, <1>3, <2>1, <2>2, <3>1, BuildStep DEF CreateOwnsDir, CreatePcs
  <2>3. CASE pc[p] = "write_created"
    <3>1. pc' = [pc EXCEPT ![p] = "hooks"]
      BY <1>7, <2>3 DEF SaveWrite, Goto, Saved, WritePcs
    <3>2. file' = [status |-> "created", pid |-> p]
      BY <1>1, <1>7, <2>3 DEF SaveWrite, Saved, WritePcs, CreateOwnsDir
    <3> QED
      BY <1>1, <1>3, <2>1, <2>3, <3>1, <3>2, BuildStep DEF CreateOwnsDir, CreatePcs
  <2> QED
    BY <1>4, <1>7, <2>2, <2>3 DEF SaveWrite, WritePcs, CreatePcs
<1>8. CASE CreatePrepare(p)
  <2>1. UNCHANGED <<cmd, bundle, ack, rx>> /\ dir = NoProc /\ pc[p] # "drain_ok"
    BY <1>1, <1>8 DEF CreatePrepare, rxVars, CreateOwnsDir
  <2>2. CASE pc' = [pc EXCEPT ![p] = "save_creating"] /\ dir' = p
    BY <1>1, <1>3, <2>1, <2>2, BuildStep DEF CreatePcs
  <2>3. CASE pc' = [pc EXCEPT ![p] = "fail"]
    BY <1>1, <1>3, <2>1, <2>3, BuildStep DEF EndPcs, Creating, InProgress
  <2> QED
    BY <1>8, <2>1, <2>2, <2>3 DEF CreatePrepare, Goto
<1>9. CASE CreateSpawn(p)
  <2>1. UNCHANGED <<cmd, bundle, ack, diskVars>>
    BY <1>9 DEF CreateSpawn
  <2>2. \A c \in Procs : ~Armed(c)'
    BY <1>2, <1>9, <2>1 DEF CreateSpawn, RxGoto, Armed, ArmedRx
  <2>3. dir = p /\ pc[p] # "drain_ok"
    BY <1>1, <1>9 DEF CreateSpawn, CreateOwnsDir
  <2>4. CASE pc' = [pc EXCEPT ![p] = "save_created"] /\ view' = [view EXCEPT ![p].pid = p]
    <3>1. view'[p].pid = p
      BY <2>4 DEF States
    <3> QED
      BY <1>1, <2>1, <2>2, <2>3, <2>4, <3>1, BuildStep DEF CreatePcs, diskVars
  <2>5. CASE pc' = [pc EXCEPT ![p] = "fail"]
    BY <1>1, <2>1, <2>2, <2>3, <2>5, BuildStep DEF EndPcs, Creating, InProgress
  <2> QED
    BY <1>9, <2>4, <2>5 DEF CreateSpawn, Goto
<1>10. CASE CreateHooks(p)
  <2>1. UNCHANGED <<cmd, bundle, ack, rx, diskVars>>
    BY <1>10 DEF CreateHooks, rxVars
  <2>2. dir = p /\ file = [status |-> "created", pid |-> p] /\ pc[p] # "drain_ok"
    BY <1>1, <1>10 DEF CreateHooks, CreateOwnsDir
  <2>3. CASE pc' = [pc EXCEPT ![p] = "ack"]
    BY <1>1, <1>3, <2>1, <2>2, <2>3, BuildStep DEF CreatePcs, diskVars
  <2>4. CASE pc' = [pc EXCEPT ![p] = "drain_fail"]
    BY <1>1, <1>3, <2>1, <2>2, <2>4, BuildStep DEF CreatePcs, diskVars
  <2> QED
    BY <1>10, <2>3, <2>4 DEF CreateHooks, Goto
<1>11. CASE CreateAck(p) /\ rx[p] \notin AliveRx
  <2>1. dir = p /\ UNCHANGED <<cmd, bundle, ack, rx, dir>>
    BY <1>1, <1>11 DEF CreateAck, diskVars, CreateOwnsDir
  <2>2. pc' = [pc EXCEPT ![p] = "drain_fail"] /\ pc[p] # "drain_ok"
    BY <1>11 DEF CreateAck, Goto
  <2> QED
    BY <1>1, <1>3, <2>1, <2>2, BuildStep DEF CreatePcs
<1>12. CASE CreateAck(p) /\ rx[p] \in AliveRx
  <2>1. /\ UNCHANGED <<cmd, view, bundle, dir, file, rx>>
        /\ ack' = [ack EXCEPT ![p] = TRUE] /\ pc' = [pc EXCEPT ![p] = "drain_ok"] /\ pc[p] = "ack"
    BY <1>12 DEF CreateAck, Goto, diskVars
  <2>2. \A c \in Procs : Armed(c)' => c = p
    BY <1>2, <2>1 DEF Armed
  <2>3. \A q \in Procs : InProgress(q)' => q = p
    BY <1>1, <2>1 DEF CreateAlone, InProgress
  <2>4. PcOK'
    BY <2>1, PcsOfValues DEF PcOK, CreatePcs
  <2>5. AckedByCreate'
    <3> SUFFICES ASSUME NEW c \in Procs, ack'[c] \/ Armed(c)'
                 PROVE  cmd'[c] = "create" /\ pc'[c] \in {"drain_ok"} \cup EndPcs
      BY DEF AckedByCreate
    <3>1. CASE c = p
      BY <2>1, <3>1
    <3>2. CASE c # p
      BY <2>1, <2>2, <3>2 DEF AckedByCreate
    <3> QED
      BY <3>1, <3>2
  <2>6. LiveMonitorIsKnown'
    <3>1. dir = p /\ file = [status |-> "created", pid |-> p]
      BY <1>1, <1>12 DEF CreateAck, CreateOwnsDir
    <3> QED
      BY <2>1, <2>2, <3>1 DEF LiveMonitorIsKnown
  <2>7. CreateAlone'
    BY <2>1, <2>3 DEF CreateAlone, Creating
  <2>8. CreateOwnsDir'
    <3>1. dir = p
      BY <1>1, <2>1 DEF CreateOwnsDir
    <3> QED
      BY <2>1, <2>3, <3>1 DEF CreateOwnsDir, Creating
  <2>9. ViewsAgree' /\ DeleteAfterStop'
    BY <2>1, <2>3 DEF ViewsAgree, DeleteAfterStop, InProgress, EndPcs, Deleting
  <2> QED
    BY <2>1, <2>4, <2>5, <2>6, <2>7, <2>8, <2>9
<1>13. CASE CreateDrain(p) \/ CliDies(p)
  <2>1. PICK to \in EndPcs : pc' = [pc EXCEPT ![p] = to]
    BY <1>13 DEF CreateDrain, CliDies, Goto, EndPcs
  <2>2. UNCHANGED <<cmd, view, bundle, dir, file, rx, ack>>
    BY <1>13 DEF CreateDrain, CliDies, rxVars, diskVars
  <2>3. \A q \in Procs : ~InProgress(q)'
    BY <1>1, <2>1 DEF CreateAlone, InProgress
  <2>4. PcOK' /\ AckedByCreate'
    BY <2>1, <2>2, PcsOfValues DEF PcOK, AckedByCreate, Armed
  <2>5. LiveMonitorIsKnown'
    BY <2>2 DEF LiveMonitorIsKnown, Armed
  <2>6. CreateAlone' /\ CreateOwnsDir' /\ ViewsAgree' /\ DeleteAfterStop'
    BY <2>3 DEF CreateAlone, CreateOwnsDir, Creating, ViewsAgree, DeleteAfterStop, InProgress,
                EndPcs
  <2> QED
    BY <2>2, <2>4, <2>5, <2>6
<1> QED
  BY <1>5, <1>6, <1>7, <1>8, <1>9, <1>10, <1>11, <1>12, <1>13 DEF SaveStep, CreateStep

\* A command is issued: a create only when nothing runs and no base directory
\* exists, any other command only when no create runs.
LEMMA BeginKeepsKnown ==
    ASSUME SerialCreate, KnownInv, TypeOK', NEW p \in Procs, NEW c \in Commands, Begin(p, c)
    PROVE  KnownInv'
<1> USE DEF KnownInv, TypeOK
<1>1. /\ pc[p] = "idle" /\ UNCHANGED <<view, bundle, dir, file, open, rx, ack>>
      /\ cmd' = [cmd EXCEPT ![p] = c] /\ pc' = [pc EXCEPT ![p] = FirstPc[c]]
      /\ c = "create" => dir = NoProc /\ \A q \in Procs : ~InProgress(q)
      /\ c # "create" => \A q \in Procs : ~Creating(q)
  BY DEF Begin, Goto, diskVars, rxVars
<1>2. c \in AllCommands /\ FirstPc[c] = IF c = "create" THEN "prepare" ELSE "get"
  BY ConstAssumption DEF FirstPc
<1>3. \A d \in Procs : Armed(d)' <=> Armed(d)
  BY <1>1 DEF Armed
<1>4. dir = NoProc => \A d \in Procs : ~Armed(d)
  BY ConstAssumption DEF LiveMonitorIsKnown
<1>5. PcOK'
  <2>1. FirstPc[c] \in PcsOf(c)
    BY <1>2, PcsOfValues DEF AllCommands, CreatePcs, StartPcs, KillPcs, DeletePcs
  <2> QED
    BY <1>1, <2>1 DEF PcOK
<1>6. CreateAlone' /\ CreateOwnsDir'
  BY <1>1, <1>2, <1>3, <1>4 DEF CreateAlone, CreateOwnsDir, Creating, InProgress, EndPcs
<1>7. AckedByCreate'
  <2> SUFFICES ASSUME NEW d \in Procs, ack'[d] \/ Armed(d)'
               PROVE  cmd'[d] = "create" /\ pc'[d] \in {"drain_ok"} \cup EndPcs
    BY DEF AckedByCreate
  <2>1. cmd[d] = "create" /\ pc[d] \in {"drain_ok"} \cup EndPcs /\ d # p
    BY <1>1, <1>3 DEF AckedByCreate, EndPcs
  <2> QED
    BY <1>1, <2>1
<1>8. ViewsAgree'
  <2> SUFFICES ASSUME NEW q \in Procs, NEW d \in Procs, cmd'[q] # "create",
                      InProgress(q)', pc'[q] # "get", Armed(d)'
               PROVE  view'[q].pid = d
    BY DEF ViewsAgree
  <2>1. q # p
    BY <1>1, <1>2
  <2> QED
    BY <1>1, <1>3, <2>1 DEF ViewsAgree, InProgress
<1>9. DeleteAfterStop' /\ LiveMonitorIsKnown'
  BY <1>1, <1>2, <1>3 DEF DeleteAfterStop, Deleting, LiveMonitorIsKnown
<1> QED
  BY <1>1, <1>5, <1>6, <1>7, <1>8, <1>9

\* KnownInv is inductive for a caller that keeps the contract.
LEMMA KnownInvStep ==
    ASSUME Contract, KnownInv, TypeOK', [Next]_vars
    PROVE  KnownInv'
<1> USE DEF Contract
<1>1. CASE UNCHANGED vars
  BY <1>1, QuietStep DEF vars, rxVars, Armed
<1>2. ASSUME NEW p \in Procs, NEW c \in Commands, Begin(p, c) PROVE KnownInv'
  BY <1>2, BeginKeepsKnown
<1>3. ASSUME NEW p \in Procs, SaveStep(p) PROVE KnownInv'
  <2>1. cmd[p] = "create" \/ cmd[p] = "start"
    <3>1. pc[p] \in SavePcs \cup WritePcs
      BY <1>3 DEF SaveStep, SaveOpen, SaveFails, SaveWrite
    <3>2. pc[p] \in PcsOf(cmd[p]) /\ cmd[p] \in {"none"} \cup AllCommands
      BY DEF KnownInv, PcOK, TypeOK
    <3> QED
      BY <3>1, <3>2
      DEF PcsOf, AllCommands, SavePcs, WritePcs, EndPcs, KillPcs, DeletePcs
  <2> QED
    BY <1>3, <2>1, CreateKeepsKnown, StartKillKeepKnown
<1>4. ASSUME NEW p \in Procs, CreateStep(p) PROVE KnownInv'
  <2>1. cmd[p] = "create"
    BY <1>4 DEF CreateStep, CreatePrepare, CreateSpawn, CreateHooks, CreateAck, CreateDrain
  <2> QED
    BY <1>4, <2>1, CreateKeepsKnown
<1>5. ASSUME NEW p \in Procs, Get(p) \/ StartStep(p) \/ KillSignal(p) PROVE KnownInv'
  <2>1. cmd[p] \in {"start", "kill"}
    BY <1>5 DEF Get, StartStep, StartListen, StartDial, StartSend, StartAwait, StartPoststart,
                KillSignal
  <2> QED
    BY <1>5, <2>1, StartKillKeepKnown
<1>6. ASSUME NEW p \in Procs, DeleteStep(p) PROVE KnownInv'
  <2>1. Deleting(p)
    BY <1>6 DEF DeleteStep, DeleteGet, DeleteKill, DeleteReap, DeleteCheck, DeleteRelease,
                DeleteRemove
  <2> QED
    BY <1>6, <2>1, DeleteKeepsKnown
<1>7. ASSUME NEW p \in Procs, RxStep(p) \/ Reap(p) \/ RxDies(p) PROVE KnownInv'
  BY <1>7, RxKeepsKnown
<1>8. ASSUME NEW p \in Procs, CliDies(p) PROVE KnownInv'
  <2>1. cmd[p] \in AllCommands
    BY <1>8 DEF CliDies, InProgress, KnownInv, PcOK, TypeOK, PcsOf
  <2> QED
    BY <1>8, <2>1, CreateKeepsKnown, StartKillKeepKnown, DeleteKeepsKnown
    DEF AllCommands, Deleting
<1>9. ~BundleVanishes
  BY DEF BundleVanishes
<1> QED
  BY <1>1, <1>2, <1>3, <1>4, <1>5, <1>6, <1>7, <1>8, <1>9 DEF Next, CliStep

\* KnownInv is an invariant for a caller that keeps the contract.
LEMMA KnownInvariant ==
    ASSUME Contract PROVE Spec => []KnownInv
<1>1. Init => KnownInv
  BY KnownInvInit
<1>2. KnownInv /\ TypeOK' /\ [Next]_vars => KnownInv'
  BY KnownInvStep
<1> QED
  BY <1>1, <1>2, TypeCorrect, PTL DEF Spec

\* A reexec process or monitor that urunc create has released can always be
\* found by kill and delete, for any number of overlapping start, kill and
\* delete commands and whichever of them is killed (LiveMonitorIsKnown).
THEOREM MonitorKnown ==
    ASSUME Contract PROVE Spec => []LiveMonitorIsKnown
<1>1. KnownInv => LiveMonitorIsKnown
  BY DEF KnownInv
<1> QED
  BY <1>1, KnownInvariant, PTL

\* No delete removes the base directory of a container whose released reexec
\* process or monitor is alive (DeleteOnlyStopped): the two steps that remove it
\* come after the liveness check, or find no state.json.
THEOREM DeleteStopped ==
    ASSUME Contract PROVE Spec => DeleteOnlyStopped
<1>1. ASSUME KnownInv, [Next]_vars
      PROVE  [dir # NoProc /\ dir' = NoProc => \A c \in Procs : ~Armed(c)]_vars
  <2> SUFFICES ASSUME Next, dir # NoProc, dir' = NoProc PROVE \A c \in Procs : ~Armed(c)
    BY <1>1 DEF vars, diskVars
  <2>1. PICK p \in Procs : \/ CreatePrepare(p) \/ DeleteGet(p) \/ DeleteRemove(p)
    <3> USE DEF diskVars
    <3>1. ASSUME NEW p \in Procs, SaveStep(p) PROVE FALSE
      BY <3>1 DEF SaveStep, SaveOpen, SaveFails, SaveWrite
    <3>2. ASSUME NEW p \in Procs, CreateStep(p) PROVE CreatePrepare(p)
      BY <3>2 DEF CreateStep, CreateSpawn, CreateHooks, CreateAck, CreateDrain
    <3>3. ASSUME NEW p \in Procs, StartStep(p) PROVE FALSE
      BY <3>3 DEF StartStep, StartListen, StartDial, StartSend, StartAwait, StartPoststart
    <3>4. ASSUME NEW p \in Procs, DeleteStep(p) PROVE DeleteGet(p) \/ DeleteRemove(p)
      BY <3>4 DEF DeleteStep, DeleteKill, DeleteReap, DeleteCheck, DeleteRelease
    <3>5. ASSUME NEW p \in Procs, RxStep(p) PROVE FALSE
      BY <3>5 DEF RxStep, RxBoot, RxAwaitAck, RxGet, RxListen, RxAwaitStart, RxUnlisten, RxConnect,
                  RxExec, RxExecMonitor
    <3>6. ASSUME NEW p \in Procs,
                 \/ \E c \in Commands : Begin(p, c)
                 \/ Get(p) \/ KillSignal(p) \/ Reap(p) \/ CliDies(p) \/ RxDies(p)
          PROVE  FALSE
      BY <3>6 DEF Begin, Get, KillSignal, Reap, CliDies, RxDies
    <3>7. ~BundleVanishes
      BY DEF BundleVanishes
    <3> QED
      BY <3>1, <3>2, <3>3, <3>4, <3>5, <3>6, <3>7, Zenon DEF Next, CliStep
  <2>2. CASE CreatePrepare(p)
    BY <2>2 DEF CreatePrepare
  <2>3. CASE DeleteGet(p)
    <3>1. Missing
      BY <2>3 DEF DeleteGet, diskVars
    <3>2. file.status = "absent"
      BY <1>1, <3>1 DEF Missing, KnownInv
    <3> QED
      BY <1>1, <3>2 DEF KnownInv, LiveMonitorIsKnown
  <2>4. CASE DeleteRemove(p)
    BY <1>1, <2>4 DEF KnownInv, DeleteAfterStop, DeleteRemove
  <2> QED
    BY <2>1, <2>2, <2>3, <2>4
<1> QED
  BY <1>1, KnownInvariant, PTL DEF Spec, DeleteOnlyStopped

-----------------------------------------------------------------------------
(* NoStaleStartSocket *)

\* Every step is one of a command, which may change anything but the reexec
\* processes other than the one it signals, or one of a reexec process, or the
\* loss of the bundle.
LEMMA StepKinds ==
    ASSUME [Next]_vars
    PROVE  \/ UNCHANGED vars
           \/ UNCHANGED <<cliVars, usock>>
           \/ \E p \in Procs : \/ \E c \in Commands : Begin(p, c)
                               \/ CliStep(p) \/ CliDies(p)
<1>1. ASSUME NEW p \in Procs, RxStep(p) PROVE UNCHANGED <<cliVars, usock>>
  BY <1>1 DEF RxStep, RxBoot, RxAwaitAck, RxGet, RxListen, RxAwaitStart, RxUnlisten, RxConnect, RxExec,
              RxExecMonitor, sockVars, cliVars
<1>2. ASSUME NEW p \in Procs, Reap(p) \/ RxDies(p) PROVE UNCHANGED <<cliVars, usock>>
  BY <1>2 DEF Reap, RxDies, sockVars
<1>3. BundleVanishes => UNCHANGED <<cliVars, usock>>
  BY DEF BundleVanishes, sockVars
<1> QED
  BY <1>1, <1>2, <1>3, Zenon DEF Next

\* A step of a command moves that command alone.
LEMMA CliMoves ==
    ASSUME NEW p \in Procs, CliStep(p)
    PROVE  /\ cmd' = cmd /\ InProgress(p)
           /\ \E to : pc' = [pc EXCEPT ![p] = to]
<1> USE DEF Goto, InProgress, EndPcs
<1>1. CASE SaveStep(p)
  BY <1>1 DEF SaveStep, SaveOpen, SaveFails, SaveWrite, SavePcs, WritePcs
<1>2. CASE CreateStep(p)
  BY <1>2 DEF CreateStep, CreatePrepare, CreateSpawn, CreateHooks, CreateAck, CreateDrain
<1>3. CASE Get(p) \/ KillSignal(p)
  BY <1>3 DEF Get, KillSignal
<1>4. CASE StartStep(p)
  BY <1>4 DEF StartStep, StartListen, StartDial, StartSend, StartAwait, StartPoststart
<1>5. CASE DeleteStep(p)
  BY <1>5 DEF DeleteStep, DeleteGet, DeleteKill, DeleteReap, DeleteCheck, DeleteRelease, DeleteRemove
<1> QED
  BY <1>1, <1>2, <1>3, <1>4, <1>5 DEF CliStep

\* A start that returns has removed urunc.sock: whatever start, delete or crash
\* comes in between, the socket path is bound by a start that still runs or was
\* left behind by one that was killed.  Nothing is assumed of the caller.
THEOREM StartSocketFresh == Spec => []NoStaleStartSocket
<1>1. Init => NoStaleStartSocket
  BY DEF Init, NoStaleStartSocket
<1>2. TypeOK /\ NoStaleStartSocket /\ [Next]_vars => NoStaleStartSocket'
  <2> SUFFICES ASSUME TypeOK, NoStaleStartSocket, [Next]_vars PROVE NoStaleStartSocket'
    OBVIOUS
  <2> USE DEF TypeOK
  <2>1. CASE UNCHANGED <<cliVars, usock>>
    BY <2>1 DEF NoStaleStartSocket, Listening, cliVars
  <2>2. ASSUME NEW p \in Procs, usock # p, usock' \in {usock, NoProc},
               \A q \in Procs : q # p => pc'[q] = pc[q] /\ cmd'[q] = cmd[q]
        PROVE  NoStaleStartSocket'
    BY <2>2 DEF NoStaleStartSocket, Listening, OptProc
  <2>3. ASSUME NEW p \in Procs, NEW c \in Commands, Begin(p, c) PROVE NoStaleStartSocket'
    <3>1. /\ usock' = usock /\ pc[p] = "idle"
          /\ \A q \in Procs : q # p => pc'[q] = pc[q] /\ cmd'[q] = cmd[q]
      BY <2>3 DEF Begin, Goto, sockVars
    <3>2. usock # p
      BY <3>1, ConstAssumption DEF NoStaleStartSocket, Listening, ListenPcs
    <3> QED
      BY <2>2, <3>1, <3>2
  <2>4. ASSUME NEW p \in Procs, CliDies(p) PROVE NoStaleStartSocket'
    <3>1. usock' = usock /\ cmd' = cmd /\ pc' = [pc EXCEPT ![p] = "dead"]
      BY <2>4 DEF CliDies, Goto, sockVars
    <3> QED
      BY <3>1 DEF NoStaleStartSocket, Listening, OptProc
  <2>5. ASSUME NEW p \in Procs, CliStep(p), cmd[p] # "start" \/ pc[p] \in {"get", "listen"},
               usock' \in {usock, NoProc}
        PROVE  NoStaleStartSocket'
    <3>1. cmd' = cmd /\ pc[p] # "dead" /\ \E to : pc' = [pc EXCEPT ![p] = to]
      BY <2>5, CliMoves DEF InProgress, EndPcs
    <3>2. \A q \in Procs : q # p => pc'[q] = pc[q] /\ cmd'[q] = cmd[q]
      BY <3>1
    <3>3. usock # p
      BY <2>5, <3>1, ConstAssumption DEF NoStaleStartSocket, Listening, ListenPcs
    <3> QED
      BY <2>2, <2>5, <3>2, <3>3
  <2>6. ASSUME NEW p \in Procs, SaveStep(p) PROVE NoStaleStartSocket'
    <3>1. CASE cmd[p] # "start"
      <4>1. usock' = usock
        BY <2>6, <3>1 DEF SaveStep, SaveOpen, SaveFails, SaveWrite, sockVars
      <4> QED
        BY <2>5, <2>6, <3>1, <4>1 DEF CliStep
    <3>2. CASE cmd[p] = "start"
      <4>1. CASE SaveFails(p)
        BY <3>2, <4>1 DEF SaveFails, DestroyStartListener, NoStaleStartSocket
      <4>2. CASE SaveOpen(p)
        <5>1. usock' = usock /\ cmd' = cmd /\ pc[p] \in SavePcs /\ pc' = [pc EXCEPT ![p] = AfterSave[pc[p]]]
          BY <4>2 DEF SaveOpen, Goto, sockVars
        <5>2. usock = p => pc[p] = "save_running"
          BY <5>1, ConstAssumption DEF NoStaleStartSocket, Listening, ListenPcs, SavePcs
        <5>3. usock = p => pc'[p] = "write_running"
          BY <5>1, <5>2 DEF AfterSave, SavePcs
        <5> QED
          BY <3>2, <5>1, <5>3, ConstAssumption DEF NoStaleStartSocket, Listening, ListenPcs, OptProc
      <4>3. CASE SaveWrite(p)
        <5>1. usock' = usock /\ cmd' = cmd /\ pc[p] \in WritePcs /\ pc' = [pc EXCEPT ![p] = Saved[pc[p]].next]
          BY <4>3 DEF SaveWrite, Goto, sockVars
        <5>2. usock = p => pc[p] = "write_running"
          BY <5>1, ConstAssumption DEF NoStaleStartSocket, Listening, ListenPcs, WritePcs
        <5>3. usock = p => pc'[p] = "poststart"
          BY <5>1, <5>2 DEF Saved, WritePcs
        <5> QED
          BY <3>2, <5>1, <5>3, ConstAssumption DEF NoStaleStartSocket, Listening, ListenPcs, OptProc
      <4> QED
        BY <2>6, <4>1, <4>2, <4>3 DEF SaveStep
    <3> QED
      BY <3>1, <3>2
  <2>7. ASSUME NEW p \in Procs, CreateStep(p) \/ Get(p) \/ KillSignal(p) \/ DeleteStep(p)
        PROVE  NoStaleStartSocket'
    <3>1. usock' \in {usock, NoProc}
      BY <2>7 DEF CreateStep, DeleteStep, CreatePrepare, CreateSpawn, CreateHooks, CreateAck, CreateDrain,
                  Get, KillSignal, DeleteGet, DeleteKill, DeleteReap, DeleteCheck, DeleteRelease,
                  DeleteRemove, RemoveBaseDir, sockVars
    <3>2. cmd[p] # "start" \/ pc[p] = "get"
      BY <2>7 DEF CreateStep, DeleteStep, CreatePrepare, CreateSpawn, CreateHooks, CreateAck, CreateDrain,
                  Get, KillSignal, DeleteGet, DeleteKill, DeleteReap, DeleteCheck, DeleteRelease,
                  DeleteRemove, Deleting
    <3> QED
      BY <2>5, <2>7, <3>1, <3>2 DEF CliStep
  <2>8. ASSUME NEW p \in Procs, StartStep(p) PROVE NoStaleStartSocket'
    <3>1. cmd' = cmd /\ cmd[p] = "start"
      BY <2>8 DEF StartStep, StartListen, StartDial, StartSend, StartAwait, StartPoststart
    <3>2. \/ usock' = NoProc
          \/ usock' = usock /\ pc[p] = "listen"
          \/ usock' \in {usock, p} /\ \E to \in ListenPcs : pc' = [pc EXCEPT ![p] = to]
      BY <2>8 DEF StartStep, StartListen, StartDial, StartSend, StartAwait, StartPoststart,
                  DestroyStartListener, Goto, ListenPcs
    <3>3. CASE usock' = usock /\ pc[p] = "listen"
      BY <2>5, <2>8, <3>3 DEF CliStep
    <3>4. CASE usock' \in {usock, p} /\ \E to \in ListenPcs : pc' = [pc EXCEPT ![p] = to]
      BY <3>1, <3>4, ConstAssumption DEF NoStaleStartSocket, Listening, OptProc
    <3> QED
      BY <3>2, <3>3, <3>4 DEF NoStaleStartSocket
  <2>9. CASE UNCHANGED vars
    BY <2>1, <2>9 DEF vars, sockVars
  <2> QED
    BY <2>1, <2>3, <2>4, <2>6, <2>7, <2>8, <2>9, StepKinds DEF CliStep
<1> QED
  BY <1>1, <1>2, TypeCorrect, PTL DEF Spec

-----------------------------------------------------------------------------
(* RunningMeansReported and StartedOnce *)

\* A step of a command leaves what the others hold in memory.
LEMMA CliViews ==
    ASSUME TypeOK, NEW p \in Procs, CliStep(p)
    PROVE  \A q \in Procs \ {p} : view'[q] = view[q]
<1> USE DEF TypeOK
<1>1. CASE SaveStep(p)
  BY <1>1 DEF SaveStep, SaveOpen, SaveFails, SaveWrite
<1>2. CASE CreateStep(p)
  BY <1>2 DEF CreateStep, CreatePrepare, CreateSpawn, CreateHooks, CreateAck, CreateDrain
<1>3. CASE Get(p) \/ KillSignal(p)
  BY <1>3 DEF Get, KillSignal
<1>4. CASE StartStep(p)
  BY <1>4 DEF StartStep, StartListen, StartDial, StartSend, StartAwait, StartPoststart
<1>5. CASE DeleteStep(p)
  BY <1>5 DEF DeleteStep, DeleteGet, DeleteKill, DeleteReap, DeleteCheck, DeleteRelease, DeleteRemove
<1> QED
  BY <1>1, <1>2, <1>3, <1>4, <1>5 DEF CliStep

\* Where a step takes a process: it stays, or it begins, dies or takes a step of
\* its command.
LEMMA WhoMoves ==
    ASSUME TypeOK, [Next]_vars, NEW q \in Procs
    PROVE  \/ cmd'[q] = cmd[q] /\ pc'[q] = pc[q] /\ view'[q] = view[q]
           \/ pc[q] = "idle" /\ \E c \in Commands : Begin(q, c)
           \/ CliDies(q) /\ InProgress(q) /\ pc'[q] = "dead" /\ cmd'[q] = cmd[q] /\ view'[q] = view[q]
           \/ CliStep(q) /\ InProgress(q) /\ cmd'[q] = cmd[q]
<1> USE DEF TypeOK
<1>1. CASE UNCHANGED cliVars
  BY <1>1 DEF cliVars
<1>2. ASSUME NEW p \in Procs, NEW c \in Commands, Begin(p, c)
      PROVE  \/ cmd'[q] = cmd[q] /\ pc'[q] = pc[q] /\ view'[q] = view[q]
             \/ pc[q] = "idle" /\ \E k \in Commands : Begin(q, k)
  BY <1>2 DEF Begin, Goto
<1>3. ASSUME NEW p \in Procs, CliDies(p)
      PROVE  \/ cmd'[q] = cmd[q] /\ pc'[q] = pc[q] /\ view'[q] = view[q]
             \/ CliDies(q) /\ InProgress(q) /\ pc'[q] = "dead" /\ cmd'[q] = cmd[q] /\ view'[q] = view[q]
  BY <1>3 DEF CliDies, Goto
<1>4. ASSUME NEW p \in Procs, CliStep(p)
      PROVE  \/ cmd'[q] = cmd[q] /\ pc'[q] = pc[q] /\ view'[q] = view[q]
             \/ CliStep(q) /\ InProgress(q) /\ cmd'[q] = cmd[q]
  BY <1>4, CliMoves, CliViews
<1>5. UNCHANGED vars \/ UNCHANGED <<cliVars, usock>> => UNCHANGED cliVars
  BY DEF vars
<1> QED
  BY <1>1, <1>2, <1>3, <1>4, <1>5, StepKinds, Zenon DEF vars

\* A command that ended is over, a create that has spawned its process or has
\* released it does not go back, and a start that listens keeps the pid it read.
LEMMA NoWayBack ==
    ASSUME TypeOK, PcOK, [Next]_vars, NEW q \in Procs
    PROVE  /\ cmd[q] # "none" => cmd'[q] = cmd[q]
           /\ pc[q] \in EndPcs => pc'[q] = pc[q] /\ view'[q] = view[q]
           /\ cmd[q] = "create" /\ pc[q] \in SpawnedPcs => pc'[q] \in SpawnedPcs
           /\ cmd[q] = "create" /\ pc[q] \in ReleasedPcs => pc'[q] \in ReleasedPcs
           /\ cmd[q] = "start" /\ pc[q] \in ListenPcs =>
                pc'[q] \in ListenPcs \cup EndPcs /\ view'[q].pid = view[q].pid
           /\ cmd[q] = "start" /\ pc[q] \in {"write_running", "poststart"} =>
                pc'[q] \in {"write_running", "poststart"} \cup EndPcs
<1>1. CASE cmd'[q] = cmd[q] /\ pc'[q] = pc[q] /\ view'[q] = view[q]
  BY <1>1
<1>2. CASE pc[q] = "idle"
  <2>1. cmd[q] = "none"
    BY <1>2, PcsOfValues DEF PcOK, PcsOf, TypeOK, AllCommands, CreatePcs, StartPcs, ListenPcs, KillPcs,
                             DeletePcs, EndPcs
  <2> QED
    BY <1>2, <2>1 DEF EndPcs
<1>3. CASE InProgress(q) /\ pc'[q] = "dead" /\ cmd'[q] = cmd[q] /\ view'[q] = view[q]
  BY <1>3 DEF InProgress, EndPcs, SpawnedPcs, ReleasedPcs
<1>4. CASE CliStep(q) /\ InProgress(q) /\ cmd'[q] = cmd[q]
  <2> USE DEF TypeOK, Goto
  <2>1. CASE cmd[q] = "create" /\ pc[q] \in SpawnedPcs
    <3>1. pc[q] \in {"save_created", "write_created", "hooks", "ack", "drain_ok", "drain_fail"}
      BY <1>4, <2>1 DEF InProgress, SpawnedPcs
    <3>2. CASE SaveStep(q)
      BY <2>1, <3>1, <3>2 DEF SaveStep, SaveOpen, SaveFails, SaveWrite, SavePcs, WritePcs, AfterSave,
                              Saved, SpawnedPcs, ReleasedPcs, EndPcs
    <3>3. CASE CreateStep(q)
      BY <2>1, <3>1, <3>3 DEF CreateStep, CreatePrepare, CreateSpawn, CreateHooks, CreateAck, CreateDrain,
                              SpawnedPcs, ReleasedPcs, EndPcs
    <3>4. SaveStep(q) \/ CreateStep(q)
      BY <1>4, <2>1, <3>1 DEF CliStep, Get, StartStep, StartListen, StartDial, StartSend, StartAwait,
                  StartPoststart, KillSignal, DeleteStep, DeleteGet, DeleteKill, DeleteReap, DeleteCheck,
                  DeleteRelease, DeleteRemove, Deleting
    <3> QED
      BY <1>4, <2>1, <3>2, <3>3, <3>4 DEF InProgress, ListenPcs, SpawnedPcs
  <2>2. CASE cmd[q] = "start" /\ pc[q] \in ListenPcs
    <3>0. pc[q] \in {"write_running", "poststart"} =>
            pc'[q] \in {"write_running", "poststart"} \cup EndPcs
      BY <1>4, <2>2 DEF CliStep, SaveStep, StartStep, CreateStep, DeleteStep, SaveOpen, SaveFails, SaveWrite,
                  SavePcs, WritePcs, Saved, StartListen, StartDial, StartSend, StartAwait, StartPoststart,
                  Get, KillSignal, CreatePrepare, CreateSpawn, CreateHooks, CreateAck, CreateDrain,
                  DeleteGet, DeleteKill, DeleteReap, DeleteCheck, DeleteRelease, DeleteRemove, Deleting,
                  EndPcs
    <3>1. CASE SaveStep(q)
      BY <2>2, <3>1 DEF SaveStep, SaveOpen, SaveFails, SaveWrite, SavePcs, WritePcs, AfterSave,
                        Saved, ListenPcs, EndPcs
    <3>2. CASE StartStep(q)
      BY <2>2, <3>2 DEF StartStep, StartListen, StartDial, StartSend, StartAwait, StartPoststart,
                        ListenPcs, EndPcs
    <3>3. SaveStep(q) \/ StartStep(q)
      BY <1>4, <2>2 DEF CliStep, Get, CreateStep, CreatePrepare, CreateSpawn, CreateHooks, CreateAck,
                  CreateDrain, KillSignal, DeleteStep, DeleteGet, DeleteKill, DeleteReap, DeleteCheck,
                  DeleteRelease, DeleteRemove, Deleting, ListenPcs
    <3> QED
      BY <1>4, <2>2, <3>0, <3>1, <3>2, <3>3 DEF InProgress
  <2> QED
    BY <1>4, <2>1, <2>2 DEF InProgress, ReleasedPcs, SpawnedPcs, ListenPcs
<1> QED
  BY <1>1, <1>2, <1>3, <1>4, WhoMoves

\* How a reexec process moves: it is spawned once, takes its own steps, exits or
\* is killed, and is reaped.
LEMMA RxMoves ==
    ASSUME TypeOK, [Next]_vars, NEW c \in Procs
    PROVE  \/ rx'[c] = rx[c]
           \/ CreateSpawn(c)
           \/ rx[c] \notin {"none", "dead"} /\ rx'[c] = "zombie"
           \/ rx[c] = "zombie" /\ rx'[c] = "dead"
           \/ RxStep(c)
<1> USE DEF TypeOK, RxGoto, RxExit
<1>1. ASSUME NEW p \in Procs, CreateSpawn(p) PROVE rx'[c] = rx[c] \/ CreateSpawn(c)
  BY <1>1 DEF CreateSpawn
<1>2. ASSUME NEW p \in Procs, KillSignal(p) \/ DeleteKill(p)
      PROVE  rx'[c] = rx[c] \/ (rx[c] \notin {"none", "dead"} /\ rx'[c] = "zombie")
  BY <1>2 DEF KillSignal, DeleteKill, Probed
<1>3. ASSUME NEW p \in Procs, RxDies(p)
      PROVE  rx'[c] = rx[c] \/ (rx[c] \notin {"none", "dead"} /\ rx'[c] = "zombie")
  BY <1>3 DEF RxDies, AliveRx, ArmedRx
<1>4. ASSUME NEW p \in Procs, Reap(p) PROVE rx'[c] = rx[c] \/ (rx[c] = "zombie" /\ rx'[c] = "dead")
  BY <1>4 DEF Reap
<1>5. ASSUME NEW p \in Procs, RxStep(p) PROVE rx'[c] = rx[c] \/ RxStep(c)
  BY <1>5 DEF RxStep, RxBoot, RxAwaitAck, RxGet, RxListen, RxAwaitStart, RxUnlisten, RxConnect, RxExec,
              RxExecMonitor
<1>6. ASSUME NEW p \in Procs, SaveStep(p) \/ StartStep(p) \/ Get(p) PROVE rx' = rx
  BY <1>6 DEF SaveStep, SaveOpen, SaveFails, SaveWrite, StartStep, StartListen, StartDial, StartSend,
              StartAwait, StartPoststart, Get, rxVars
<1>7. ASSUME NEW p \in Procs, CreateStep(p), ~CreateSpawn(p) PROVE rx' = rx
  BY <1>7 DEF CreateStep, CreatePrepare, CreateHooks, CreateAck, CreateDrain, rxVars
<1>8. ASSUME NEW p \in Procs, DeleteStep(p), ~DeleteKill(p) PROVE rx' = rx
  BY <1>8 DEF DeleteStep, DeleteGet, DeleteReap, DeleteCheck, DeleteRelease, DeleteRemove, rxVars
<1>9. ASSUME NEW p \in Procs, CliDies(p) \/ \E k \in Commands : Begin(p, k) PROVE rx' = rx
  BY <1>9 DEF CliDies, Begin, rxVars
<1>10. BundleVanishes \/ UNCHANGED vars => rx' = rx
  BY DEF BundleVanishes, vars, rxVars
<1>11. ASSUME NEW p \in Procs, CliStep(p)
       PROVE  \/ rx'[c] = rx[c] \/ CreateSpawn(c)
              \/ rx[c] \notin {"none", "dead"} /\ rx'[c] = "zombie"
  BY <1>1, <1>2, <1>6, <1>7, <1>8, <1>11, Zenon DEF CliStep
<1> QED
  BY <1>3, <1>4, <1>5, <1>9, <1>10, <1>11, Zenon DEF Next

\* Connections and messages are made by the reexec process alone.
LEMMA RxSpeaks ==
    ASSUME TypeOK, [Next]_vars, NEW c \in Procs
    PROVE  /\ uconn'[c] = uconn[c] \/ RxConnect(c)
           /\ msg'[c] = msg[c] \/ RxExec(c)
<1> USE DEF TypeOK
<1>1. ASSUME NEW p \in Procs, CliStep(p) PROVE UNCHANGED <<uconn, msg>>
  <2>1. CASE SaveStep(p) \/ Get(p) \/ KillSignal(p)
    BY <2>1 DEF SaveStep, SaveOpen, SaveFails, SaveWrite, Get, KillSignal, sockVars
  <2>2. CASE CreateStep(p)
    BY <2>2 DEF CreateStep, CreatePrepare, CreateSpawn, CreateHooks, CreateAck, CreateDrain, sockVars
  <2>3. CASE StartStep(p)
    BY <2>3 DEF StartStep, StartListen, StartDial, StartSend, StartAwait, StartPoststart
  <2>4. CASE DeleteStep(p)
    BY <2>4 DEF DeleteStep, DeleteGet, DeleteKill, DeleteReap, DeleteCheck, DeleteRelease, DeleteRemove,
                sockVars
  <2> QED
    BY <1>1, <2>1, <2>2, <2>3, <2>4 DEF CliStep
<1>2. ASSUME NEW p \in Procs, RxStep(p)
      PROVE  /\ uconn'[c] = uconn[c] \/ RxConnect(c)
             /\ msg'[c] = msg[c] \/ RxExec(c)
  BY <1>2 DEF RxStep, RxBoot, RxAwaitAck, RxGet, RxListen, RxAwaitStart, RxUnlisten, RxConnect, RxExec,
              RxExecMonitor, sockVars
<1>3. ASSUME NEW p \in Procs, CliDies(p) \/ RxDies(p) \/ Reap(p) \/ \E k \in Commands : Begin(p, k)
      PROVE  UNCHANGED <<uconn, msg>>
  BY <1>3 DEF CliDies, RxDies, Reap, Begin, sockVars
<1>4. BundleVanishes \/ UNCHANGED vars => UNCHANGED <<uconn, msg>>
  BY DEF BundleVanishes, vars, sockVars
<1> QED
  BY <1>1, <1>2, <1>3, <1>4 DEF Next

\* A start comes to saving the state only by the answer of a reexec process.
LEMMA StartForward ==
    ASSUME TypeOK, PcOK, [Next]_vars, NEW s \in Procs, cmd'[s] = "start",
           pc'[s] \in {"save_running", "write_running", "poststart", "ok"}
    PROVE  \/ cmd[s] = "start" /\ pc[s] \in {"save_running", "write_running", "poststart", "ok"}
           \/ StartAwait(s)
<1>1. CASE cmd'[s] = cmd[s] /\ pc'[s] = pc[s]
  BY <1>1
<1>2. CASE pc'[s] = "dead" \/ \E c \in Commands : Begin(s, c)
  BY <1>2, ConstAssumption DEF Begin, Goto, FirstPc, TypeOK
<1>3. CASE CliStep(s) /\ InProgress(s) /\ cmd'[s] = cmd[s]
  <2> USE DEF TypeOK, Goto
  <2>0. cmd[s] = "start"
    BY <1>3
  <2>1. CASE SaveStep(s)
    <3>1. pc[s] \in {"save_running", "write_running"}
      BY <2>0, <2>1, PcsOfValues DEF SaveStep, SaveOpen, SaveFails, SaveWrite, SavePcs, WritePcs, PcOK,
                     StartPcs, ListenPcs, EndPcs
    <3> QED
      BY <2>0, <3>1
  <2>2. CASE StartStep(s)
    BY <2>0, <2>2 DEF StartStep, StartListen, StartDial, StartSend, StartPoststart
  <2>3. CASE Get(s)
    BY <2>0, <2>3 DEF Get
  <2>4. ~CreateStep(s) /\ ~KillSignal(s) /\ ~DeleteStep(s)
    BY <2>0 DEF CreateStep, CreatePrepare, CreateSpawn, CreateHooks, CreateAck, CreateDrain, KillSignal,
                DeleteStep, DeleteGet, DeleteKill, DeleteReap, DeleteCheck, DeleteRelease, DeleteRemove,
                Deleting
  <2> QED
    BY <1>3, <2>1, <2>2, <2>3, <2>4 DEF CliStep
<1> QED
  BY <1>1, <1>2, <1>3, WhoMoves

\* "running" is written by a start that has had its answer.
LEMMA FileMoves ==
    ASSUME TypeOK, PcOK, [Next]_vars, file'.status = "running"
    PROVE  \/ file' = file
           \/ \E s \in Procs : /\ cmd[s] = "start" /\ pc[s] = "write_running"
                               /\ file'.pid = view[s].pid
<1> USE DEF TypeOK
<1>1. ASSUME NEW p \in Procs, SaveStep(p)
      PROVE  file' = file \/ (cmd[p] = "start" /\ pc[p] = "write_running" /\ file'.pid = view[p].pid)
  <2>1. CASE SaveOpen(p)
    BY <2>1 DEF SaveOpen, Torn
  <2>2. CASE SaveFails(p)
    BY <2>2 DEF SaveFails, diskVars
  <2>3. CASE SaveWrite(p)
    <3>1. /\ pc[p] \in WritePcs
          /\ file' = file \/ file' = [status |-> Saved[pc[p]].status, pid |-> view[p].pid]
      BY <2>3 DEF SaveWrite
    <3>2. file' = file \/ pc[p] = "write_running"
      BY <3>1 DEF WritePcs, Saved
    <3>3. pc[p] = "write_running" => cmd[p] = "start"
      BY PcsOfValues DEF PcOK, PcsOf, AllCommands, CreatePcs, KillPcs, DeletePcs, EndPcs
    <3> QED
      BY <3>1, <3>2, <3>3
  <2> QED
    BY <1>1, <2>1, <2>2, <2>3 DEF SaveStep
<1>2. ASSUME NEW p \in Procs, CreateStep(p) PROVE file' = file
  BY <1>2 DEF CreateStep, CreatePrepare, CreateSpawn, CreateHooks, CreateAck, CreateDrain, diskVars
<1>3. ASSUME NEW p \in Procs, StartStep(p) \/ Get(p) \/ KillSignal(p) PROVE file' = file
  BY <1>3 DEF StartStep, StartListen, StartDial, StartSend, StartAwait, StartPoststart, Get, KillSignal,
              diskVars
<1>4. ASSUME NEW p \in Procs, DeleteStep(p) PROVE file' = file
  <2>1. CASE DeleteGet(p) \/ DeleteRemove(p)
    BY <2>1 DEF DeleteGet, DeleteRemove, RemoveBaseDir, NoFile, diskVars
  <2>2. CASE DeleteKill(p) \/ DeleteReap(p) \/ DeleteCheck(p) \/ DeleteRelease(p)
    BY <2>2 DEF DeleteKill, DeleteReap, DeleteCheck, DeleteRelease, diskVars
  <2> QED
    BY <1>4, <2>1, <2>2 DEF DeleteStep
<1>5. ASSUME NEW p \in Procs, RxStep(p) PROVE file' = file
  BY <1>5 DEF RxStep, RxBoot, RxAwaitAck, RxGet, RxListen, RxAwaitStart, RxUnlisten, RxConnect, RxExec,
              RxExecMonitor, diskVars
<1>6. ASSUME NEW p \in Procs, CliDies(p) \/ RxDies(p) \/ Reap(p) \/ \E k \in Commands : Begin(p, k)
      PROVE  file' = file
  BY <1>6 DEF CliDies, RxDies, Reap, Begin, diskVars
<1>7. BundleVanishes \/ UNCHANGED vars => file' = file
  BY DEF BundleVanishes, vars, diskVars
<1> QED
  BY <1>1, <1>2, <1>3, <1>4, <1>5, <1>6, <1>7, Zenon DEF Next, CliStep

\* The reexec process that a start is answered by is the one it read in
\* state.json, and it answers nobody else.
LEMMA OutcomeStep ==
    ASSUME OutcomeInv, TypeOK', [Next]_vars
    PROVE  /\ SpawnedByCreate' /\ ConnectsToReader' /\ ReportsOnce'
           /\ SavesAfterReport' /\ RunningMeansReported'
<1>0. TypeOK /\ PcOK /\ ViewsAgree /\ AckedByCreate
  BY DEF OutcomeInv, KnownInv
<1>1. ASSUME NEW c \in Procs, CreateSpawn(c)
      PROVE  rx[c] = "none" /\ uconn[c] = NoProc /\ msg[c] = "none" /\ pc'[c] \in SpawnedPcs
  <2>1. cmd[c] = "create" /\ pc[c] = "spawn" /\ pc'[c] \in SpawnedPcs
    BY <1>0, <1>1 DEF CreateSpawn, Goto, SpawnedPcs, EndPcs, TypeOK
  <2> QED
    BY <2>1 DEF OutcomeInv, SpawnedByCreate, ConnectsToReader, ReportsOnce, SpawnedPcs, ReleasedPcs, EndPcs
<1>2. SpawnedByCreate'
  <2> SUFFICES ASSUME NEW c \in Procs, rx'[c] # "none"
               PROVE  cmd'[c] = "create" /\ pc'[c] \in SpawnedPcs
    BY DEF SpawnedByCreate
  <2>1. CASE CreateSpawn(c)
    BY <1>1, <2>1 DEF CreateSpawn
  <2>2. CASE ~CreateSpawn(c)
    <3>1. rx[c] # "none"
      BY <1>0, <2>2, RxMoves DEF RxStep, RxBoot, RxAwaitAck, RxGet, RxListen, RxAwaitStart, RxUnlisten,
              RxConnect, RxExec, RxExecMonitor
    <3>2. cmd[c] = "create" /\ pc[c] \in SpawnedPcs
      BY <3>1 DEF OutcomeInv, SpawnedByCreate
    <3> QED
      BY <1>0, <3>2, NoWayBack
  <2> QED
    BY <2>1, <2>2
<1>3. ASSUME NEW c \in Procs, uconn[c] # NoProc
      PROVE  /\ uconn'[c] = uconn[c]
             /\ rx'[c] \in {"exec", "ready", "monitor", "zombie", "dead"}
             /\ rx[c] # "exec" => rx'[c] # "exec"
  <2>1. rx[c] \in {"exec", "ready", "monitor", "zombie", "dead"} /\ pc[c] \in ReleasedPcs
    BY <1>3 DEF OutcomeInv, ConnectsToReader
  <2>2. ~CreateSpawn(c) /\ ~RxConnect(c)
    BY <2>1 DEF CreateSpawn, RxConnect, ReleasedPcs, EndPcs
  <2>3. RxStep(c) => RxExec(c) \/ RxExecMonitor(c)
    BY <2>1 DEF RxStep, RxBoot, RxAwaitAck, RxGet, RxListen, RxAwaitStart, RxUnlisten, RxConnect
  <2>4. RxExec(c) \/ RxExecMonitor(c) => rx'[c] \in {"ready", "zombie", "monitor"}
    BY <1>0 DEF RxExec, RxExecMonitor, RxGoto, RxExit, TypeOK
  <2>5. uconn'[c] = uconn[c]
    BY <1>0, <2>2, RxSpeaks
  <2> QED
    BY <1>0, <2>1, <2>2, <2>3, <2>4, <2>5, RxMoves
<1>4. ASSUME NEW c \in Procs, RxConnect(c), uconn'[c] # NoProc
      PROVE  /\ rx'[c] = "exec" /\ pc'[c] \in ReleasedPcs
             /\ cmd'[uconn'[c]] = "start" /\ pc'[uconn'[c]] \in ListenPcs /\ view'[uconn'[c]].pid = c
  <2>1. rx[c] = "conn" /\ uconn[c] = NoProc
    BY <1>4 DEF RxConnect, OutcomeInv, ConnectsToReader
  <2>2. /\ usock # NoProc /\ Listening(usock) /\ uconn'[c] = usock /\ rx'[c] = "exec"
        /\ UNCHANGED <<cmd, pc, view>>
    BY <1>0, <1>4, <2>1 DEF RxConnect, RxGoto, TypeOK, cliVars
  <2>3. usock \in Procs /\ cmd[usock] = "start" /\ pc[usock] \in ListenPcs
    BY <1>0, <2>2 DEF Listening, TypeOK, OptProc
  <2>4. Armed(c) /\ InProgress(usock) /\ pc[usock] # "get"
    BY <2>1, <2>3 DEF Armed, ArmedRx, InProgress, ListenPcs, EndPcs
  <2>5. view[usock].pid = c /\ pc[c] \in ReleasedPcs
    BY <1>0, <2>3, <2>4 DEF ViewsAgree, AckedByCreate, ReleasedPcs
  <2> QED
    BY <2>2, <2>3, <2>5
<1>5. ConnectsToReader'
  <2> SUFFICES ASSUME NEW c \in Procs
               PROVE  /\ rx'[c] \in {"exec", "ready", "monitor"} => uconn'[c] # NoProc
                      /\ uconn'[c] # NoProc =>
                           /\ rx'[c] \in {"exec", "ready", "monitor", "zombie", "dead"}
                           /\ pc'[c] \in ReleasedPcs
                           /\ cmd'[uconn'[c]] = "start" /\ pc'[uconn'[c]] \in ListenPcs \cup EndPcs
                           /\ view'[uconn'[c]].pid = c
    BY DEF ConnectsToReader
  <2>1. CASE uconn[c] # NoProc
    <3>1. /\ uconn[c] \in Procs /\ pc[c] \in ReleasedPcs /\ rx[c] # "none"
          /\ cmd[uconn[c]] = "start" /\ pc[uconn[c]] \in ListenPcs \cup EndPcs
          /\ view[uconn[c]].pid = c
      BY <1>0, <2>1 DEF OutcomeInv, ConnectsToReader, TypeOK, OptProc
    <3>2. /\ cmd'[uconn[c]] = "start" /\ pc'[uconn[c]] \in ListenPcs \cup EndPcs
          /\ view'[uconn[c]].pid = c
      BY <1>0, <3>1, NoWayBack
    <3>3. pc'[c] \in ReleasedPcs
      BY <1>0, <3>1, NoWayBack DEF OutcomeInv, SpawnedByCreate
    <3> QED
      BY <1>3, <2>1, <3>2, <3>3
  <2>2. CASE uconn[c] = NoProc /\ RxConnect(c)
    <3>1. rx'[c] = "exec" => uconn'[c] # NoProc
      BY <1>0, <2>2, ConstAssumption DEF RxConnect, RxGoto, RxExit, TypeOK, OptProc
    <3>2. rx'[c] \in {"exec", "zombie"}
      BY <1>0, <2>2 DEF RxConnect, RxGoto, RxExit, TypeOK
    <3> QED
      BY <1>4, <2>2, <3>1, <3>2
  <2>3. CASE uconn[c] = NoProc /\ ~RxConnect(c)
    <3>1. uconn'[c] = NoProc /\ rx[c] \notin {"exec", "ready", "monitor"}
      BY <1>0, <2>3, RxSpeaks DEF OutcomeInv, ConnectsToReader
    <3>2. CreateSpawn(c) => rx'[c] \in {"none", "boot"}
      BY <1>0 DEF CreateSpawn, RxGoto, TypeOK
    <3>3. RxStep(c) => rx'[c] \notin {"exec", "ready", "monitor"}
      BY <1>0, <2>3, <3>1 DEF RxStep, RxBoot, RxAwaitAck, RxGet, RxListen, RxAwaitStart, RxUnlisten,
                  RxExec, RxExecMonitor, RxGoto, RxExit, TypeOK
    <3>4. rx'[c] \notin {"exec", "ready", "monitor"}
      BY <1>0, <3>1, <3>2, <3>3, RxMoves
    <3> QED
      BY <3>1, <3>4
  <2> QED
    BY <2>1, <2>2, <2>3
<1>6. ASSUME NEW c \in Procs, msg[c] # "none"
      PROVE  msg'[c] = msg[c] /\ uconn'[c] = uconn[c] /\ uconn[c] # NoProc
             /\ rx'[c] \in {"ready", "monitor", "zombie", "dead"}
  <2>1. rx[c] \in {"ready", "monitor", "zombie", "dead"} /\ uconn[c] # NoProc
    BY <1>6 DEF OutcomeInv, ReportsOnce
  <2>2. ~RxExec(c)
    BY <2>1 DEF RxExec
  <2> QED
    BY <1>0, <1>3, <2>1, <2>2, RxSpeaks
<1>7. ReportsOnce'
  <2> SUFFICES ASSUME NEW c \in Procs, msg'[c] # "none"
               PROVE  rx'[c] \in {"ready", "monitor", "zombie", "dead"} /\ uconn'[c] # NoProc
    BY DEF ReportsOnce
  <2>1. CASE msg[c] # "none"
    BY <1>6, <2>1
  <2>2. CASE msg[c] = "none"
    <3>1. RxExec(c) /\ rx[c] = "exec"
      BY <1>0, <2>2, RxSpeaks DEF RxExec
    <3>2. uconn'[c] = uconn[c] /\ uconn[c] # NoProc
      BY <3>1 DEF RxExec, OutcomeInv, ConnectsToReader
    <3>3. rx'[c] \in {"ready", "zombie"}
      BY <1>0, <3>1 DEF RxExec, RxGoto, RxExit, TypeOK
    <3> QED
      BY <3>2, <3>3
  <2> QED
    BY <2>1, <2>2
<1>8. SavesAfterReport'
  <2> SUFFICES ASSUME NEW s \in Procs, cmd'[s] = "start",
                      pc'[s] \in {"save_running", "write_running", "poststart", "ok"}
               PROVE  \E c \in Procs : view'[s].pid = c /\ uconn'[c] = s /\ msg'[c] = "success"
    BY DEF SavesAfterReport
  <2>1. CASE cmd[s] = "start" /\ pc[s] \in {"save_running", "write_running", "poststart", "ok"}
    <3>1. PICK c \in Procs : view[s].pid = c /\ uconn[c] = s /\ msg[c] = "success"
      BY <2>1 DEF OutcomeInv, SavesAfterReport
    <3>2. view'[s].pid = view[s].pid
      BY <1>0, <2>1, NoWayBack DEF ListenPcs, EndPcs
    <3>3. uconn'[c] = s /\ msg'[c] = "success"
      BY <1>6, <3>1
    <3> QED
      BY <3>1, <3>2, <3>3
  <2>2. CASE StartAwait(s)
    <3>1. PICK r \in Procs : uconn[r] = s /\ msg[r] = "success"
      BY <1>0, <2>2 DEF StartAwait, Goto, TypeOK
    <3>2. view[s].pid = r
      BY <3>1, ConstAssumption DEF OutcomeInv, ConnectsToReader
    <3>3. UNCHANGED <<view, uconn, msg>>
      BY <2>2 DEF StartAwait
    <3> QED
      BY <3>1, <3>2, <3>3
  <2> QED
    BY <1>0, <2>1, <2>2, StartForward
<1>9. RunningMeansReported'
  <2> SUFFICES ASSUME file'.status = "running"
               PROVE  file'.pid # NoProc /\ msg'[file'.pid] = "success"
    BY DEF RunningMeansReported
  <2>1. CASE file' = file
    <3>1. file.pid # NoProc /\ msg[file.pid] = "success"
      BY <2>1 DEF OutcomeInv, RunningMeansReported
    <3>2. file.pid \in Procs
      BY <1>0, <3>1 DEF TypeOK, States, OptProc
    <3> QED
      BY <1>6, <2>1, <3>1, <3>2
  <2>2. CASE \E s \in Procs : cmd[s] = "start" /\ pc[s] = "write_running" /\ file'.pid = view[s].pid
    <3>1. PICK s \in Procs : cmd[s] = "start" /\ pc[s] = "write_running" /\ file'.pid = view[s].pid
      BY <2>2
    <3>2. PICK c \in Procs : view[s].pid = c /\ msg[c] = "success"
      BY <3>1 DEF OutcomeInv, SavesAfterReport
    <3> QED
      BY <1>6, <3>1, <3>2, ConstAssumption
  <2> QED
    BY <1>0, <2>1, <2>2, FileMoves
<1> QED
  BY <1>2, <1>5, <1>7, <1>8, <1>9

\* OutcomeInv is an invariant for a caller that keeps the contract.
LEMMA OutcomeInvariant ==
    ASSUME Contract PROVE Spec => []OutcomeInv
<1>1. Init => OutcomeInv
  <2> SUFFICES ASSUME Init PROVE OutcomeInv
    OBVIOUS
  <2>1. SpawnedByCreate /\ ConnectsToReader /\ ReportsOnce
    BY DEF Init, SpawnedByCreate, ConnectsToReader, ReportsOnce
  <2>2. SavesAfterReport /\ RunningMeansReported
    BY DEF Init, SavesAfterReport, RunningMeansReported, NoFile
  <2> QED
    BY <2>1, <2>2, KnownInvInit DEF OutcomeInv
<1>2. OutcomeInv /\ TypeOK' /\ [Next]_vars => OutcomeInv'
  <2> SUFFICES ASSUME OutcomeInv, TypeOK', [Next]_vars PROVE OutcomeInv'
    OBVIOUS
  <2>1. KnownInv'
    BY KnownInvStep DEF OutcomeInv
  <2> QED
    BY <2>1, OutcomeStep DEF OutcomeInv
<1> QED
  BY <1>1, <1>2, TypeCorrect, PTL DEF Spec

\* state.json says "running" only for a container whose own reexec process has
\* reported RX_SUCCESS, however starts, kills and deletes overlap and whichever
\* of them is killed (RunningMeansReported).
THEOREM RunningReported ==
    ASSUME Contract PROVE Spec => []RunningMeansReported
<1>1. OutcomeInv => RunningMeansReported
  BY DEF OutcomeInv
<1> QED
  BY <1>1, OutcomeInvariant, PTL

\* Of all the starts that ever found the same monitor pid in state.json no two
\* return success (StartedOnce): the reexec process connects to urunc.sock once.
THEOREM StartedAtMostOnce ==
    ASSUME Contract PROVE Spec => []StartedOnce
<1>1. OutcomeInv => StartedOnce
  BY DEF OutcomeInv, SavesAfterReport, StartedOnce
<1> QED
  BY <1>1, OutcomeInvariant, PTL
=============================================================================
