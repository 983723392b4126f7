------------------------------- MODULE OCIProofs -------------------------------
(***************************************************************************)
(* The processes of Lifecycle implement OCIContainer, for any number of    *)
(* invocations and a caller that keeps the contract.                       *)
(***************************************************************************)
EXTENDS LifecycleProofs

-----------------------------------------------------------------------------
(* The inductive invariant, on top of OutcomeInv *)

\* Without a base directory there is no state.json, and it names nobody but the
\* process of the create that made the directory.
FileInDir ==
    /\ dir = NoProc => file = NoFile /\ open = {}
    /\ file.pid \in {NoProc, dir}

\* One writer at a time has state.json open, and it is truncated for so long.
OneWriter ==
    /\ \A p \in open : pc[p] \in WritePcs /\ file.status = "torn"
    /\ \A p, q \in open : p = q

\* What the running create finds in state.json.
CreateSaves ==
    \A p \in Procs : Creating(p) =>
        /\ pc[p] \in {"prepare", "save_creating"} => file = NoFile /\ open = {}
        /\ pc[p] \in {"spawn", "save_created"} => file = [status |-> "creating", pid |-> NoProc]
        /\ pc[p] \in {"write_creating", "write_created"} => p \in open
        /\ pc[p] \in {"save_creating", "write_creating"} => view[p].pid = NoProc

\* A command that read state.json holds the pid of the base directory's create,
\* for as long as the directory is there.
ViewsOfDir ==
    \A p \in Procs : cmd[p] # "create" /\ InProgress(p) /\ pc[p] # "get" /\ dir # NoProc =>
        view[p].pid \in {NoProc, dir}

\* The record of a released process stays "created" until the start that it
\* reports to saves the state.
CreatedUntilStart ==
    \A c \in Procs :
        /\ dir = c
        /\ Armed(c) \/ uconn[c] # NoProc
        /\ uconn[c] # NoProc => pc[uconn[c]] \in {"dial", "send", "await", "save_running"}
        => file = [status |-> "created", pid |-> c]

RefineInv ==
    /\ OutcomeInv
    /\ FileInDir
    /\ OneWriter
    /\ CreateSaves
    /\ ViewsOfDir
    /\ CreatedUntilStart

-----------------------------------------------------------------------------
(* What a step does to the base directory, to memory and to the process *)

\* The steps that change what is on disk.
LEMMA DiskMoves ==
    ASSUME [Next]_vars
    PROVE  \/ UNCHANGED diskVars
           \/ \E p \in Procs : SaveOpen(p) \/ SaveWrite(p) \/ CliDies(p) \/ CreatePrepare(p)
           \/ \E p \in Procs : /\ (DeleteGet(p) /\ Missing) \/ DeleteRemove(p)
                               /\ dir' = NoProc /\ file' = NoFile /\ open' = {}
<1>1. ASSUME NEW p \in Procs, SaveFails(p) \/ Get(p) \/ KillSignal(p) PROVE UNCHANGED diskVars
  BY <1>1 DEF SaveFails, Get, KillSignal
<1>2. ASSUME NEW p \in Procs, CreateStep(p), ~CreatePrepare(p) PROVE UNCHANGED diskVars
  BY <1>2 DEF CreateStep, CreateSpawn, CreateHooks, CreateAck, CreateDrain
<1>3. ASSUME NEW p \in Procs, StartStep(p) PROVE UNCHANGED diskVars
  BY <1>3 DEF StartStep, StartListen, StartDial, StartSend, StartAwait, StartPoststart
<1>4. ASSUME NEW p \in Procs, DeleteStep(p)
      PROVE  \/ UNCHANGED diskVars
             \/ /\ (DeleteGet(p) /\ Missing) \/ DeleteRemove(p)
                /\ dir' = NoProc /\ file' = NoFile /\ open' = {}
  BY <1>4 DEF DeleteStep, DeleteGet, DeleteKill, DeleteReap, DeleteCheck, DeleteRelease, DeleteRemove,
              RemoveBaseDir
<1>5. ASSUME NEW p \in Procs, RxStep(p) PROVE UNCHANGED diskVars
  BY <1>5 DEF RxStep, RxBoot, RxAwaitAck, RxGet, RxListen, RxAwaitStart, RxUnlisten, RxConnect, RxExec,
              RxExecMonitor
<1>6. ASSUME NEW p \in Procs, RxDies(p) \/ Reap(p) \/ \E k \in Commands : Begin(p, k)
      PROVE  UNCHANGED diskVars
  BY <1>6 DEF RxDies, Reap, Begin
<1>7. BundleVanishes \/ UNCHANGED vars => UNCHANGED diskVars
  BY DEF BundleVanishes, vars
<1> QED
  BY <1>1, <1>2, <1>3, <1>4, <1>5, <1>6, <1>7, Zenon DEF Next, CliStep, SaveStep

\* The steps that write or read UC_ACK.
LEMMA AckMoves ==
    ASSUME [Next]_vars
    PROVE  ack' = ack \/ \E p \in Procs : CreateAck(p) \/ RxAwaitAck(p)
<1>1. ASSUME NEW p \in Procs, SaveStep(p) \/ Get(p) \/ KillSignal(p) PROVE ack' = ack
  BY <1>1 DEF SaveStep, SaveOpen, SaveFails, SaveWrite, Get, KillSignal, rxVars
<1>2. ASSUME NEW p \in Procs, CreateStep(p), ~CreateAck(p) PROVE ack' = ack
  BY <1>2 DEF CreateStep, CreatePrepare, CreateSpawn, CreateHooks, CreateDrain, rxVars
<1>3. ASSUME NEW p \in Procs, StartStep(p) \/ DeleteStep(p) PROVE ack' = ack
  BY <1>3 DEF StartStep, StartListen, StartDial, StartSend, StartAwait, StartPoststart, DeleteStep,
              DeleteGet, DeleteKill, DeleteReap, DeleteCheck, DeleteRelease, DeleteRemove, rxVars
<1>4. ASSUME NEW p \in Procs, RxStep(p), ~RxAwaitAck(p) PROVE ack' = ack
  BY <1>4 DEF RxStep, RxBoot, RxGet, RxListen, RxAwaitStart, RxUnlisten, RxConnect, RxExec, RxExecMonitor
<1>5. ASSUME NEW p \in Procs, CliDies(p) \/ RxDies(p) \/ Reap(p) \/ \E k \in Commands : Begin(p, k)
      PROVE  ack' = ack
  BY <1>5 DEF CliDies, RxDies, Reap, Begin, rxVars
<1>6. BundleVanishes \/ UNCHANGED vars => ack' = ack
  BY DEF BundleVanishes, vars, rxVars
<1> QED
  BY <1>1, <1>2, <1>3, <1>4, <1>5, <1>6, Zenon DEF Next, CliStep

\* Only UC_ACK releases a process.
LEMMA ArmMoves ==
    ASSUME TypeOK, AckedByCreate, [Next]_vars, NEW c \in Procs, Armed(c)', ~Armed(c)
    PROVE  CreateAck(c)
<1> USE DEF TypeOK, Armed
<1>1. ack'[c] = ack[c] \/ CreateAck(c) \/ RxAwaitAck(c)
  <2>1. ASSUME NEW p \in Procs, CreateAck(p) \/ RxAwaitAck(p), p # c PROVE ack'[c] = ack[c]
    BY <2>1 DEF CreateAck, RxAwaitAck
  <2> QED
    BY <2>1, AckMoves
<1>2. ~RxAwaitAck(c)
  BY DEF RxAwaitAck, RxGoto, RxExit, ArmedRx
<1>3. ~CreateSpawn(c)
  <2> SUFFICES ASSUME CreateSpawn(c) PROVE FALSE
    OBVIOUS
  <2>1. pc[c] = "spawn" /\ ack' = ack /\ rx'[c] \in {"none", "boot"}
    BY DEF CreateSpawn, RxGoto
  <2>2. ~ack[c]
    BY <2>1 DEF AckedByCreate, EndPcs
  <2> QED
    BY <2>1, <2>2 DEF ArmedRx
<1>4. RxStep(c) /\ ~RxAwaitAck(c) => (Armed(c)' => Armed(c))
  BY DEF RxStep, RxBoot, RxGet, RxListen, RxAwaitStart, RxUnlisten, RxConnect, RxExec, RxExecMonitor,
         RxGoto, RxExit, ArmedRx
<1> QED
  BY <1>1, <1>2, <1>3, <1>4, RxMoves DEF ArmedRx

\* start, kill and delete read the pid once.
LEMMA KeepsPid ==
    ASSUME TypeOK, [Next]_vars, NEW q \in Procs,
           cmd'[q] # "create", InProgress(q)', pc'[q] # "get"
    PROVE  \/ /\ cmd[q] # "create" /\ InProgress(q) /\ pc[q] # "get"
              /\ view'[q].pid = view[q].pid
           \/ pc[q] = "get" /\ view'[q] = file /\ dir' = dir
<1> USE DEF TypeOK
<1>1. CASE cmd'[q] = cmd[q] /\ pc'[q] = pc[q] /\ view'[q] = view[q]
  BY <1>1 DEF InProgress
<1>2. CASE \E c \in Commands : Begin(q, c)
  BY <1>2, ConstAssumption DEF Begin, Goto, FirstPc
<1>3. CASE pc'[q] = "dead"
  BY <1>3 DEF InProgress, EndPcs
<1>4. CASE CliStep(q) /\ InProgress(q) /\ cmd'[q] = cmd[q]
  <2> USE DEF Goto, InProgress, EndPcs
  <2>1. CASE SaveStep(q)
    BY <1>4, <2>1 DEF SaveStep, SaveOpen, SaveFails, SaveWrite, SavePcs, WritePcs
  <2>2. CASE Get(q)
    BY <1>4, <2>2 DEF Get, diskVars
  <2>3. CASE StartStep(q) \/ KillSignal(q)
    BY <1>4, <2>3 DEF StartStep, StartListen, StartDial, StartSend, StartAwait, StartPoststart, KillSignal
  <2>4. CASE DeleteGet(q)
    BY <1>4, <2>4 DEF DeleteGet, diskVars
  <2>5. CASE DeleteStep(q) /\ ~DeleteGet(q)
    BY <1>4, <2>5 DEF DeleteStep, DeleteKill, DeleteReap, DeleteCheck, DeleteRelease, DeleteRemove
  <2>6. ~CreateStep(q)
    BY <1>4 DEF CreateStep, CreatePrepare, CreateSpawn, CreateHooks, CreateAck, CreateDrain
  <2> QED
    BY <1>4, <2>1, <2>2, <2>3, <2>4, <2>5, <2>6 DEF CliStep
<1> QED
  BY <1>1, <1>2, <1>3, <1>4, WhoMoves

-----------------------------------------------------------------------------
(* The invariant holds *)

\* What is known when a command opens state.json: nobody else has it open, and
\* only the first start saves after the create.
LEMMA BeforeSave ==
    ASSUME RefineInv, NEW p \in Procs, SaveOpen(p)
    PROVE  /\ open = {}
           /\ \/ cmd[p] = "create" /\ pc[p] = "save_creating" /\ file = NoFile
              \/ /\ cmd[p] = "create" /\ pc[p] = "save_created"
                 /\ file = [status |-> "creating", pid |-> NoProc]
              \/ /\ cmd[p] = "start" /\ pc[p] = "save_running" /\ dir \in Procs
                 /\ uconn[dir] = p /\ view[p].pid = dir
                 /\ file = [status |-> "created", pid |-> dir]
<1>0. TypeOK /\ PcOK
  BY DEF RefineInv, OutcomeInv, KnownInv
<1>1. pc[p] \in {"save_creating", "save_created", "save_running"} /\ dir # NoProc
  BY DEF SaveOpen, SavePcs
<1>2. \/ cmd[p] = "create" /\ pc[p] \in {"save_creating", "save_created"}
      \/ cmd[p] = "start" /\ pc[p] = "save_running"
  BY <1>0, <1>1, PcsOfValues DEF PcOK, PcsOf, TypeOK, AllCommands, CreatePcs, StartPcs, ListenPcs,
                                 KillPcs, DeletePcs, EndPcs
<1>3. CASE cmd[p] = "create" /\ pc[p] \in {"save_creating", "save_created"}
  <2>1. Creating(p)
    BY <1>3 DEF Creating, InProgress, EndPcs
  <2> QED
    BY <1>3, <2>1 DEF RefineInv, CreateSaves, OneWriter
<1>4. CASE cmd[p] = "start" /\ pc[p] = "save_running"
  <2>1. PICK c \in Procs : view[p].pid = c /\ uconn[c] = p
    BY <1>4 DEF RefineInv, OutcomeInv, SavesAfterReport
  <2>2. dir = c
    BY <1>1, <1>4, <2>1, ConstAssumption DEF RefineInv, ViewsOfDir, InProgress, EndPcs
  <2>3. file = [status |-> "created", pid |-> c]
    BY <1>4, <2>1, <2>2, ConstAssumption DEF RefineInv, CreatedUntilStart
  <2> QED
    BY <1>4, <2>1, <2>2, <2>3 DEF RefineInv, OneWriter
<1> QED
  BY <1>2, <1>3, <1>4

\* A create is on its own.
LEMMA AloneInCreate ==
    ASSUME OutcomeInv, Contract, [Next]_vars, NEW p \in Procs, Creating(p), NEW q \in Procs
    PROVE  /\ CliStep(q) \/ CliDies(q) => q = p
           /\ \A c \in Commands : ~Begin(q, c)
<1>1. CliStep(q) \/ CliDies(q) => q = p
  BY CliMoves DEF OutcomeInv, KnownInv, CreateAlone, CliDies
<1>2. \A c \in Commands : ~Begin(q, c)
  BY DEF Contract, Begin, Creating
<1> QED
  BY <1>1, <1>2

\* What a save writes: the status it is for and the pid the writer holds, which
\* is the one of the base directory.
LEMMA SaveWrites ==
    ASSUME RefineInv, NEW p \in Procs, SaveWrite(p), p \in open
    PROVE  /\ dir \in Procs /\ open = {p} /\ file.status = "torn" /\ open' = {} /\ dir' = dir
           /\ \/ /\ cmd[p] = "create" /\ pc[p] = "write_creating" /\ pc'[p] = "spawn" /\ dir = p
                 /\ file' = [status |-> "creating", pid |-> NoProc]
              \/ /\ cmd[p] = "create" /\ pc[p] = "write_created" /\ pc'[p] = "hooks" /\ dir = p
                 /\ file' = [status |-> "created", pid |-> p]
              \/ /\ cmd[p] = "start" /\ pc[p] = "write_running" /\ pc'[p] = "poststart"
                 /\ view[p].pid = dir /\ uconn[dir] = p /\ msg[dir] = "success"
                 /\ file' = [status |-> "running", pid |-> dir]
<1>0. TypeOK /\ PcOK /\ CreateOwnsDir
  BY DEF RefineInv, OutcomeInv, KnownInv
<1>1. /\ pc[p] \in WritePcs /\ file' = [status |-> Saved[pc[p]].status, pid |-> view[p].pid]
      /\ open' = open \ {p} /\ dir' = dir /\ pc'[p] = Saved[pc[p]].next
  BY <1>0 DEF SaveWrite, Goto, TypeOK
<1>2. dir \in Procs /\ open = {p} /\ file.status = "torn" /\ open' = {}
  <2>1. dir # NoProc
    BY DEF RefineInv, FileInDir
  <2>2. open = {p} /\ file.status = "torn"
    BY DEF RefineInv, OneWriter
  <2> QED
    BY <1>0, <1>1, <2>1, <2>2 DEF TypeOK, OptProc
<1>3. \/ cmd[p] = "create" /\ pc[p] = "write_creating"
      \/ cmd[p] = "create" /\ pc[p] = "write_created"
      \/ cmd[p] = "start" /\ pc[p] = "write_running"
  BY <1>0, <1>1, PcsOfValues DEF PcOK, PcsOf, TypeOK, AllCommands, CreatePcs, StartPcs, ListenPcs,
                                 KillPcs, DeletePcs, EndPcs, WritePcs
<1>4. CASE cmd[p] = "create" /\ pc[p] \in {"write_creating", "write_created"}
  <2>1. Creating(p)
    BY <1>4 DEF Creating, InProgress, EndPcs
  <2>2. dir = p
    BY <1>0, <1>4, <2>1 DEF CreateOwnsDir
  <2>3. /\ pc[p] = "write_creating" => view[p].pid = NoProc
        /\ pc[p] = "write_created" => view[p].pid = p
    BY <1>0, <1>4, <2>1 DEF CreateOwnsDir, RefineInv, CreateSaves
  <2> QED
    BY <1>1, <1>2, <1>4, <2>2, <2>3 DEF Saved, WritePcs
<1>5. CASE cmd[p] = "start" /\ pc[p] = "write_running"
  <2>1. PICK c \in Procs : view[p].pid = c /\ uconn[c] = p /\ msg[c] = "success"
    BY <1>5 DEF RefineInv, OutcomeInv, SavesAfterReport
  <2>2. dir = c
    BY <1>2, <1>5, <2>1, ConstAssumption DEF RefineInv, ViewsOfDir, InProgress, EndPcs
  <2> QED
    BY <1>1, <1>2, <1>5, <2>1, <2>2 DEF Saved, WritePcs
<1> QED
  BY <1>1, <1>2, <1>3, <1>4, <1>5

\* state.json lives in the base directory.
LEMMA FileInDirStep ==
    ASSUME RefineInv, [Next]_vars
    PROVE  FileInDir'
<1>0. TypeOK /\ FileInDir /\ CreateOwnsDir
  BY DEF RefineInv, OutcomeInv, KnownInv
<1>1. CASE UNCHANGED diskVars
  BY <1>0, <1>1 DEF diskVars, FileInDir
<1>2. ASSUME NEW p \in Procs, SaveOpen(p) PROVE FileInDir'
  BY <1>0, <1>2 DEF SaveOpen, FileInDir, Torn
<1>3. ASSUME NEW p \in Procs, SaveWrite(p) PROVE FileInDir'
  <2>1. CASE p \in open
    <3>1. dir' = dir /\ dir # NoProc /\ file'.pid \in {NoProc, dir}
      BY <1>3, <2>1, SaveWrites, ConstAssumption
    <3> QED
      BY <3>1 DEF FileInDir
  <2>2. CASE p \notin open
    BY <1>0, <1>3, <2>2 DEF SaveWrite, FileInDir
  <2> QED
    BY <2>1, <2>2
<1>4. ASSUME NEW p \in Procs, CliDies(p) PROVE FileInDir'
  BY <1>0, <1>4 DEF CliDies, FileInDir
<1>5. ASSUME NEW p \in Procs, CreatePrepare(p) PROVE FileInDir'
  <2>1. Creating(p) /\ pc[p] = "prepare"
    BY <1>5 DEF CreatePrepare, Creating, InProgress, EndPcs
  <2>2. dir = NoProc /\ file = NoFile /\ open = {}
    BY <1>0, <2>1 DEF CreateOwnsDir, FileInDir
  <2>3. file' = file /\ open' = open
    BY <1>5 DEF CreatePrepare
  <2> QED
    BY <2>2, <2>3 DEF FileInDir, NoFile
<1>6. CASE dir' = NoProc /\ file' = NoFile /\ open' = {}
  BY <1>6 DEF FileInDir, NoFile
<1> QED
  BY <1>1, <1>2, <1>3, <1>4, <1>5, <1>6, DiskMoves

\* A command in the middle of a save finishes it or dies.
LEMMA WriterMoves ==
    ASSUME TypeOK, NEW q \in Procs, pc[q] \in WritePcs, CliStep(q)
    PROVE  SaveWrite(q)
BY DEF WritePcs, CliStep, SaveStep, SaveOpen, SaveFails, SavePcs, CreateStep, CreatePrepare, CreateSpawn,
       CreateHooks, CreateAck, CreateDrain, Get, StartStep, StartListen, StartDial, StartSend, StartAwait,
       StartPoststart, KillSignal, DeleteStep, DeleteGet, DeleteKill, DeleteReap, DeleteCheck,
       DeleteRelease, DeleteRemove

\* Two saves never overlap.
LEMMA OneWriterStep ==
    ASSUME RefineInv, [Next]_vars
    PROVE  OneWriter'
<1>0. TypeOK /\ FileInDir /\ CreateOwnsDir /\ OneWriter
  BY DEF RefineInv, OutcomeInv, KnownInv
<1>1. ASSUME open' \subseteq open, file' = file,
             \A q \in open' : ~SaveWrite(q) /\ ~CliDies(q)
      PROVE  OneWriter'
  <2>1. ASSUME NEW q \in open' PROVE pc'[q] = pc[q]
    <3>1. q \in Procs /\ pc[q] \in WritePcs
      BY <1>0, <1>1, <2>1 DEF OneWriter, TypeOK
    <3>2. pc[q] # "idle" /\ ~CliStep(q)
      BY <1>0, <1>1, <2>1, <3>1, WriterMoves DEF WritePcs
    <3> QED
      BY <1>0, <1>1, <2>1, <3>1, <3>2, WhoMoves
  <2> QED
    BY <1>0, <1>1, <2>1 DEF OneWriter
<1>2. CASE UNCHANGED diskVars
  <2>1. \A q \in open' : ~SaveWrite(q) /\ ~CliDies(q)
    BY <1>2 DEF diskVars, SaveWrite, CliDies
  <2> QED
    BY <1>1, <1>2, <2>1 DEF diskVars
<1>3. ASSUME NEW p \in Procs, SaveOpen(p) PROVE OneWriter'
  <2>1. open' = {p} /\ file' = Torn
    BY <1>3, BeforeSave DEF SaveOpen
  <2>2. pc'[p] \in WritePcs
    BY <1>0, <1>3 DEF SaveOpen, Goto, AfterSave, SavePcs, WritePcs, TypeOK
  <2> QED
    BY <2>1, <2>2 DEF OneWriter, Torn
<1>4. ASSUME NEW p \in Procs, SaveWrite(p) PROVE OneWriter'
  <2>1. CASE p \in open
    BY <1>4, <2>1, SaveWrites DEF OneWriter
  <2>2. CASE p \notin open
    <3>1. /\ open' = open /\ file' = file /\ \A q \in open : pc'[q] = pc[q]
      BY <1>0, <1>4, <2>2 DEF SaveWrite, Goto, TypeOK
    <3> QED
      BY <1>0, <3>1 DEF OneWriter
  <2> QED
    BY <2>1, <2>2
<1>5. ASSUME NEW p \in Procs, CliDies(p) PROVE OneWriter'
  <2>1. /\ open' = open \ {p} /\ file' = file /\ \A q \in open' : pc'[q] = pc[q]
    BY <1>0, <1>5 DEF CliDies, Goto, TypeOK
  <2> QED
    BY <1>0, <2>1 DEF OneWriter
<1>6. ASSUME NEW p \in Procs, CreatePrepare(p) PROVE OneWriter'
  <2>1. Creating(p) /\ pc[p] = "prepare"
    BY <1>6 DEF CreatePrepare, Creating, InProgress, EndPcs
  <2>2. open' = {}
    BY <1>0, <1>6, <2>1 DEF CreateOwnsDir, FileInDir, CreatePrepare
  <2> QED
    BY <2>2 DEF OneWriter
<1>7. CASE open' = {}
  BY <1>7 DEF OneWriter
<1> QED
  BY <1>2, <1>3, <1>4, <1>5, <1>6, <1>7, DiskMoves

\* The saves of a create, which runs alone.
LEMMA CreateSavesStep ==
    ASSUME RefineInv, Contract, [Next]_vars
    PROVE  CreateSaves'
<1>0. TypeOK /\ PcOK /\ FileInDir /\ CreateSaves /\ OutcomeInv
  BY DEF RefineInv, OutcomeInv, KnownInv
<1> SUFFICES ASSUME NEW p \in Procs, Creating(p)'
             PROVE  /\ pc'[p] \in {"prepare", "save_creating"} => file' = NoFile /\ open' = {}
                    /\ pc'[p] \in {"spawn", "save_created"} =>
                         file' = [status |-> "creating", pid |-> NoProc]
                    /\ pc'[p] \in {"write_creating", "write_created"} => p \in open'
                    /\ pc'[p] \in {"save_creating", "write_creating"} => view'[p].pid = NoProc
  BY DEF CreateSaves
<1>1. CASE ~Creating(p)
  <2>1. \E c \in Commands : Begin(p, c)
    BY <1>0, <1>1, WhoMoves DEF Creating, InProgress
  <2>2. PICK c \in Commands : Begin(p, c)
    BY <2>1
  <2>3. c = "create" /\ pc'[p] = "prepare" /\ dir = NoProc /\ UNCHANGED <<file, open>>
    BY <1>0, <2>2, ConstAssumption DEF Begin, Goto, FirstPc, TypeOK, Creating, diskVars
  <2> QED
    BY <1>0, <2>3 DEF FileInDir
<1>2. CASE Creating(p)
  <2>0. cmd[p] = "create" /\ pc[p] \in CreatePcs
    BY <1>0, <1>2, PcsOfValues DEF Creating, InProgress, PcOK
  <2>1. CASE UNCHANGED diskVars
    <3>1. CASE cmd'[p] = cmd[p] /\ pc'[p] = pc[p] /\ view'[p] = view[p]
      BY <1>0, <1>2, <2>1, <3>1 DEF diskVars, CreateSaves
    <3>2. CASE SaveStep(p)
      <4>1. CASE SaveFails(p)
        BY <1>0, <4>1 DEF SaveFails, Goto, TypeOK
      <4>2. ~SaveOpen(p)
        BY <1>2, <2>1, BeforeSave, ConstAssumption DEF SaveOpen, diskVars
      <4>3. ~SaveWrite(p)
        <5>1. pc[p] \in WritePcs => p \in open
          BY <1>0, <1>2, <2>0 DEF CreateSaves, WritePcs, CreatePcs
        <5> QED
          BY <2>1, <5>1 DEF SaveWrite, diskVars
      <4> QED
        BY <3>2, <4>1, <4>2, <4>3 DEF SaveStep
    <3>3. CASE CreateStep(p)
      <4>1. CASE CreatePrepare(p)
        BY <1>0, <1>2, <2>1, <4>1 DEF CreatePrepare, Goto, TypeOK, CreateSaves, diskVars
      <4>2. CASE CreateSpawn(p)
        BY <1>0, <1>2, <2>1, <4>2 DEF CreateSpawn, Goto, TypeOK, CreateSaves, diskVars
      <4>3. CASE CreateHooks(p) \/ CreateAck(p) \/ CreateDrain(p)
        BY <1>0, <4>3 DEF CreateHooks, CreateAck, CreateDrain, Goto, TypeOK
      <4> QED
        BY <3>3, <4>1, <4>2, <4>3 DEF CreateStep
    <3>4. CliStep(p) => SaveStep(p) \/ CreateStep(p)
      BY <2>0 DEF CliStep, Get, StartStep, StartListen, StartDial, StartSend, StartAwait, StartPoststart,
                  KillSignal, DeleteStep, DeleteGet, DeleteKill, DeleteReap, DeleteCheck, DeleteRelease,
                  DeleteRemove, Deleting
    <3>5. pc'[p] # "dead" /\ ~\E c \in Commands : Begin(p, c)
      BY <1>0, <1>2, AloneInCreate DEF Creating, InProgress, EndPcs
    <3> QED
      BY <1>0, <3>1, <3>2, <3>3, <3>4, <3>5, WhoMoves
  <2>2. ASSUME NEW q \in Procs, SaveOpen(q) \/ SaveWrite(q) \/ CliDies(q) \/ CreatePrepare(q) PROVE q = p
    BY <1>0, <1>2, <2>2, AloneInCreate DEF CliStep, SaveStep, CreateStep
  <2>3. CASE SaveOpen(p)
    <3>1. p \in open' /\ view' = view
      BY <2>3 DEF SaveOpen
    <3>2. \/ pc[p] = "save_creating" /\ pc'[p] = "write_creating"
          \/ pc[p] = "save_created" /\ pc'[p] = "write_created"
      BY <1>0, <2>0, <2>3, BeforeSave DEF SaveOpen, Goto, AfterSave, SavePcs, TypeOK
    <3> QED
      BY <1>0, <1>2, <3>1, <3>2 DEF CreateSaves
  <2>4. CASE SaveWrite(p)
    <3>1. p \in open
      BY <1>0, <1>2, <2>0, <2>4 DEF CreateSaves, SaveWrite, WritePcs, CreatePcs
    <3> QED
      BY <2>0, <2>4, <3>1, SaveWrites
  <2>5. CASE CliDies(p)
    BY <1>0, <2>5 DEF CliDies, Goto, TypeOK, Creating, InProgress, EndPcs
  <2>6. CASE CreatePrepare(p)
    <3>1. file = NoFile /\ open = {} /\ UNCHANGED <<file, open>>
      BY <1>0, <1>2, <2>6 DEF CreatePrepare, CreateSaves
    <3>2. \/ pc'[p] = "fail"
          \/ pc'[p] = "save_creating" /\ view'[p].pid = NoProc
      BY <1>0, <2>6 DEF CreatePrepare, Goto, TypeOK
    <3> QED
      BY <3>1, <3>2
  <2>7. ASSUME NEW q \in Procs, DeleteGet(q) \/ DeleteRemove(q) PROVE FALSE
    <3>1. q = p
      BY <1>0, <1>2, <2>7, AloneInCreate DEF CliStep, DeleteStep
    <3> QED
      BY <2>0, <2>7, <3>1 DEF DeleteGet, DeleteRemove, Deleting
  <2> QED
    BY <2>1, <2>2, <2>3, <2>4, <2>5, <2>6, <2>7, DiskMoves
<1> QED
  BY <1>1, <1>2

\* Commands act on the container they read, as long as it is there.
LEMMA ViewsOfDirStep ==
    ASSUME RefineInv, Contract, [Next]_vars
    PROVE  ViewsOfDir'
<1>0. TypeOK /\ FileInDir /\ ViewsOfDir /\ OutcomeInv
  BY DEF RefineInv, OutcomeInv, KnownInv
<1> SUFFICES ASSUME NEW q \in Procs, cmd'[q] # "create", InProgress(q)', pc'[q] # "get", dir' # NoProc
             PROVE  view'[q].pid \in {NoProc, dir'}
  BY DEF ViewsOfDir
<1>1. CASE pc[q] = "get" /\ view'[q] = file /\ dir' = dir
  BY <1>0, <1>1 DEF FileInDir
<1>2. CASE /\ cmd[q] # "create" /\ InProgress(q) /\ pc[q] # "get"
           /\ view'[q].pid = view[q].pid
  <2>1. \A p \in Procs : ~CreatePrepare(p)
    <3> SUFFICES ASSUME NEW p \in Procs, CreatePrepare(p) PROVE FALSE
      OBVIOUS
    <3>1. Creating(p)
      BY DEF CreatePrepare, Creating, InProgress, EndPcs
    <3> QED
      BY <1>0, <1>2, <3>1 DEF OutcomeInv, KnownInv, CreateAlone, Creating
  <2>2. dir' = dir
    BY <2>1, DiskMoves DEF diskVars, SaveOpen, SaveWrite, CliDies
  <2> QED
    BY <1>0, <1>2, <2>2 DEF ViewsOfDir
<1> QED
  BY <1>0, <1>1, <1>2, KeepsPid

\* The record of a released process is not touched before its start saves it.
LEMMA CreatedUntilStartStep ==
    ASSUME RefineInv, OutcomeInv', [Next]_vars
    PROVE  CreatedUntilStart'
<1>0. /\ TypeOK /\ PcOK /\ FileInDir /\ OutcomeInv /\ CreateOwnsDir /\ CreateAlone /\ AckedByCreate
      /\ SpawnedByCreate /\ ConnectsToReader /\ CreatedUntilStart /\ OneWriter /\ TypeOK'
  BY DEF RefineInv, OutcomeInv, KnownInv
<1> DEFINE Pre == {"dial", "send", "await", "save_running"}
<1> SUFFICES ASSUME NEW c \in Procs, dir' = c, Armed(c)' \/ uconn'[c] # NoProc,
                    uconn'[c] # NoProc => pc'[uconn'[c]] \in Pre
             PROVE  file' = [status |-> "created", pid |-> c]
  BY DEF CreatedUntilStart
<1>1. uconn[c] # NoProc => uconn'[c] = uconn[c]
  BY <1>0, RxSpeaks DEF ConnectsToReader, RxConnect
<1>2. uconn[c] # NoProc => pc[uconn[c]] \in Pre
  <2> SUFFICES ASSUME uconn[c] # NoProc PROVE pc[uconn[c]] \in Pre
    OBVIOUS
  <2>1. /\ uconn[c] \in Procs /\ cmd[uconn[c]] = "start"
        /\ pc[uconn[c]] \in ListenPcs \cup EndPcs
    BY <1>0 DEF ConnectsToReader, TypeOK, OptProc
  <2>2. pc'[uconn[c]] \in Pre
    BY <1>1
  <2>3. pc[uconn[c]] \notin {"write_running", "poststart"} \cup EndPcs
    BY <1>0, <2>1, <2>2, NoWayBack DEF EndPcs
  <2> QED
    BY <2>1, <2>3 DEF ListenPcs
<1>3. dir = c
  <2>1. dir' = dir \/ \E p \in Procs : CreatePrepare(p)
    BY DiskMoves, ConstAssumption DEF diskVars, SaveOpen, SaveWrite, CliDies
  <2>2. ASSUME NEW p \in Procs, CreatePrepare(p), dir' # dir PROVE FALSE
    <3>1. pc[p] = "prepare" /\ dir' = p /\ UNCHANGED <<rx, ack, uconn>>
      BY <2>2 DEF CreatePrepare, rxVars, sockVars
    <3>2. rx[p] = "none" /\ uconn[p] = NoProc
      BY <1>0, <3>1 DEF SpawnedByCreate, ConnectsToReader, SpawnedPcs, ReleasedPcs, EndPcs
    <3> QED
      BY <3>1, <3>2 DEF Armed, ArmedRx
  <2> QED
    BY <2>1, <2>2
<1>4. CASE ~Armed(c) /\ uconn[c] = NoProc
  <2>1. ~RxConnect(c)
    BY <1>4 DEF RxConnect, Armed, ArmedRx
  <2>2. uconn'[c] = NoProc
    BY <1>0, <1>4, <2>1, RxSpeaks
  <2>3. CreateAck(c)
    BY <1>0, <1>4, <2>2, ArmMoves
  <2>4. Creating(c) /\ pc[c] = "ack" /\ file' = file
    BY <2>3 DEF CreateAck, Creating, InProgress, EndPcs, diskVars
  <2> QED
    BY <1>0, <2>4 DEF CreateOwnsDir
<1>5. CASE Armed(c) \/ uconn[c] # NoProc
  <2>1. file = [status |-> "created", pid |-> c]
    BY <1>0, <1>2, <1>3, <1>5 DEF CreatedUntilStart
  <2>2. open = {}
    BY <1>0, <2>1 DEF OneWriter
  <2>3. ASSUME NEW p \in Procs, SaveOpen(p) PROVE FALSE
    <3>1. CASE cmd[p] = "create"
      BY <2>1, <2>3, <3>1, BeforeSave DEF NoFile
    <3>2. CASE cmd[p] = "start"
      <4>1. uconn[c] = p /\ pc[p] = "save_running"
        BY <1>3, <2>3, <3>2, BeforeSave
      <4>2. pc'[p] = "write_running"
        BY <1>0, <2>3, <4>1 DEF SaveOpen, Goto, AfterSave, SavePcs, TypeOK
      <4> QED
        BY <1>1, <4>1, <4>2, ConstAssumption
    <3> QED
      BY <2>3, <3>1, <3>2, BeforeSave
  <2>4. ASSUME NEW p \in Procs, SaveWrite(p) \/ CliDies(p) \/ CreatePrepare(p) PROVE file' = file
    BY <2>2, <2>4 DEF SaveWrite, CliDies, CreatePrepare
  <2>5. dir' # NoProc
    BY ConstAssumption
  <2> QED
    BY <2>1, <2>3, <2>4, <2>5, DiskMoves DEF diskVars
<1> QED
  BY <1>4, <1>5

\* RefineInv is an invariant for a caller that keeps the contract.
LEMMA RefineInvariant ==
    ASSUME Contract PROVE Spec => []RefineInv
<1>1. Init => RefineInv
  <2> SUFFICES ASSUME Init PROVE RefineInv
    OBVIOUS
  <2>1. KnownInv
    BY KnownInvInit
  <2>2. SpawnedByCreate /\ ConnectsToReader /\ ReportsOnce
    BY DEF Init, SpawnedByCreate, ConnectsToReader, ReportsOnce
  <2>3. SavesAfterReport /\ RunningMeansReported
    BY DEF Init, SavesAfterReport, RunningMeansReported, NoFile
  <2>4. FileInDir /\ OneWriter /\ CreateSaves
    BY DEF Init, FileInDir, OneWriter, CreateSaves, Creating, NoFile
  <2>5. ViewsOfDir /\ CreatedUntilStart
    BY ConstAssumption DEF Init, ViewsOfDir, CreatedUntilStart
  <2> QED
    BY <2>1, <2>2, <2>3, <2>4, <2>5 DEF RefineInv, OutcomeInv
<1>2. RefineInv /\ OutcomeInv' /\ [Next]_vars => RefineInv'
  <2> SUFFICES ASSUME RefineInv, OutcomeInv', [Next]_vars PROVE RefineInv'
    OBVIOUS
  <2>1. FileInDir' /\ OneWriter'
    BY FileInDirStep, OneWriterStep
  <2>2. CreateSaves' /\ ViewsOfDir'
    BY CreateSavesStep, ViewsOfDirStep
  <2>3. CreatedUntilStart'
    BY CreatedUntilStartStep
  <2> QED
    BY <2>1, <2>2, <2>3 DEF RefineInv
<1> QED
  BY <1>1, <1>2, OutcomeInvariant, PTL DEF Spec

-----------------------------------------------------------------------------
(* The refinement *)

Reported == IF dir = NoProc THEN FALSE ELSE msg[dir] = "success"

\* The status that the engine reads, by what state.json holds, before and after
\* a step.
LEMMA RecordedValues ==
    /\ file.status = "absent" => RecordedStatus = "none"
    /\ file.status \in Statuses => RecordedStatus = file.status
    /\ file.status = "torn" /\ open = {} => RecordedStatus = "lost"
    /\ \A p : file.status = "torn" /\ open = {p} =>
        /\ pc[p] = "write_running" => RecordedStatus = "created"
        /\ pc[p] = "write_created" => RecordedStatus = "creating"
        /\ pc[p] = "write_creating" => RecordedStatus = "none"
BY DEF RecordedStatus, Statuses

LEMMA RecordedNext ==
    /\ file'.status = "absent" => RecordedStatus' = "none"
    /\ file'.status \in Statuses => RecordedStatus' = file'.status
    /\ file'.status = "torn" /\ open' = {} => RecordedStatus' = "lost"
    /\ \A p : file'.status = "torn" /\ open' = {p} =>
        /\ pc'[p] = "write_running" => RecordedStatus' = "created"
        /\ pc'[p] = "write_created" => RecordedStatus' = "creating"
        /\ pc'[p] = "write_creating" => RecordedStatus' = "none"
BY DEF RecordedStatus, Statuses

\* The container process, by the progress of the reexec process, before and
\* after a step.
LEMMA ProcValues ==
    /\ dir = NoProc => ContainerProc = "none" /\ Reported = FALSE
    /\ dir # NoProc =>
        /\ Armed(dir) => ContainerProc = IF msg[dir] = "success" THEN "ready" ELSE "held"
        /\ ~Armed(dir) => ContainerProc = IF rx[dir] \in {"zombie", "dead"} THEN "gone" ELSE "none"
        /\ Reported = (msg[dir] = "success")
BY DEF ContainerProc, Reported

LEMMA ProcNext ==
    /\ dir' = NoProc => ContainerProc' = "none" /\ Reported' = FALSE
    /\ dir' # NoProc =>
        /\ Armed(dir)' => ContainerProc' = IF msg'[dir'] = "success" THEN "ready" ELSE "held"
        /\ ~Armed(dir)' => ContainerProc' = IF rx'[dir'] \in {"zombie", "dead"} THEN "gone" ELSE "none"
        /\ Reported' = (msg'[dir'] = "success")
BY DEF ContainerProc, Reported

\* A step that leaves the base directory alone leaves the recorded status.
LEMMA StatusStays ==
    ASSUME RefineInv, [Next]_vars, UNCHANGED diskVars
    PROVE  RecordedStatus' = RecordedStatus
<1>0. TypeOK /\ OneWriter
  BY DEF RefineInv, OutcomeInv, KnownInv
<1>1. ASSUME NEW q \in open PROVE pc'[q] = pc[q]
  <2>1. q \in Procs /\ pc[q] \in WritePcs
    BY <1>0, <1>1 DEF OneWriter, TypeOK
  <2>2. ~CliDies(q) /\ ~SaveWrite(q)
    BY <1>1 DEF diskVars, SaveWrite, CliDies
  <2>3. pc[q] # "idle" /\ ~CliStep(q)
    BY <1>0, <2>1, <2>2, WriterMoves DEF WritePcs
  <2> QED
    BY <1>0, <2>1, <2>2, <2>3, WhoMoves
<1>2. file' = file /\ open' = open
  BY DEF diskVars
<1> QED
  BY <1>1, <1>2 DEF RecordedStatus

\* A step that leaves the base directory and its process alone leaves the
\* container process.
LEMMA ProcStays ==
    ASSUME dir' = dir, rx' = rx, ack' = ack, msg' = msg
    PROVE  ContainerProc' = ContainerProc /\ Reported' = Reported
BY DEF ContainerProc, Reported, Armed

\* A step that the engine does not see.
Stutter ==
    /\ RecordedStatus' = RecordedStatus
    /\ ContainerProc' = ContainerProc
    /\ Reported' = Reported

\* delete removes the base directory of a process that is not released or gone.
LEMMA RemovalRefines ==
    ASSUME RefineInv, NEW p \in Procs, (DeleteGet(p) /\ Missing) \/ DeleteRemove(p),
           dir' = NoProc, file' = NoFile
    PROVE  OCI!Delete
<1>0. TypeOK /\ bundle = TRUE /\ LiveMonitorIsKnown /\ DeleteAfterStop
  BY DEF RefineInv, OutcomeInv, KnownInv
<1>1. \A c \in Procs : ~Armed(c)
  <2>1. CASE DeleteGet(p) /\ Missing
    BY <1>0, <2>1 DEF Missing, LiveMonitorIsKnown
  <2>2. CASE DeleteRemove(p)
    BY <1>0, <2>2 DEF DeleteRemove, DeleteAfterStop
  <2> QED
    BY <2>1, <2>2
<1>2. ContainerProc \in {"none", "gone"}
  BY <1>0, <1>1, ProcValues DEF TypeOK, OptProc
<1>3. RecordedStatus' = "none" /\ ContainerProc' = "none" /\ Reported' = FALSE
  BY RecordedNext, ProcNext DEF NoFile
<1> QED
  BY <1>2, <1>3 DEF OCI!Delete, Reported

\* A save happens when the data is written; the truncation before it does not
\* show, unless the writer is killed.
LEMMA SaveRefines ==
    ASSUME RefineInv, NEW p \in Procs, SaveOpen(p) \/ SaveWrite(p) \/ CliDies(p)
    PROVE  OCI!Create \/ OCI!Created \/ OCI!Run \/ OCI!Lose \/ Stutter
<1>0. TypeOK /\ OneWriter /\ CreateOwnsDir /\ CreateAlone
  BY DEF RefineInv, OutcomeInv, KnownInv
<1>1. ContainerProc' = ContainerProc /\ Reported' = Reported
  BY ProcStays DEF SaveOpen, SaveWrite, CliDies, rxVars, sockVars
<1>2. CASE SaveOpen(p)
  <2>0. open = {}
    BY <1>2, BeforeSave
  <2>1. file'.status = "torn" /\ open' = {p} /\ pc'[p] = AfterSave[pc[p]]
    BY <1>0, <1>2, <2>0 DEF SaveOpen, Goto, Torn, TypeOK
  <2>2. \/ pc[p] = "save_creating" /\ pc'[p] = "write_creating" /\ file.status = "absent"
        \/ pc[p] = "save_created" /\ pc'[p] = "write_created" /\ file.status = "creating"
        \/ pc[p] = "save_running" /\ pc'[p] = "write_running" /\ file.status = "created"
    BY <1>2, <2>1, BeforeSave DEF AfterSave, SavePcs, NoFile
  <2>3. RecordedStatus' = RecordedStatus
    BY <2>1, <2>2, RecordedValues, RecordedNext DEF Statuses
  <2> QED
    BY <1>1, <2>3 DEF Stutter
<1>3. CASE SaveWrite(p) /\ p \in open
  <2>0. /\ dir \in Procs /\ open = {p} /\ file.status = "torn"
        /\ \/ /\ cmd[p] = "create" /\ pc[p] = "write_creating" /\ dir = p
              /\ file' = [status |-> "creating", pid |-> NoProc]
           \/ /\ cmd[p] = "create" /\ pc[p] = "write_created" /\ dir = p
              /\ file' = [status |-> "created", pid |-> p]
           \/ /\ cmd[p] = "start" /\ pc[p] = "write_running" /\ msg[dir] = "success"
              /\ file' = [status |-> "running", pid |-> dir]
    BY <1>3, SaveWrites
  <2>1. CASE cmd[p] = "create" /\ pc[p] = "write_creating"
    <3>1. rx[dir] = "none" /\ msg[dir] = "none"
      BY <2>0, <2>1 DEF RefineInv, OutcomeInv, SpawnedByCreate, SpawnedPcs, EndPcs, ReportsOnce
    <3>2. ContainerProc = "none" /\ Reported = FALSE
      BY <2>0, <3>1, ProcValues, ConstAssumption DEF Armed, ArmedRx
    <3>3. RecordedStatus = "none" /\ RecordedStatus' = "creating"
      BY <2>0, <2>1, RecordedValues, RecordedNext DEF Statuses
    <3> QED
      BY <1>1, <3>2, <3>3 DEF OCI!Create, Reported
  <2>2. CASE cmd[p] = "create" /\ pc[p] = "write_created"
    <3>1. RecordedStatus = "creating" /\ RecordedStatus' = "created"
      BY <2>0, <2>2, RecordedValues, RecordedNext DEF Statuses
    <3> QED
      BY <1>1, <3>1 DEF OCI!Created, Reported
  <2>3. CASE cmd[p] = "start" /\ pc[p] = "write_running"
    <3>1. RecordedStatus = "created" /\ RecordedStatus' = "running"
      BY <2>0, <2>3, RecordedValues, RecordedNext DEF Statuses
    <3>2. Reported
      BY <2>0, <2>3, ProcValues, ConstAssumption
    <3> QED
      BY <1>1, <3>1, <3>2 DEF OCI!Run, Reported
  <2> QED
    BY <2>0, <2>1, <2>2, <2>3
<1>4. CASE CliDies(p) /\ p \in open
  <2>1. open = {p} /\ open' = {} /\ file.status = "torn" /\ file' = file /\ pc[p] \in WritePcs
    BY <1>0, <1>4 DEF CliDies, OneWriter
  <2>2. RecordedStatus # "lost" /\ RecordedStatus' = "lost"
    BY <2>1, RecordedValues, RecordedNext DEF WritePcs
  <2> QED
    BY <1>1, <2>2 DEF OCI!Lose, Reported
<1>5. CASE p \notin open /\ (SaveWrite(p) \/ CliDies(p))
  <2>0. file' = file /\ open' = open \ {p} /\ \A q \in Procs \ {p} : pc'[q] = pc[q]
    BY <1>0, <1>5 DEF SaveWrite, CliDies, Goto, TypeOK
  <2>1. file' = file /\ open' = open /\ \A q \in open : pc'[q] = pc[q]
    BY <1>0, <1>5, <2>0 DEF TypeOK
  <2>2. RecordedStatus' = RecordedStatus
    BY <2>1 DEF RecordedStatus
  <2> QED
    BY <1>1, <2>2 DEF Stutter
<1> QED
  BY <1>2, <1>3, <1>4, <1>5

\* A new base directory is empty and has no process yet.
LEMMA PrepareRefines ==
    ASSUME RefineInv, NEW p \in Procs, CreatePrepare(p)
    PROVE  Stutter
<1>0. TypeOK /\ CreateOwnsDir /\ SpawnedByCreate /\ ReportsOnce /\ FileInDir
  BY DEF RefineInv, OutcomeInv, KnownInv
<1>1. Creating(p) /\ pc[p] = "prepare"
  BY DEF CreatePrepare, Creating, InProgress, EndPcs
<1>2. dir = NoProc /\ file = NoFile /\ open = {} /\ rx[p] = "none" /\ msg[p] = "none"
  BY <1>0, <1>1 DEF CreateOwnsDir, FileInDir, SpawnedByCreate, SpawnedPcs, EndPcs, ReportsOnce
<1>3. dir' \in {NoProc, p} /\ UNCHANGED <<file, open, rx, ack, msg>>
  BY <1>2 DEF CreatePrepare, rxVars, sockVars
<1>4. RecordedStatus' = RecordedStatus
  BY <1>2, <1>3, RecordedValues, RecordedNext DEF NoFile
<1>5. ContainerProc = "none" /\ Reported = FALSE
  BY <1>2, ProcValues
<1>6. ContainerProc' = "none" /\ Reported' = FALSE
  BY <1>2, <1>3, ProcNext DEF Armed, ArmedRx
<1> QED
  BY <1>4, <1>5, <1>6 DEF Stutter

\* How the process of the base directory moves: it is released, it reports, it
\* exits, or the engine sees no change.
LEMMA ProcessMoves ==
    ASSUME RefineInv, [Next]_vars, NEW c \in Procs
    PROVE  \/ CreateAck(c) /\ ~Armed(c) /\ rx[c] \in AliveRx /\ Armed(c)' /\ msg'[c] = msg[c]
           \/ Armed(c) /\ Armed(c)' /\ msg[c] = "none" /\ msg'[c] = "success"
           \/ /\ rx[c] \notin {"zombie", "dead"} /\ rx'[c] \in {"zombie", "dead"} /\ ~Armed(c)'
              /\ (msg'[c] = "success" <=> msg[c] = "success")
           \/ /\ (Armed(c)' <=> Armed(c)) /\ msg'[c] = msg[c]
              /\ (rx'[c] \in {"zombie", "dead"} <=> rx[c] \in {"zombie", "dead"})
<1>0. TypeOK /\ AckedByCreate /\ ReportsOnce
  BY DEF RefineInv, OutcomeInv, KnownInv
<1> USE DEF TypeOK
<1>1. CASE RxExec(c)
  <2>1. rx[c] = "exec" /\ msg[c] = "none"
    BY <1>0, <1>1 DEF RxExec, ReportsOnce
  <2>2. \/ rx'[c] = "ready" /\ msg'[c] = "success"
        \/ rx'[c] = "zombie" /\ msg'[c] \in {"none", "error"}
    BY <1>0, <1>1, <2>1 DEF RxExec, RxGoto, RxExit
  <2> QED
    BY <2>1, <2>2 DEF Armed, ArmedRx
<1>2. CASE ~RxExec(c) /\ Armed(c)' /\ ~Armed(c)
  <2>1. CreateAck(c)
    BY <1>0, <1>2, ArmMoves
  <2>2. rx[c] \in AliveRx
    BY <1>0, <1>2, <2>1 DEF CreateAck, Armed
  <2>3. msg'[c] = msg[c]
    BY <1>0, <1>2, RxSpeaks
  <2> QED
    BY <1>2, <2>1, <2>2, <2>3
<1>3. CASE ~RxExec(c) /\ ~(Armed(c)' /\ ~Armed(c))
  <2>1. msg'[c] = msg[c]
    BY <1>0, <1>3, RxSpeaks
  <2>2. ASSUME rx[c] \in {"zombie", "dead"} PROVE rx'[c] \in {"zombie", "dead"}
    <3>1. ~RxStep(c)
      BY <2>2 DEF RxStep, RxBoot, RxAwaitAck, RxGet, RxListen, RxAwaitStart, RxUnlisten, RxConnect,
                  RxExec, RxExecMonitor
    <3>2. ~CreateSpawn(c)
      BY <1>0, <2>2 DEF RefineInv, OutcomeInv, SpawnedByCreate, SpawnedPcs, EndPcs, CreateSpawn
    <3> QED
      BY <1>0, <2>2, <3>1, <3>2, RxMoves
  <2>3. ASSUME Armed(c), ~Armed(c)' PROVE rx'[c] \in {"zombie", "dead"}
    <3>1. /\ rx[c] \in {"boot", "ack"} /\ ack[c] => ack'[c] \/ RxAwaitAck(c)
      <4>1. CASE \E p \in Procs : CreateAck(p) \/ RxAwaitAck(p)
        BY <1>0, <4>1 DEF CreateAck, RxAwaitAck
      <4>2. CASE ack' = ack
        BY <4>2
      <4> QED
        BY <4>1, <4>2, AckMoves
    <3>2. ~CreateSpawn(c)
      BY <1>0, <2>3 DEF AckedByCreate, EndPcs, CreateSpawn
    <3>3. ASSUME RxStep(c) PROVE rx'[c] \in {"zombie", "dead"}
      <4>1. CASE RxBoot(c)
        BY <1>0, <2>3, <4>1 DEF RxBoot, RxGoto, Armed, ArmedRx
      <4>2. CASE RxAwaitAck(c)
        BY <1>0, <2>3, <4>2 DEF RxAwaitAck, RxGoto, RxExit, Armed, ArmedRx
      <4>3. CASE RxStep(c) /\ ~RxBoot(c) /\ ~RxAwaitAck(c)
        BY <1>0, <2>3, <4>3 DEF RxStep, RxGet, RxListen, RxAwaitStart, RxUnlisten, RxConnect, RxExec,
                                RxExecMonitor, RxGoto, RxExit, Armed, ArmedRx
      <4> QED
        BY <3>3, <4>1, <4>2, <4>3
    <3>4. rx'[c] = rx[c] /\ ~RxStep(c) => FALSE
      BY <2>3, <3>1 DEF Armed, RxStep
    <3> QED
      BY <1>0, <2>3, <3>2, <3>3, <3>4, RxMoves DEF Armed, ArmedRx
  <2>4. rx'[c] \in {"zombie", "dead"} => ~Armed(c)'
    BY DEF Armed, ArmedRx
  <2>5. rx[c] \in {"zombie", "dead"} => ~Armed(c)
    BY DEF Armed, ArmedRx
  <2> QED
    BY <1>3, <2>1, <2>2, <2>3, <2>4, <2>5, Zenon
<1> QED
  BY <1>1, <1>2, <1>3

\* The steps that leave the base directory alone are those of its process.
LEMMA ProcessRefines ==
    ASSUME RefineInv, [Next]_vars, UNCHANGED diskVars
    PROVE  OCI!Release \/ OCI!Report \/ OCI!Exit \/ Stutter
<1>0. TypeOK /\ LiveMonitorIsKnown /\ ReportsOnce
  BY DEF RefineInv, OutcomeInv, KnownInv
<1>1. RecordedStatus' = RecordedStatus /\ dir' = dir
  BY StatusStays DEF diskVars
<1>2. CASE dir = NoProc
  BY <1>1, <1>2, ProcValues, ProcNext DEF Stutter
<1>3. CASE dir # NoProc
  <2>0. dir \in Procs
    BY <1>0, <1>3 DEF TypeOK, OptProc
  <2>1. PICK c \in Procs : dir = c /\ dir' = c /\ c # NoProc
    BY <1>1, <1>3, <2>0
  <2>2. /\ Armed(c) => ContainerProc = IF msg[c] = "success" THEN "ready" ELSE "held"
        /\ ~Armed(c) => ContainerProc = IF rx[c] \in {"zombie", "dead"} THEN "gone" ELSE "none"
        /\ Reported = (msg[c] = "success")
    BY <2>1, ProcValues
  <2>3. /\ Armed(c)' => ContainerProc' = IF msg'[c] = "success" THEN "ready" ELSE "held"
        /\ ~Armed(c)' => ContainerProc' = IF rx'[c] \in {"zombie", "dead"} THEN "gone" ELSE "none"
        /\ Reported' = (msg'[c] = "success")
    BY <2>1, ProcNext DEF Armed
  <2>4. CASE CreateAck(c) /\ ~Armed(c) /\ rx[c] \in AliveRx /\ Armed(c)' /\ msg'[c] = msg[c]
    <3>1. msg[c] = "none"
      BY <1>0, <2>4 DEF ReportsOnce, Armed, ArmedRx, TypeOK, AliveRx
    <3>2. Creating(c) /\ pc[c] = "ack"
      BY <2>4 DEF CreateAck, Creating, InProgress, EndPcs
    <3>3. RecordedStatus = "created"
      BY <3>2, RecordedValues DEF RefineInv, OutcomeInv, KnownInv, CreateOwnsDir, Statuses
    <3>4. ContainerProc = "none" /\ ContainerProc' = "held" /\ Reported' = Reported
      BY <2>2, <2>3, <2>4, <3>1 DEF AliveRx, ArmedRx
    <3> QED
      BY <1>1, <3>3, <3>4 DEF OCI!Release, Reported
  <2>5. CASE Armed(c) /\ Armed(c)' /\ msg[c] = "none" /\ msg'[c] = "success"
    <3>1. ContainerProc = "held" /\ ContainerProc' = "ready" /\ Reported' = TRUE
      BY <2>2, <2>3, <2>5
    <3> QED
      BY <1>1, <3>1 DEF OCI!Report, Reported
  <2>6. CASE /\ rx[c] \notin {"zombie", "dead"} /\ rx'[c] \in {"zombie", "dead"} /\ ~Armed(c)'
             /\ (msg'[c] = "success" <=> msg[c] = "success")
    <3>1. ContainerProc # "gone" /\ ContainerProc' = "gone" /\ Reported' = Reported
      BY <2>2, <2>3, <2>6
    <3> QED
      BY <1>1, <3>1 DEF OCI!Exit, Reported
  <2>7. CASE /\ (Armed(c)' <=> Armed(c)) /\ msg'[c] = msg[c]
             /\ (rx'[c] \in {"zombie", "dead"} <=> rx[c] \in {"zombie", "dead"})
    BY <1>1, <2>2, <2>3, <2>7 DEF Stutter
  <2> QED
    BY <2>4, <2>5, <2>6, <2>7, ProcessMoves
<1> QED
  BY <1>2, <1>3

\* Every step of the processes of create.go, start.go, kill.go, delete.go and of
\* the reexec process is a step of the OCI lifecycle, or one that the engine does
\* not see, for a caller that keeps create apart from the other commands.
THEOREM OCIRefinement ==
    ASSUME Contract PROVE Spec => ImplementsOCI
<1>1. Init => OCI!Init
  BY RecordedValues, ProcValues DEF Init, OCI!Init, NoFile
<1>2. RefineInv /\ [Next]_vars => [OCI!Next]_OCI!vars
  <2> SUFFICES ASSUME RefineInv, [Next]_vars PROVE [OCI!Next]_OCI!vars
    OBVIOUS
  <2>1. Stutter => UNCHANGED OCI!vars
    BY DEF Stutter, OCI!vars, Reported
  <2>2. ASSUME NEW p \in Procs, SaveOpen(p) \/ SaveWrite(p) \/ CliDies(p)
        PROVE  OCI!Next \/ Stutter
    BY <2>2, SaveRefines DEF OCI!Next
  <2>3. ASSUME NEW p \in Procs, CreatePrepare(p) PROVE Stutter
    BY <2>3, PrepareRefines
  <2>4. ASSUME NEW p \in Procs, (DeleteGet(p) /\ Missing) \/ DeleteRemove(p), dir' = NoProc, file' = NoFile
        PROVE  OCI!Next
    BY <2>4, RemovalRefines DEF OCI!Next
  <2>5. UNCHANGED diskVars => OCI!Next \/ Stutter
    BY ProcessRefines DEF OCI!Next
  <2> QED
    BY <2>1, <2>2, <2>3, <2>4, <2>5, DiskMoves
<1> QED
  BY <1>1, <1>2, RefineInvariant, PTL DEF Spec, ImplementsOCI, OCI!Spec

=============================================================================
