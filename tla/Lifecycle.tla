------------------------------- MODULE Lifecycle -------------------------------
(***************************************************************************)
(* The life of one container ID in urunc's native (reexec) mode.           *)
(*                                                                         *)
(* Every CLI invocation (create, start, kill, delete, delete --force) is a *)
(* separate operating-system process that meets the others only through    *)
(* the container's base directory: state.json, reexec.sock, urunc.sock.    *)
(* create also spawns the reexec process, which becomes the monitor.       *)
(*                                                                         *)
(* A member of Procs is one invocation; it runs one command.  The reexec   *)
(* process spawned by the create p, and its pid, are named p as well.      *)
(*                                                                         *)
(* A step that fails for a reason outside the model (a hook, an I/O error, *)
(* a monitor that cannot be built) is a nondeterministic choice.           *)
(***************************************************************************)
EXTENDS FiniteSets

CONSTANTS
    Procs,            \* CLI invocations
    NoProc,           \* "no process": pid -1, an unbound socket path
    Commands,         \* the commands that may be issued
    SerialCreate,     \* the caller runs no other command while a create runs
    BundleMayVanish,  \* the bundle's config.json may be removed under urunc
    Faults            \* processes may be killed from outside

AllCommands == {"create", "start", "kill", "delete", "forcedelete"}

ASSUME ConstAssumption ==
    /\ NoProc \notin Procs
    /\ Commands \subseteq AllCommands
    /\ SerialCreate \in BOOLEAN
    /\ BundleMayVanish \in BOOLEAN
    /\ Faults \in BOOLEAN

VARIABLES
    cmd,     \* the command an invocation runs
    pc,      \* where it is; "ok", "fail": it exited; "dead": it was killed
    view,    \* u.State: the container state it holds in memory
    bundle,  \* config.json is still in the bundle
    dir,     \* the base directory: the create that made it, or NoProc
    file,    \* state.json
    open,    \* invocations with the state.json of dir open for writing
    rx,      \* where the reexec process of a create is
    ack,     \* UC_ACK is in the init socket, unread
    rsock,   \* the reexec process whose listener is bound to reexec.sock
    usock,   \* the start whose listener is bound to urunc.sock
    dialed,  \* the reexec process whose listener queues a start's connection
    sent,    \* a start has written UC_START on that connection
    uconn,   \* the start a reexec process has connected to
    msg      \* the first message a reexec process wrote on that connection

cliVars  == <<cmd, pc, view>>
diskVars == <<dir, file, open>>
rxVars   == <<rx, ack>>
sockVars == <<rsock, usock, dialed, sent, uconn, msg>>
vars     == <<cliVars, bundle, diskVars, rxVars, sockVars>>

-----------------------------------------------------------------------------
(* Vocabulary *)

OptProc == Procs \cup {NoProc}

SavePcs  == {"save_creating", "save_created", "save_running"}
WritePcs == {"write_creating", "write_created", "write_running"}
EndPcs   == {"ok", "fail", "dead"}

CreatePcs == {"prepare", "save_creating", "write_creating", "spawn",
              "save_created", "write_created", "hooks", "ack", "drain_ok", "drain_fail"}
ListenPcs == {"dial", "send", "await", "save_running", "write_running", "poststart"}
StartPcs  == {"get", "listen"} \cup ListenPcs
KillPcs   == {"get", "signal"}
DeletePcs == {"get", "kill", "reap", "check", "release", "remove"}
Pcs       == {"idle"} \cup EndPcs \cup CreatePcs \cup StartPcs \cup KillPcs \cup DeletePcs

\* What loadUnikontainerState can find: no file, a truncated one, or a state.
Statuses == {"creating", "created", "running"}
States   == [status : {"absent", "torn"} \cup Statuses, pid : OptProc]
NoFile   == [status |-> "absent", pid |-> NoProc]
Torn     == [status |-> "torn", pid |-> NoProc]

\* Progress of the reexec process: its log pipe open; blocked on UC_ACK; loading the state and
\* running the CreateContainer hooks; about to listen; blocked on UC_START;
\* closing its listener, to go on or to give up; about to connect to the start;
\* setting up the monitor (Exec); RX_SUCCESS sent; the monitor itself; exited
\* but not reaped; gone.
ArmedRx == {"get", "listen", "await", "close", "quit", "conn", "exec", "ready", "monitor"}
AliveRx == {"boot", "ack"} \cup ArmedRx
RxPcs   == {"none", "zombie", "dead"} \cup AliveRx

Ended(p)      == pc[p] \in EndPcs
InProgress(p) == pc[p] \notin EndPcs \cup {"idle"}
Creating(p)   == cmd[p] = "create" /\ InProgress(p)
Listening(s)  == cmd[s] = "start" /\ pc[s] \in ListenPcs

\* urunc create has released the reexec process: nothing but a command that
\* finds it through state.json will stop it from now on.
Armed(c) == rx[c] \in ArmedRx \/ (rx[c] \in {"boot", "ack"} /\ ack[c])

Goto(p, to) == pc' = [pc EXCEPT ![p] = to]
RxGoto(c, to) == rx' = [rx EXCEPT ![c] = to]

-----------------------------------------------------------------------------
(* The state file *)

\* Get: state.json parses and the bundle still has its config.json.
Readable == file.status \in Statuses /\ bundle

\* Get fails with os.ErrNotExist: for a missing state.json, and for a missing
\* config.json as well, since loadSpec wraps the error.
Missing == file.status = "absent" \/ (file.status \in Statuses /\ ~bundle)

\* os.RemoveAll of the base directory.
RemoveBaseDir ==
    /\ dir' = NoProc
    /\ file' = NoFile
    /\ open' = {}
    /\ rsock' = NoProc
    /\ usock' = NoProc

\* Go unlinks a listener's path when the listener is closed, by name.
DestroyStartListener == usock' = NoProc

AfterSave == [pcx \in SavePcs |->
    CASE pcx = "save_creating" -> "write_creating"
      [] pcx = "save_created"  -> "write_created"
      [] pcx = "save_running"  -> "write_running"]

\* Mutant of Saved: start records a status that Get does not know.
SavedStopped == [pcx \in WritePcs |->
    CASE pcx = "write_creating" -> [status |-> "creating", next |-> "spawn"]
      [] pcx = "write_created"  -> [status |-> "created", next |-> "hooks"]
      [] pcx = "write_running"  -> [status |-> "started", next |-> "poststart"]]

Saved == [pcx \in WritePcs |->
    CASE pcx = "write_creating" -> [status |-> "creating", next |-> "spawn"]
      [] pcx = "write_created"  -> [status |-> "created", next |-> "hooks"]
      [] pcx = "write_running"  -> [status |-> "running", next |-> "poststart"]]

\* saveContainerState, first half: os.WriteFile opens the file and truncates it.
SaveOpen(p) ==
    /\ pc[p] \in SavePcs
    /\ dir # NoProc
    /\ file' = Torn
    /\ open' = open \cup {p}
    /\ Goto(p, AfterSave[pc[p]])
    /\ UNCHANGED <<cmd, view, bundle, dir, rxVars, sockVars>>

\* Anything up to the truncation fails: the base directory is gone, or an
\* earlier write of the same step (monitor resources, pid file) went wrong.
SaveFails(p) ==
    /\ pc[p] \in SavePcs
    /\ Goto(p, IF pc[p] = "save_created" THEN "drain_fail" ELSE "fail")
    /\ IF cmd[p] = "start" THEN DestroyStartListener ELSE UNCHANGED usock
    /\ UNCHANGED <<cmd, view, bundle, diskVars, rxVars, rsock, dialed, sent, uconn, msg>>

\* saveContainerState, second half: the data goes to the file that was opened,
\* which is no longer the container's if the base directory was removed.
SaveWrite(p) ==
    /\ pc[p] \in WritePcs
    /\ LET st == [status |-> Saved[pc[p]].status, pid |-> view[p].pid]
       IN  /\ file' = IF p \in open THEN st ELSE file
           /\ view' = [view EXCEPT ![p] = st]
    /\ open' = open \ {p}
    /\ Goto(p, Saved[pc[p]].next)
    /\ UNCHANGED <<cmd, bundle, dir, rxVars, sockVars>>

-----------------------------------------------------------------------------
(* urunc create *)

FirstPc == [c \in AllCommands |-> IF c = "create" THEN "prepare" ELSE "get"]

\* A caller issues a command.  Container names are unique on the host, so a
\* create is only issued for a name without a base directory.
Begin(p, c) ==
    /\ pc[p] = "idle"
    /\ c = "create" => dir = NoProc
    /\ SerialCreate => \A q \in Procs : IF c = "create" THEN ~InProgress(q) ELSE ~Creating(q)
    /\ cmd' = [cmd EXCEPT ![p] = c]
    /\ Goto(p, FirstPc[c])
    /\ UNCHANGED <<view, bundle, diskVars, rxVars, sockVars>>

\* New and InitialSetup up to the creation of the base directory.
CreatePrepare(p) ==
    /\ cmd[p] = "create" /\ pc[p] = "prepare"
    /\ \/ /\ Goto(p, "save_creating")
          /\ dir' = IF dir = NoProc THEN p ELSE dir
          /\ view' = [view EXCEPT ![p] = [status |-> "creating", pid |-> NoProc]]
       \/ Goto(p, "fail") /\ UNCHANGED <<dir, view>>
    /\ UNCHANGED <<cmd, bundle, file, open, rxVars, sockVars>>

\* Mutant of CreateSpawn: the pid that nsenter reports is not recorded.
CreateSpawnNoPid(p) ==
    /\ cmd[p] = "create" /\ pc[p] = "spawn"
    /\ Goto(p, "save_created") /\ RxGoto(p, "boot")
    /\ UNCHANGED <<cmd, view, bundle, diskVars, ack, sockVars>>

\* Start the reexec process and get its pid from nsenter.  A failure may leave
\* the process behind, blocked on the init socket until create exits.
CreateSpawn(p) ==
    /\ cmd[p] = "create" /\ pc[p] = "spawn"
    /\ \/ /\ Goto(p, "save_created")
          /\ RxGoto(p, "boot")
          /\ view' = [view EXCEPT ![p].pid = p]
       \/ /\ Goto(p, "fail")
          /\ \E r \in {"none", "boot"} : RxGoto(p, r)
          /\ UNCHANGED view
    /\ UNCHANGED <<cmd, bundle, diskVars, ack, sockVars>>

\* CreateRuntime hooks.
CreateHooks(p) ==
    /\ cmd[p] = "create" /\ pc[p] = "hooks"
    /\ \E to \in {"ack", "drain_fail"} : Goto(p, to)
    /\ UNCHANGED <<cmd, view, bundle, diskVars, rxVars, sockVars>>

\* Write UC_ACK on the init socket; it is broken once the reexec process died.
CreateAck(p) ==
    /\ cmd[p] = "create" /\ pc[p] = "ack"
    /\ \/ rx[p] \in AliveRx /\ ack' = [ack EXCEPT ![p] = TRUE] /\ Goto(p, "drain_ok")
       \/ rx[p] \notin AliveRx /\ UNCHANGED ack /\ Goto(p, "drain_fail")
    /\ UNCHANGED <<cmd, view, bundle, diskVars, rx, sockVars>>

\* Wait for the log forwarder, which ends when the reexec process closes its end
\* of the log pipe; the init socket is closed only after that.  An error of the
\* forwarder fails a create that has already released the process.
CreateDrain(p) ==
    /\ cmd[p] = "create" /\ pc[p] \in {"drain_ok", "drain_fail"}
    /\ rx[p] # "boot"
    /\ \/ Goto(p, "fail")
       \/ pc[p] = "drain_ok" /\ Goto(p, "ok")
    /\ UNCHANGED <<cmd, view, bundle, diskVars, rxVars, sockVars>>

-----------------------------------------------------------------------------
(* The reexec process *)

RxExit(c) == RxGoto(c, "zombie")

\* Mutant of RxBoot: UC_ACK is awaited before the log pipe is closed.
RxBootAfterAck(c) ==
    /\ rx[c] = "boot"
    /\ \/ ack[c] /\ RxGoto(c, "ack")
       \/ ~ack[c] /\ Ended(c) /\ RxExit(c)
    /\ UNCHANGED <<cliVars, bundle, diskVars, ack, sockVars>>

\* Close the log pipe, before anything that depends on create.
RxBoot(c) ==
    /\ rx[c] = "boot"
    /\ RxGoto(c, "ack")
    /\ UNCHANGED <<cliVars, bundle, diskVars, ack, sockVars>>

\* Mutant of RxAwaitAck: the end of file after create died is not noticed.
RxAwaitAckNoEOF(c) ==
    /\ rx[c] = "ack" /\ ack[c]
    /\ ack' = [ack EXCEPT ![c] = FALSE]
    /\ RxGoto(c, "get")
    /\ UNCHANGED <<cliVars, bundle, diskVars, sockVars>>

\* Read the init socket: UC_ACK, or end of file when create is gone.
RxAwaitAck(c) ==
    /\ rx[c] = "ack"
    /\ \/ ack[c] /\ ack' = [ack EXCEPT ![c] = FALSE] /\ RxGoto(c, "get")
       \/ ~ack[c] /\ Ended(c) /\ RxExit(c) /\ UNCHANGED ack
    /\ UNCHANGED <<cliVars, bundle, diskVars, sockVars>>

\* Load the state, then run the CreateContainer hooks.
RxGet(c) ==
    /\ rx[c] = "get"
    /\ \/ Readable /\ RxGoto(c, "listen")
       \/ RxExit(c)
    /\ UNCHANGED <<cliVars, bundle, diskVars, ack, sockVars>>

\* Listen on reexec.sock; EADDRINUSE when the path exists.
RxListen(c) ==
    /\ rx[c] = "listen"
    /\ \/ dir # NoProc /\ rsock = NoProc /\ rsock' = c /\ RxGoto(c, "await")
       \/ (dir = NoProc \/ rsock # NoProc) /\ UNCHANGED rsock /\ RxExit(c)
    /\ UNCHANGED <<cliVars, bundle, diskVars, ack, usock, dialed, sent, uconn, msg>>

\* Accept a connection and read it: UC_START, or end of file when the start
\* died before it wrote.
RxAwaitStart(c) ==
    /\ rx[c] = "await"
    /\ \E s \in Procs :
        /\ dialed[s] = c
        /\ dialed' = [dialed EXCEPT ![s] = NoProc]
        /\ \/ sent[s] /\ RxGoto(c, "close")
           \/ ~sent[s] /\ Ended(s) /\ RxGoto(c, "quit")
    /\ UNCHANGED <<cliVars, bundle, diskVars, ack, rsock, usock, sent, uconn, msg>>

\* Close the listener, which unlinks reexec.sock; give up if the wait failed.
RxUnlisten(c) ==
    /\ rx[c] \in {"close", "quit"}
    /\ rsock' = NoProc
    /\ IF rx[c] = "close" THEN RxGoto(c, "conn") ELSE RxExit(c)
    /\ UNCHANGED <<cliVars, bundle, diskVars, ack, usock, dialed, sent, uconn, msg>>

\* Connect to urunc.sock, where the start that sent UC_START listens.
RxConnect(c) ==
    /\ rx[c] = "conn"
    /\ LET up == usock # NoProc /\ Listening(usock)
       IN  \/ up /\ uconn' = [uconn EXCEPT ![c] = usock] /\ RxGoto(c, "exec")
           \/ ~up /\ RxExit(c) /\ UNCHANGED uconn
    /\ UNCHANGED <<cliVars, bundle, diskVars, ack, rsock, usock, dialed, sent, msg>>

\* Exec up to the report: RX_SUCCESS once the monitor's command is built,
\* RX_ERROR when a step before it fails.  Neither arrives at a dead start.
RxExec(c) ==
    /\ rx[c] = "exec"
    /\ LET peer == ~Ended(uconn[c])
       IN  \/ peer /\ msg' = [msg EXCEPT ![c] = "success"] /\ RxGoto(c, "ready")
           \/ peer /\ msg' = [msg EXCEPT ![c] = "error"] /\ RxExit(c)
           \/ ~peer /\ UNCHANGED msg /\ RxExit(c)
    /\ UNCHANGED <<cliVars, bundle, diskVars, ack, rsock, usock, dialed, sent, uconn>>

\* execMonitor: the monitor-specific PreExec step and the execve.  The RX_ERROR
\* that follows a failure comes second on the connection and is never read.
RxExecMonitor(c) ==
    /\ rx[c] = "ready"
    /\ RxGoto(c, "monitor") \/ RxExit(c)
    /\ UNCHANGED <<cliVars, bundle, diskVars, ack, sockVars>>

-----------------------------------------------------------------------------
(* urunc start *)

\* Mutant of Get: start of a running container is a success.
GetIdempotent(p) ==
    /\ cmd[p] \in {"start", "kill"} /\ pc[p] = "get"
    /\ \/ /\ Readable
          /\ view' = [view EXCEPT ![p] = file]
          /\ Goto(p, IF cmd[p] = "kill" THEN "signal"
                     ELSE IF file.status = "running" THEN "ok" ELSE "listen")
       \/ ~Readable /\ Goto(p, "fail") /\ UNCHANGED view
    /\ UNCHANGED <<cmd, bundle, diskVars, rxVars, sockVars>>

\* Get, for the commands that give up when it fails.
Get(p) ==
    /\ cmd[p] \in {"start", "kill"} /\ pc[p] = "get"
    /\ \/ /\ Readable
          /\ view' = [view EXCEPT ![p] = file]
          /\ Goto(p, IF cmd[p] = "start" THEN "listen" ELSE "signal")
       \/ ~Readable /\ Goto(p, "fail") /\ UNCHANGED view
    /\ UNCHANGED <<cmd, bundle, diskVars, rxVars, sockVars>>

\* Listen on urunc.sock.
StartListen(s) ==
    /\ cmd[s] = "start" /\ pc[s] = "listen"
    /\ \/ dir # NoProc /\ usock = NoProc /\ usock' = s /\ Goto(s, "dial")
       \/ (dir = NoProc \/ usock # NoProc) /\ UNCHANGED usock /\ Goto(s, "fail")
    /\ UNCHANGED <<cmd, view, bundle, diskVars, rxVars, rsock, dialed, sent, uconn, msg>>

\* Mutant of StartDial: the listener is kept when the connection is refused.
StartDialLeaks(s) ==
    /\ cmd[s] = "start" /\ pc[s] = "dial"
    /\ LET up == rsock # NoProc /\ rx[rsock] \in {"await", "close", "quit"}
       IN  \/ up /\ dialed' = [dialed EXCEPT ![s] = rsock] /\ Goto(s, "send")
           \/ ~up /\ Goto(s, "fail") /\ UNCHANGED dialed
    /\ UNCHANGED <<cmd, view, bundle, diskVars, rxVars, rsock, usock, sent, uconn, msg>>

\* Connect to reexec.sock.  There is no retry: the reexec process has to be
\* listening already.
StartDial(s) ==
    /\ cmd[s] = "start" /\ pc[s] = "dial"
    /\ LET up == rsock # NoProc /\ rx[rsock] \in {"await", "close", "quit"}
       IN  \/ /\ up
              /\ dialed' = [dialed EXCEPT ![s] = rsock]
              /\ Goto(s, "send")
              /\ UNCHANGED usock
           \/ ~up /\ Goto(s, "fail") /\ DestroyStartListener /\ UNCHANGED dialed
    /\ UNCHANGED <<cmd, view, bundle, diskVars, rxVars, rsock, sent, uconn, msg>>

\* Write UC_START and close the connection; it is broken once the listener that
\* queues it was closed.
StartSend(s) ==
    /\ cmd[s] = "start" /\ pc[s] = "send"
    /\ LET up == dialed[s] # NoProc /\ rx[dialed[s]] = "await"
       IN  \/ up /\ sent' = [sent EXCEPT ![s] = TRUE] /\ Goto(s, "await") /\ UNCHANGED usock
           \/ ~up /\ Goto(s, "fail") /\ DestroyStartListener /\ UNCHANGED sent
    /\ UNCHANGED <<cmd, view, bundle, diskVars, rxVars, rsock, dialed, uconn, msg>>

\* Mutant of StartAwait: any message is taken for RX_SUCCESS.
StartAwaitAny(s) ==
    /\ cmd[s] = "start" /\ pc[s] = "await"
    /\ \E r \in Procs : uconn[r] = s /\ msg[r] # "none"
    /\ Goto(s, "save_running")
    /\ UNCHANGED <<cmd, view, bundle, diskVars, rxVars, sockVars>>

\* Mutant of StartAwait: a reexec process that died without a message is waited
\* for.
StartAwaitNoEOF(s) ==
    /\ cmd[s] = "start" /\ pc[s] = "await"
    /\ \E r \in Procs :
        /\ uconn[r] = s
        /\ \/ msg[r] = "success" /\ Goto(s, "save_running") /\ UNCHANGED usock
           \/ msg[r] = "error" /\ Goto(s, "fail") /\ DestroyStartListener
    /\ UNCHANGED <<cmd, view, bundle, diskVars, rxVars, rsock, dialed, sent, uconn, msg>>

\* Mutant of StartAwait: the listener is kept when the start failed.
StartAwaitLeaks(s) ==
    /\ cmd[s] = "start" /\ pc[s] = "await"
    /\ \E r \in Procs :
        /\ uconn[r] = s
        /\ \/ msg[r] = "success" /\ Goto(s, "save_running")
           \/ msg[r] # "success" /\ (msg[r] = "error" \/ rx[r] \notin AliveRx) /\ Goto(s, "fail")
    /\ UNCHANGED <<cmd, view, bundle, diskVars, rxVars, sockVars>>

\* Accept a connection on urunc.sock and read the outcome: end of file when the
\* reexec process died without a message.
StartAwait(s) ==
    /\ cmd[s] = "start" /\ pc[s] = "await"
    /\ \E r \in Procs :
        /\ uconn[r] = s
        /\ \/ msg[r] = "success" /\ Goto(s, "save_running") /\ UNCHANGED usock
           \/ /\ msg[r] = "error" \/ (msg[r] = "none" /\ rx[r] \notin AliveRx)
              /\ Goto(s, "fail")
              /\ DestroyStartListener
    /\ UNCHANGED <<cmd, view, bundle, diskVars, rxVars, rsock, dialed, sent, uconn, msg>>

\* Poststart hooks, whose failure fails the start of a running container; in
\* both cases the listener goes.
StartPoststart(s) ==
    /\ cmd[s] = "start" /\ pc[s] = "poststart"
    /\ \E to \in {"ok", "fail"} : Goto(s, to)
    /\ DestroyStartListener
    /\ UNCHANGED <<cmd, view, bundle, diskVars, rxVars, rsock, dialed, sent, uconn, msg>>

-----------------------------------------------------------------------------
(* urunc kill *)

\* The pids that kill(2) finds: a process that exited counts until it is reaped.
Probed == {q \in Procs : rx[q] \notin {"none", "dead"}}

\* Signal: nothing to do without a pid; an error when the process or the
\* monitor's binary is gone.  Not every signal ends the process, and Firecracker's
\* Signal may end it and still fail, after waiting two seconds for it to go.
KillSignal(k) ==
    /\ cmd[k] = "kill" /\ pc[k] = "signal"
    /\ LET pid == view[k].pid
       IN  \/ pid = NoProc /\ Goto(k, "ok") /\ UNCHANGED rx
           \/ pid # NoProc /\ Goto(k, "fail") /\ UNCHANGED rx
           \/ pid \in Probed /\ Goto(k, "ok") /\ UNCHANGED rx
           \/ pid \in Probed /\ RxExit(pid) /\ \E to \in {"ok", "fail"} : Goto(k, to)
    /\ UNCHANGED <<cmd, view, bundle, diskVars, ack, sockVars>>

-----------------------------------------------------------------------------
(* urunc delete, with and without --force *)

Deleting(d) == cmd[d] \in {"delete", "forcedelete"}

\* Get.  For a container that does not exist the directory is removed all the
\* same, and --force calls that a success.
DeleteGet(d) ==
    /\ Deleting(d) /\ pc[d] = "get"
    /\ \/ /\ Readable
          /\ view' = [view EXCEPT ![d] = file]
          /\ Goto(d, IF cmd[d] = "forcedelete" THEN "kill" ELSE "check")
          /\ UNCHANGED <<diskVars, rsock, usock>>
       \/ /\ Missing
          /\ RemoveBaseDir
          /\ Goto(d, IF cmd[d] = "forcedelete" THEN "ok" ELSE "fail")
          /\ UNCHANGED view
       \/ /\ ~Readable /\ ~Missing
          /\ Goto(d, "fail")
          /\ UNCHANGED <<view, diskVars, rsock, usock>>
    /\ UNCHANGED <<cmd, bundle, rxVars, dialed, sent, uconn, msg>>

\* Kill: SIGKILL, unless there is no process to send it to; an error when the
\* monitor's binary is gone.
DeleteKill(d) ==
    /\ Deleting(d) /\ pc[d] = "kill"
    /\ LET pid == view[d].pid
       IN  \/ pid \notin Probed /\ Goto(d, "check") /\ UNCHANGED rx
           \/ pid # NoProc /\ Goto(d, "fail") /\ UNCHANGED rx
           \/ pid \in Probed /\ Goto(d, "reap") /\ RxExit(pid)
    /\ UNCHANGED <<cmd, view, bundle, diskVars, ack, sockVars>>

\* Poll until the process is gone, or give up after two seconds.
DeleteReap(d) ==
    /\ Deleting(d) /\ pc[d] = "reap"
    /\ Goto(d, IF view[d].pid \in Probed THEN "fail" ELSE "check")
    /\ UNCHANGED <<cmd, view, bundle, diskVars, rxVars, sockVars>>

\* Mutant of isRunning: the recorded status is believed.
isRunningByStatus(d) == view[d].status = "running" /\ view[d].pid \in Probed

\* isRunning: probe the pid with signal 0, if there is one.
isRunning(d) == view[d].pid \in Probed

DeleteCheck(d) ==
    /\ Deleting(d) /\ pc[d] = "check"
    /\ Goto(d, IF isRunning(d) THEN "fail" ELSE "release")
    /\ UNCHANGED <<cmd, view, bundle, diskVars, rxVars, sockVars>>

\* Release the network, the block volumes and the monitor's rootfs.
DeleteRelease(d) ==
    /\ Deleting(d) /\ pc[d] = "release"
    /\ \E to \in {"remove", "fail"} : Goto(d, to)
    /\ UNCHANGED <<cmd, view, bundle, diskVars, rxVars, sockVars>>

\* Mutant of DeleteRemove: only state.json is removed.
DeleteRemoveStateOnly(d) ==
    /\ Deleting(d) /\ pc[d] = "remove"
    /\ file' = NoFile /\ open' = {}
    /\ Goto(d, "ok")
    /\ UNCHANGED <<cmd, view, bundle, dir, rxVars, sockVars>>

\* Remove the base directory.  Poststop hooks cannot fail the command.
DeleteRemove(d) ==
    /\ Deleting(d) /\ pc[d] = "remove"
    /\ RemoveBaseDir
    /\ Goto(d, "ok")
    /\ UNCHANGED <<cmd, view, bundle, rxVars, dialed, sent, uconn, msg>>

-----------------------------------------------------------------------------
(* The environment *)

\* The init process the reexec process was reparented to reaps it.
Reap(c) ==
    /\ rx[c] = "zombie"
    /\ RxGoto(c, "dead")
    /\ UNCHANGED <<cliVars, bundle, diskVars, ack, sockVars>>

\* A CLI process is killed: the caller's timeout, the OOM killer.
CliDies(p) ==
    /\ Faults
    /\ InProgress(p)
    /\ Goto(p, "dead")
    /\ open' = open \ {p}
    /\ UNCHANGED <<cmd, view, bundle, dir, file, rxVars, sockVars>>

\* The reexec process or the monitor dies; a monitor also exits with its guest.
RxDies(c) ==
    /\ Faults
    /\ rx[c] \in AliveRx
    /\ RxExit(c)
    /\ UNCHANGED <<cliVars, bundle, diskVars, ack, sockVars>>

BundleVanishes ==
    /\ BundleMayVanish
    /\ bundle
    /\ bundle' = FALSE
    /\ UNCHANGED <<cliVars, diskVars, rxVars, sockVars>>

-----------------------------------------------------------------------------
Init ==
    /\ cmd    = [p \in Procs |-> "none"]
    /\ pc     = [p \in Procs |-> "idle"]
    /\ view   = [p \in Procs |-> NoFile]
    /\ bundle = TRUE
    /\ dir    = NoProc
    /\ file   = NoFile
    /\ open   = {}
    /\ rx     = [p \in Procs |-> "none"]
    /\ ack    = [p \in Procs |-> FALSE]
    /\ rsock  = NoProc
    /\ usock  = NoProc
    /\ dialed = [p \in Procs |-> NoProc]
    /\ sent   = [p \in Procs |-> FALSE]
    /\ uconn  = [p \in Procs |-> NoProc]
    /\ msg    = [p \in Procs |-> "none"]

SaveStep(p)   == SaveOpen(p) \/ SaveFails(p) \/ SaveWrite(p)
CreateStep(p) == CreatePrepare(p) \/ CreateSpawn(p) \/ CreateHooks(p) \/ CreateAck(p)
                    \/ CreateDrain(p)
StartStep(p)  == StartListen(p) \/ StartDial(p) \/ StartSend(p) \/ StartAwait(p)
                    \/ StartPoststart(p)
DeleteStep(p) == DeleteGet(p) \/ DeleteKill(p) \/ DeleteReap(p) \/ DeleteCheck(p)
                    \/ DeleteRelease(p) \/ DeleteRemove(p)
CliStep(p)    == SaveStep(p) \/ CreateStep(p) \/ Get(p) \/ StartStep(p) \/ KillSignal(p)
                    \/ DeleteStep(p)

RxStep(c) == RxBoot(c) \/ RxAwaitAck(c) \/ RxGet(c) \/ RxListen(c) \/ RxAwaitStart(c) \/ RxUnlisten(c)
                \/ RxConnect(c) \/ RxExec(c) \/ RxExecMonitor(c)

Next ==
    \/ \E p \in Procs :
        \/ \E c \in Commands : Begin(p, c)
        \/ CliStep(p)
        \/ RxStep(p)
        \/ Reap(p)
        \/ CliDies(p)
        \/ RxDies(p)
    \/ BundleVanishes

Spec == Init /\ [][Next]_vars

\* Processes that can run do run, and exited processes are reaped.  Commands
\* need not be issued and nothing need fail.
Fairness == \A p \in Procs : WF_vars(CliStep(p)) /\ WF_vars(RxStep(p)) /\ WF_vars(Reap(p))

FairSpec == Spec /\ Fairness

-----------------------------------------------------------------------------
(* Properties *)

\* Types of the variables of the model of create.go, start.go, kill.go,
\* delete.go and unikontainers.go.
TypeOK ==
    /\ cmd \in [Procs -> {"none"} \cup AllCommands]
    /\ pc \in [Procs -> Pcs]
    /\ view \in [Procs -> States]
    /\ bundle \in BOOLEAN
    /\ dir \in OptProc
    /\ file \in States
    /\ open \in SUBSET Procs
    /\ rx \in [Procs -> RxPcs]
    /\ ack \in [Procs -> BOOLEAN]
    /\ rsock \in OptProc
    /\ usock \in OptProc
    /\ dialed \in [Procs -> OptProc]
    /\ sent \in [Procs -> BOOLEAN]
    /\ uconn \in [Procs -> OptProc]
    /\ msg \in [Procs -> {"none", "success", "error"}]

\* A reexec process or monitor that urunc create has released can always be
\* found by kill and delete: the base directory is the one its create made and,
\* unless a writer has state.json truncated, the pid in it is that process.
LiveMonitorIsKnown ==
    \A c \in Procs : Armed(c) =>
        /\ dir = c
        /\ file.status = "torn" \/ (file.status \in {"created", "running"} /\ file.pid = c)

\* Delete releases the resources of a stopped container: no step removes the
\* base directory while a released reexec process or a monitor is alive.
DeleteOnlyStopped ==
    [][dir # NoProc /\ dir' = NoProc => \A c \in Procs : ~Armed(c)]_vars

\* What delete.go says of --force, that it forcibly deletes the container if it
\* is still running: when state.json says so and no other command is under way,
\* a forced delete that returns success has left no monitor running.
ForcedDeleteKills ==
    [][\A d \in Procs :
          /\ cmd[d] = "forcedelete" /\ pc[d] # "ok" /\ pc'[d] = "ok"
          /\ file.status = "running" /\ \A q \in Procs \ {d} : ~InProgress(q)
          => \A c \in Procs : rx'[c] # "monitor"]_vars

\* state.json says "running" only for a container whose own reexec process
\* reported RX_SUCCESS, whichever start wrote it and whoever was restarted.
RunningMeansReported ==
    file.status = "running" => file.pid # NoProc /\ msg[file.pid] = "success"

\* A start that fails can be retried: urunc.sock is bound by a start that still
\* runs, or was left behind by one that was killed, never by one that returned.
NoStaleStartSocket ==
    usock # NoProc => Listening(usock) \/ pc[usock] = "dead"

\* A container is started at most once: of all the starts that ever found the
\* same monitor pid, no two return success.
StartedOnce ==
    \A s, t \in Procs :
        (/\ cmd[s] = "start" /\ pc[s] = "ok"
         /\ cmd[t] = "start" /\ pc[t] = "ok"
         /\ view[s].pid = view[t].pid) => s = t

\* create and the reexec process never wait for each other: one waits for the
\* log pipe to be closed, the other for UC_ACK or the end of the init socket.
CreateReturns == \A p \in Procs : Creating(p) ~> Ended(p)

\* A start that waits for the outcome returns, unless the reexec process died
\* between UC_START and its connection to urunc.sock: AcceptUnix has no
\* deadline, and then nobody ever connects.
StartReturns ==
    \A s \in Procs : pc[s] = "await" ~>
        \/ Ended(s)
        \/ \E r \in Procs : view[s].pid = r /\ rx[r] = "dead" /\ uconn[r] # s

\* A reexec process that its create did not release, or whose container was
\* deleted, does not stay behind.
OrphansExit ==
    \A c \in Procs : rx[c] \in AliveRx /\ (dir # c \/ (Ended(c) /\ ~Armed(c)))
        ~> rx[c] \notin AliveRx

\* The engine's view of the container: a save in progress has not happened yet,
\* and a file that stays truncated is lost.
RecordedStatus ==
    CASE file.status = "absent" -> "none"
      [] file.status \in Statuses -> file.status
      [] file.status = "torn" ->
            IF open = {} THEN "lost"
            ELSE CASE \E p \in open : pc[p] = "write_running" -> "created"
                   [] \E p \in open : pc[p] = "write_created" -> "creating"
                   [] OTHER -> "none"

ContainerProc ==
    CASE dir = NoProc -> "none"
      [] dir # NoProc /\ Armed(dir) -> IF msg[dir] = "success" THEN "ready" ELSE "held"
      [] dir # NoProc /\ ~Armed(dir) -> IF rx[dir] \in {"zombie", "dead"} THEN "gone" ELSE "none"

OCI == INSTANCE OCIContainer WITH
    status   <- RecordedStatus,
    proc     <- ContainerProc,
    reported <- IF dir = NoProc THEN FALSE ELSE msg[dir] = "success"

\* The processes of create.go, start.go, kill.go and delete.go together keep the
\* promises of OCIContainer to the engine.
ImplementsOCI == OCI!Spec
=============================================================================
