------------------------------ MODULE MonitorInit ------------------------------
(***************************************************************************)
(* The libcontainer mode of urunc, for one container ID.  create has       *)
(* libcontainer spawn an init process that blocks on libcontainer's exec   *)
(* fifo and inherits the ready FIFO; start opens the ready FIFO, releases  *)
(* the init process and reads one byte: init has by then become "urunc     *)
(* monitor", which finishes the setup, reports and becomes the monitor.    *)
(*                                                                         *)
(* Every invocation of urunc is a process in Procs that runs one command;  *)
(* the init process of a create is named after it.  state.json is saved in *)
(* two steps: it is truncated, then written.                               *)
(***************************************************************************)
EXTENDS Naturals

CONSTANTS
    Procs, NoProc,
    Commands,  \* those that callers issue
    Errors,    \* calls may fail
    Crashes    \* processes may be killed at any point

AllCommands == {"create", "start", "kill", "delete", "forcedelete"}

ASSUME MonitorInitAssumption ==
    /\ NoProc \notin Procs
    /\ Commands \subseteq AllCommands
    /\ Errors \in BOOLEAN
    /\ Crashes \in BOOLEAN

VARIABLES
    cmd, pc,   \* the command of a process and where it is
    view,      \* u.State in memory
    dir,       \* the base directory exists
    state,     \* state.json
    lc,        \* libcontainer's directory of the container, by its create
    fifo,      \* urunc-ready.fifo in the base directory, by its create
    rd,        \* the ready FIFO that a start has open
    buf,       \* what is in a ready FIFO
    mon,       \* the init process of a create
    cloexec,   \* its ReadyPipeFD is closed on exec
    helper,    \* its PreStartCmd runs and has the write end
    said       \* history: what it has reported

cliVars  == <<cmd, view>>
diskVars == <<dir, state, lc>>
monVars  == <<mon, cloexec, helper, said>>
vars     == <<cliVars, pc, diskVars, fifo, rd, buf, monVars>>

OptProc == Procs \cup {NoProc}
NoState == [status |-> "absent", pid |-> NoProc]
Torn    == [status |-> "torn", pid |-> NoProc]
States  == [status : {"absent", "torn", "creating", "created", "running"}, pid : OptProc]

CreatePcs == {"prepare", "opencreating", "savecreating", "lccreate", "pipe", "spawn",
              "opencreated", "save", "killinit", "lcdestroy"}
StartPcs  == {"open", "exec", "await", "openrunning", "saverunning", "poststart", "closeok",
              "closefail"}
DeletePcs == {"kill", "reap", "check", "destroy", "remove"}
EndPcs    == {"ok", "fail", "dead"}
Pcs       == {"idle", "get", "signal"} \cup CreatePcs \cup StartPcs \cup DeletePcs \cup EndPcs

\* An init process from its clone to its end: blocked on the exec fifo, released,
\* urunc monitor in runMonitor, reported, the monitor proper; or on its way out.
SetupMons == {"boot", "setup", "prestart", "build"}
AliveMons == {"blocked", "ready", "monitor", "failed"} \cup SetupMons
Mons      == {"none", "zombie", "dead"} \cup AliveMons

\* What is behind a pid.
Process(c) == IF c = NoProc THEN "none" ELSE mon[c]

Alive(c)  == mon[c] \in AliveMons
Active(p) == pc[p] \notin {"idle"} \cup EndPcs
Ended(p)  == pc[p] \in EndPcs

Goto(p, to)   == pc' = [pc EXCEPT ![p] = to]
MonGoto(c, to) == mon' = [mon EXCEPT ![c] = to]

\* Who has the FIFO open for writing: create until it returns, the init process
\* until it reports or ends, and a child that inherited it.
Writer(c) ==
    \/ pc[c] \in {"spawn", "opencreated", "save", "killinit"}
    \/ mon[c] \in {"blocked"} \cup SetupMons
    \/ helper[c]

\* What a start finds in the FIFO: one that nobody has open has lost its contents.
Found(c) == IF Writer(c) \/ \E s \in Procs : rd[s] = c THEN buf[c] ELSE "empty"

-----------------------------------------------------------------------------
(* Callers *)

\* An engine issues the commands of one container one at a time around a create,
\* and creates only a container that does not exist.
Begin(p, c) ==
    /\ pc[p] = "idle"
    /\ \A q \in Procs : Active(q) => cmd[q] # "create" /\ c # "create"
    /\ c = "create" => ~dir
    /\ cmd' = [cmd EXCEPT ![p] = c]
    /\ Goto(p, IF c = "create" THEN "prepare" ELSE "get")
    /\ UNCHANGED <<view, diskVars, fifo, rd, buf, monVars>>

-----------------------------------------------------------------------------
(* saveContainerState *)

AfterOpen == [pcx \in {"opencreating", "opencreated", "openrunning"} |->
    CASE pcx = "opencreating" -> "savecreating"
      [] pcx = "opencreated"  -> "save"
      [] pcx = "openrunning"  -> "saverunning"]

\* Mutant of Unsaved: the init process is not killed when the pid cannot be saved.
UnsavedLeaks(p) ==
    CASE pc[p] \in {"opencreating", "savecreating"} -> "fail"
      [] pc[p] \in {"opencreated", "save"}          -> "lcdestroy"
      [] pc[p] \in {"openrunning", "saverunning"}   -> "closefail"

\* Where the error of a save leads.
Unsaved(p) ==
    CASE pc[p] \in {"opencreating", "savecreating"} -> "fail"
      [] pc[p] \in {"opencreated", "save"}          -> "killinit"
      [] pc[p] \in {"openrunning", "saverunning"}   -> "closefail"

\* First half: os.WriteFile opens state.json and truncates it.
SaveOpen(p) ==
    /\ pc[p] \in DOMAIN AfterOpen
    /\ \/ dir /\ state' = Torn /\ Goto(p, AfterOpen[pc[p]])
       \/ (~dir \/ Errors) /\ UNCHANGED state /\ Goto(p, Unsaved(p))
    /\ UNCHANGED <<cliVars, dir, lc, fifo, rd, buf, monVars>>

\* Second half: the data goes to the file that was opened, which is gone if the
\* base directory was removed meanwhile (a create never makes a new one while
\* another command runs).  An error leaves the file truncated.
SaveWrite(p, status, pid, to) ==
    /\ \/ state' = (IF dir THEN [status |-> status, pid |-> pid] ELSE state) /\ Goto(p, to)
       \/ Errors /\ UNCHANGED state /\ Goto(p, Unsaved(p))
    /\ UNCHANGED <<cliVars, dir, lc, fifo, rd, buf, monVars>>

-----------------------------------------------------------------------------
(* urunc create *)

\* newUnikontainer, and InitialSetup up to the save of state.json: an error may
\* come before or after the base directory is made.
CreatePrepare(c) ==
    /\ pc[c] = "prepare"
    /\ \/ dir' = TRUE /\ Goto(c, "opencreating")
       \/ Errors /\ dir' \in BOOLEAN /\ Goto(c, "fail")
    /\ UNCHANGED <<cliVars, state, lc, fifo, rd, buf, monVars>>

\* InitialSetup: there is no pid yet.
InitialSave(c) == pc[c] = "savecreating" /\ SaveWrite(c, "creating", NoProc, "lccreate")

\* BuildContainerConfig and libcontainer.Create, which refuses an ID in use.
LcCreate(c) ==
    /\ pc[c] = "lccreate"
    /\ \/ lc = NoProc /\ lc' = c /\ Goto(c, "pipe")
       \/ (lc # NoProc \/ Errors) /\ UNCHANGED lc /\ Goto(c, "fail")
    /\ UNCHANGED <<cliVars, dir, state, fifo, rd, buf, monVars>>

\* CreateReadyPipe: a stale FIFO is removed first.
CreateReadyPipe(c) ==
    /\ pc[c] = "pipe"
    /\ \/ fifo' = c /\ Goto(c, "spawn")
       \/ Errors /\ fifo' \in {NoProc, fifo} /\ Goto(c, "lcdestroy")
    /\ UNCHANGED <<cliVars, diskVars, rd, buf, monVars>>

\* container.Start: libcontainer leaves no process behind when it fails.
CreateSpawn(c) ==
    /\ pc[c] = "spawn"
    /\ \/ MonGoto(c, "blocked") /\ Goto(c, "opencreated")
       \/ Errors /\ UNCHANGED mon /\ Goto(c, "lcdestroy")
    /\ UNCHANGED <<cliVars, diskVars, fifo, rd, buf, cloexec, helper, said>>

\* Unikontainer.Create: the pid goes to state.json.
CreateSave(c) == pc[c] = "save" /\ SaveWrite(c, "created", c, "ok")

\* The deferred kill and wait, and the close of the FIFO.
CreateKillInit(c) ==
    /\ pc[c] = "killinit"
    /\ MonGoto(c, "dead")
    /\ Goto(c, "lcdestroy")
    /\ UNCHANGED <<cliVars, diskVars, fifo, rd, buf, cloexec, helper, said>>

\* The deferred Destroy, whose error is only logged.
CreateDestroy(c) ==
    /\ pc[c] = "lcdestroy"
    /\ \/ lc' = NoProc
       \/ Errors /\ UNCHANGED lc
    /\ Goto(c, "fail")
    /\ UNCHANGED <<cliVars, dir, state, fifo, rd, buf, monVars>>

-----------------------------------------------------------------------------
(* urunc monitor *)

\* signalReady(false): then the process leaves with an error.
MonFails(c) ==
    /\ MonGoto(c, "failed")
    /\ said' = [said EXCEPT ![c] = "err"]
    /\ buf' = [buf EXCEPT ![c] = "err"]

\* Mutant of MonBoot: ReadyPipeFD stays inheritable.
MonBootInherits(c) ==
    /\ mon[c] = "boot"
    /\ MonGoto(c, "setup")
    /\ UNCHANGED <<cliVars, pc, diskVars, fifo, rd, buf, cloexec, helper, said>>

\* libcontainer's init execve's urunc monitor, unless a hook or the execve fails;
\* ExecMonitor first marks ReadyPipeFD close-on-exec.
MonBoot(c) ==
    /\ mon[c] = "boot"
    /\ \/ MonGoto(c, "setup") /\ cloexec' = [cloexec EXCEPT ![c] = TRUE]
       \/ Errors /\ MonGoto(c, "zombie") /\ UNCHANGED cloexec
    /\ UNCHANGED <<cliVars, pc, diskVars, fifo, rd, buf, helper, said>>

\* The monitor spec, the network, the guest's command line, the user.
MonSetup(c) ==
    /\ mon[c] = "setup"
    /\ \/ MonGoto(c, "prestart") /\ UNCHANGED <<buf, said>>
       \/ Errors /\ MonFails(c)
    /\ UNCHANGED <<cliVars, pc, diskVars, fifo, rd, cloexec, helper>>

\* PreStartCmd (virtiofsd), a child that outlives this process, if there is one.
MonPreStart(c) ==
    /\ mon[c] = "prestart"
    /\ \/ /\ MonGoto(c, "build")
          /\ helper' \in {helper, [helper EXCEPT ![c] = ~cloexec[c]]}
          /\ UNCHANGED <<buf, said>>
       \/ Errors /\ MonFails(c) /\ UNCHANGED helper
    /\ UNCHANGED <<cliVars, pc, diskVars, fifo, rd, cloexec>>

\* Mutant of MonReport: the pipe is closed before the byte is written.
MonReportClosed(c) ==
    /\ mon[c] = "build"
    /\ MonGoto(c, "ready")
    /\ said' = [said EXCEPT ![c] = "ok"]
    /\ UNCHANGED <<cliVars, pc, diskVars, fifo, rd, buf, cloexec, helper>>

\* BuildExecCmd and signalReady(true), which also closes the pipe.
MonReport(c) ==
    /\ mon[c] = "build"
    /\ \/ /\ MonGoto(c, "ready")
          /\ said' = [said EXCEPT ![c] = "ok"]
          /\ buf' = [buf EXCEPT ![c] = "ok"]
       \/ Errors /\ MonFails(c)
    /\ UNCHANGED <<cliVars, pc, diskVars, fifo, rd, cloexec, helper>>

\* execMonitor; when it fails ReadyPipeFD is closed already and nothing is said.
MonExec(c) ==
    /\ mon[c] = "ready"
    /\ \/ MonGoto(c, "monitor")
       \/ Errors /\ MonGoto(c, "zombie")
    /\ UNCHANGED <<cliVars, pc, diskVars, fifo, rd, buf, cloexec, helper, said>>

MonExit(c) ==
    /\ mon[c] = "failed"
    /\ MonGoto(c, "zombie")
    /\ UNCHANGED <<cliVars, pc, diskVars, fifo, rd, buf, cloexec, helper, said>>

-----------------------------------------------------------------------------
(* urunc start *)

\* What a command does with the container: only delete --force kills first.
AfterGet(c) ==
    IF c = "start" THEN "open" ELSE IF c = "kill" THEN "signal"
    ELSE IF c = "delete" THEN "check" ELSE "kill"

\* Get, for start, kill and delete: any state that can be read will do.  Only a
\* missing file counts as a missing container; a truncated one fails every command.
Get(p) ==
    /\ pc[p] = "get"
    /\ \/ /\ state.status \notin {"absent", "torn"}
          /\ view' = [view EXCEPT ![p] = state]
          /\ Goto(p, AfterGet(cmd[p]))
          /\ UNCHANGED <<dir, fifo>>
       \/ /\ state.status = "torn" \/ (state.status = "absent" /\ cmd[p] \in {"start", "kill"})
          /\ Goto(p, "fail")
          /\ UNCHANGED <<view, dir, fifo>>
       \/ /\ state.status = "absent" /\ cmd[p] \in {"delete", "forcedelete"}
          /\ dir' = FALSE /\ fifo' = NoProc
          /\ Goto(p, IF cmd[p] = "delete" THEN "fail" ELSE "ok")
          /\ UNCHANGED view
    /\ UNCHANGED <<cmd, state, lc, rd, buf, monVars>>

\* openReadReadyPipe, before the monitor is released.
StartOpen(s) ==
    /\ pc[s] = "open"
    /\ \/ /\ fifo # NoProc
          /\ rd' = [rd EXCEPT ![s] = fifo]
          /\ buf' = [buf EXCEPT ![fifo] = Found(fifo)]
          /\ Goto(s, "exec")
       \/ fifo = NoProc /\ UNCHANGED <<rd, buf>> /\ Goto(s, "fail")
    /\ UNCHANGED <<cliVars, diskVars, fifo, monVars>>

\* Mutant of StartExec: an init process that was released before counts as
\* started.
StartExecIdempotent(s) ==
    /\ pc[s] = "exec"
    /\ \/ Process(lc) = "blocked" /\ MonGoto(lc, "boot") /\ Goto(s, "await")
       \/ Process(lc) \in {"ready", "monitor"} /\ UNCHANGED mon /\ Goto(s, "openrunning")
       \/ Process(lc) \notin AliveMons /\ UNCHANGED mon /\ Goto(s, "closefail")
    /\ UNCHANGED <<cliVars, diskVars, fifo, rd, buf, cloexec, helper, said>>

\* libcontainer.Load and Container.Exec: the exec fifo lets one start through.
StartExec(s) ==
    /\ pc[s] = "exec"
    /\ \/ Process(lc) = "blocked" /\ MonGoto(lc, "boot") /\ Goto(s, "await")
       \/ (Process(lc) # "blocked" \/ Errors) /\ UNCHANGED mon /\ Goto(s, "closefail")
    /\ UNCHANGED <<cliVars, diskVars, fifo, rd, buf, cloexec, helper, said>>

\* Mutant of StartAwait: the end of the file is taken for a report.
StartAwaitEOF(s) ==
    /\ pc[s] = "await"
    /\ LET c == rd[s]
       IN  /\ buf[c] # "empty" \/ ~Writer(c)
           /\ Goto(s, IF buf[c] = "err" THEN "closefail" ELSE "openrunning")
           /\ buf' = [buf EXCEPT ![c] = "empty"]
    /\ UNCHANGED <<cliVars, diskVars, fifo, rd, monVars>>

\* awaitReadyPipe: a byte, or the end of the file once nobody can write.
StartAwait(s) ==
    /\ pc[s] = "await"
    /\ LET c == rd[s]
       IN  /\ buf[c] # "empty" \/ ~Writer(c)
           /\ Goto(s, IF buf[c] = "ok" THEN "openrunning" ELSE "closefail")
           /\ buf' = [buf EXCEPT ![c] = "empty"]
    /\ UNCHANGED <<cliVars, diskVars, fifo, rd, monVars>>

\* Mutant of StartSave: a monitor that ended meanwhile is recorded as stopped.
StartSaveStopped(s) ==
    /\ pc[s] = "saverunning"
    /\ SaveWrite(s, IF Alive(rd[s]) THEN "running" ELSE "stopped", view[s].pid, "poststart")

\* SetRunningState, with the pid that was read at the beginning.
StartSave(s) == pc[s] = "saverunning" /\ SaveWrite(s, "running", view[s].pid, "poststart")

StartPoststart(s) ==
    /\ pc[s] = "poststart"
    /\ \/ Goto(s, "closeok")
       \/ Errors /\ Goto(s, "closefail")
    /\ UNCHANGED <<cliVars, diskVars, fifo, rd, buf, monVars>>

\* The deferred closeReadReadyPipe: it removes whatever FIFO has the name.
StartClose(s) ==
    /\ pc[s] \in {"closeok", "closefail"}
    /\ Goto(s, IF pc[s] = "closeok" THEN "ok" ELSE "fail")
    /\ rd' = [rd EXCEPT ![s] = NoProc]
    /\ fifo' = NoProc
    /\ UNCHANGED <<cliVars, diskVars, buf, monVars>>

-----------------------------------------------------------------------------
(* urunc kill and delete *)

\* Signal: nothing to do without a pid; a monitor may survive the signal.
KillSignal(p) ==
    /\ pc[p] = "signal"
    /\ LET c == view[p].pid
       IN  \/ Process(c) \in AliveMons /\ MonGoto(c, "zombie") /\ Goto(p, "ok")
           \/ Process(c) # "dead" /\ UNCHANGED mon /\ Goto(p, "ok")
           \/ Process(c) = "dead" /\ UNCHANGED mon /\ Goto(p, "fail")
    /\ UNCHANGED <<cliVars, diskVars, fifo, rd, buf, cloexec, helper, said>>

\* Kill: SIGKILL, and a wait for the pid to go, up to a timeout.
DeleteKill(p) ==
    /\ pc[p] = "kill"
    /\ LET c == view[p].pid
       IN  \/ Process(c) \in AliveMons /\ MonGoto(c, "zombie") /\ Goto(p, "reap")
           \/ Process(c) = "zombie" /\ UNCHANGED mon /\ Goto(p, "reap")
           \/ Process(c) \in {"none", "dead"} /\ UNCHANGED mon /\ Goto(p, "check")
    /\ UNCHANGED <<cliVars, diskVars, fifo, rd, buf, cloexec, helper, said>>

DeleteReap(p) ==
    /\ pc[p] = "reap"
    /\ Goto(p, IF Process(view[p].pid) = "dead" THEN "check" ELSE "fail")
    /\ UNCHANGED <<cliVars, diskVars, fifo, rd, buf, monVars>>

\* isRunning, by the pid that was read.
DeleteCheck(p) ==
    /\ pc[p] = "check"
    /\ Goto(p, IF Process(view[p].pid) \in {"none", "dead"} THEN "destroy" ELSE "fail")
    /\ UNCHANGED <<cliVars, diskVars, fifo, rd, buf, monVars>>

\* Mutant of DeleteDestroy: an error of Destroy does not fail the delete.
DeleteDestroyAnyway(p) ==
    /\ pc[p] = "destroy"
    /\ Goto(p, "remove")
    /\ UNCHANGED <<cliVars, diskVars, fifo, rd, buf, monVars>>

\* destroyLibcontainer.  Load finds nothing before container.Start saved a state.
\* Destroy kills an init process that still blocks and refuses one that runs.
DeleteDestroy(p) ==
    /\ pc[p] = "destroy"
    /\ \/ /\ Process(lc) = "none"
          /\ Goto(p, "remove")
          /\ UNCHANGED <<lc, mon>>
       \/ /\ Process(lc) # "none"
          /\ mon' = [mon EXCEPT ![lc] = IF @ = "blocked" THEN "zombie" ELSE @]
          /\ \/ /\ Process(lc) \in {"blocked", "zombie", "dead"}
                /\ lc' = NoProc
                /\ Goto(p, "remove")
             \/ /\ Process(lc) \notin {"blocked", "zombie", "dead"} \/ Errors
                /\ Goto(p, "fail")
                /\ UNCHANGED lc
    /\ UNCHANGED <<cliVars, dir, state, fifo, rd, buf, cloexec, helper, said>>

\* The network, the volumes and the monitor's rootfs, any of which may fail the
\* delete, then the base directory.
DeleteRemove(p) ==
    /\ pc[p] = "remove"
    /\ \/ dir' = FALSE /\ state' = NoState /\ fifo' = NoProc /\ Goto(p, "ok")
       \/ Errors /\ UNCHANGED <<dir, state, fifo>> /\ Goto(p, "fail")
    /\ UNCHANGED <<cliVars, lc, rd, buf, monVars>>

-----------------------------------------------------------------------------
(* The environment *)

\* A guest shuts down.
MonitorEnds(c) ==
    /\ mon[c] = "monitor"
    /\ MonGoto(c, "zombie")
    /\ UNCHANGED <<cliVars, pc, diskVars, fifo, rd, buf, cloexec, helper, said>>

Reap(c) ==
    /\ mon[c] = "zombie"
    /\ MonGoto(c, "dead")
    /\ UNCHANGED <<cliVars, pc, diskVars, fifo, rd, buf, cloexec, helper, said>>

MonDies(c) ==
    /\ Crashes
    /\ Alive(c)
    /\ MonGoto(c, "zombie")
    /\ UNCHANGED <<cliVars, pc, diskVars, fifo, rd, buf, cloexec, helper, said>>

CliDies(p) ==
    /\ Crashes
    /\ Active(p)
    /\ Goto(p, "dead")
    /\ rd' = [rd EXCEPT ![p] = NoProc]
    /\ UNCHANGED <<cliVars, diskVars, fifo, buf, monVars>>

-----------------------------------------------------------------------------
Init ==
    /\ cmd = [p \in Procs |-> "none"]
    /\ pc = [p \in Procs |-> "idle"]
    /\ view = [p \in Procs |-> NoState]
    /\ dir = FALSE
    /\ state = NoState
    /\ lc = NoProc
    /\ fifo = NoProc
    /\ rd = [p \in Procs |-> NoProc]
    /\ buf = [p \in Procs |-> "empty"]
    /\ mon = [p \in Procs |-> "none"]
    /\ cloexec = [p \in Procs |-> FALSE]
    /\ helper = [p \in Procs |-> FALSE]
    /\ said = [p \in Procs |-> "nothing"]

CreateStep(p) == CreatePrepare(p) \/ InitialSave(p) \/ LcCreate(p) \/ CreateReadyPipe(p) \/ CreateSpawn(p)
                    \/ CreateSave(p) \/ CreateKillInit(p) \/ CreateDestroy(p)
StartStep(p)  == StartOpen(p) \/ StartExec(p) \/ StartAwait(p) \/ StartSave(p)
                    \/ StartPoststart(p) \/ StartClose(p)
DeleteStep(p) == DeleteKill(p) \/ DeleteReap(p) \/ DeleteCheck(p) \/ DeleteDestroy(p)
                    \/ DeleteRemove(p)
CliStep(p)    == Get(p) \/ SaveOpen(p) \/ CreateStep(p) \/ StartStep(p) \/ KillSignal(p)
                    \/ DeleteStep(p)
MonStep(c)    == MonBoot(c) \/ MonSetup(c) \/ MonPreStart(c) \/ MonReport(c) \/ MonExec(c)
                    \/ MonExit(c)

Next == \E p \in Procs :
    \/ \E c \in Commands : Begin(p, c)
    \/ CliStep(p) \/ MonStep(p)
    \/ MonitorEnds(p) \/ Reap(p) \/ MonDies(p) \/ CliDies(p)

Spec == Init /\ [][Next]_vars

\* Processes that can run do run; guests need not end, and nothing need fail.
Fairness == \A p \in Procs : WF_vars(CliStep(p)) /\ WF_vars(MonStep(p))

FairSpec == Spec /\ Fairness

-----------------------------------------------------------------------------
(* Properties *)

\* Types of the variables of the model of libcontainerCreate, startMonitorInit,
\* ExecMonitor and the ready FIFO.
TypeOK ==
    /\ cmd \in [Procs -> {"none"} \cup AllCommands]
    /\ pc \in [Procs -> Pcs]
    /\ view \in [Procs -> States]
    /\ dir \in BOOLEAN
    /\ state \in States
    /\ lc \in OptProc
    /\ fifo \in OptProc
    /\ rd \in [Procs -> OptProc]
    /\ buf \in [Procs -> {"empty", "ok", "err"}]
    /\ mon \in [Procs -> Mons]
    /\ cloexec \in [Procs -> BOOLEAN]
    /\ helper \in [Procs -> BOOLEAN]
    /\ said \in [Procs -> {"nothing", "ok", "err"}]

\* A start that has truncated state.json and is still to write it, or that failed
\* or was killed.
Interrupted(s) == cmd[s] = "start" /\ pc[s] \in {"saverunning", "closefail", "fail", "dead"}

\* "If anything below fails, terminate and reap it before the Destroy above"
\* (libcontainerCreate): an init process whose create has ended, however it
\* ended, is the one libcontainer knows; and if that create succeeded, state.json
\* names it, so that kill and delete find it.  The exception is a state.json that
\* a start of this container has truncated: it comes back when that start writes
\* it, and never if the start fails or is killed in between.
InitIsFound ==
    \A c \in Procs : Alive(c) /\ ~Active(c) =>
        /\ lc = c
        /\ pc[c] = "ok" =>
            /\ dir
            /\ \/ state.pid = c
               \/ state = Torn /\ \E s \in Procs : Interrupted(s) /\ view[s].pid = c

\* Delete never removes the base directory of a container whose init process or
\* monitor is alive, also when state.json has no pid because create was killed.
DeleteOnlyStopped ==
    [][dir /\ ~dir' => \A c \in Procs : ~Alive(c)]_vars

\* state.json says "running" only of a monitor that reported readyOK.
RunningMeansReported ==
    state.status = "running" => \E c \in Procs : state.pid \in {c, NoProc} /\ said[c] = "ok"

\* A start that was told readyOK, whether it has returned yet or not.
Succeeds(s) == cmd[s] = "start" /\ pc[s] \in {"openrunning", "saverunning", "poststart", "closeok", "ok"}

\* The exec fifo and the ready FIFO together let one start of a container
\* succeed, and only one.  Starts of one container have its FIFO open, or have
\* found its pid; there is no pid if its create was killed before the save.
StartedOnce ==
    \A s, t \in Procs :
        (/\ Succeeds(s) /\ Succeeds(t)
         /\ \/ rd[s] = rd[t] /\ rd[s] # NoProc
            \/ view[s].pid = view[t].pid /\ view[s].pid # NoProc) => s = t

\* The report is there for the start that released the monitor, whatever other
\* starts do with it: the FIFO always "has a writer" while the monitor runs
\* (CreateReadyPipe), and start opens its end first.
ReportArrives ==
    \A s \in Procs : pc[s] = "await" /\ rd[s] # NoProc => buf[rd[s]] =
        (CASE said[rd[s]] = "ok" -> "ok" [] said[rd[s]] = "err" -> "err" [] OTHER -> "empty")

\* "it still reports EOF if the monitor dies without writing" (CreateReadyPipe):
\* a start that waits for the outcome always returns.
StartReturns == \A s \in Procs : pc[s] = "await" ~> Ended(s)

\* "Any cgroups or libcontainer metadata residuals can cause issues with later
\* container creates" (libcontainerCreate): none is left once the container is
\* deleted.
NoResiduals == ~dir => lc = NoProc
=============================================================================
