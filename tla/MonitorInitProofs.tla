--------------------------- MODULE MonitorInitProofs ---------------------------
(***************************************************************************)
(* Proofs about MonitorInit, for any set of invocations, any calls that    *)
(* fail and any processes that are killed: libcontainer always knows the   *)
(* live init process, and a delete only removes a stopped container.       *)
(***************************************************************************)
EXTENDS MonitorInit, TLAPS

\* A process is at a point of its own command.
PcOK ==
    \A p \in Procs :
        /\ pc[p] \in CreatePcs => cmd[p] = "create"
        /\ pc[p] \in {"get", "signal"} \cup StartPcs \cup DeletePcs => cmd[p] # "create"
        /\ pc[p] \in StartPcs => cmd[p] = "start"

\* While a create runs nothing else does.
CreateAlone ==
    \A p, q \in Procs : Active(p) /\ cmd[p] = "create" /\ Active(q) => p = q

\* libcontainer knows the live init process, and the container is on record.
LcKnows ==
    \A c \in Procs : Alive(c) => lc = c /\ dir /\ state.status # "absent"

\* A create that has the libcontainer directory, and one that has an init process.
SpawnPcs == {"pipe", "spawn", "opencreated", "save", "killinit", "lcdestroy"}
InitPcs  == {"opencreated", "save", "killinit"}

\* How far the init process is when its create is not done.
CreateOwns ==
    \A c \in Procs :
        /\ pc[c] \in CreatePcs \ {"prepare", "opencreating"} => dir /\ state.status # "absent"
        /\ pc[c] \in SpawnPcs => lc = c
        /\ pc[c] \in CreatePcs \ InitPcs => \A d \in Procs : ~Alive(d)

\* state.json has the pid of c, or a start of c has truncated it.
Named(c) ==
    \/ state.pid = c
    \/ state = Torn /\ \E s \in Procs : Interrupted(s) /\ view[s].pid = c

\* state.json has the pid of the live process of a create that succeeded, and so
\* has every start that has read it.
PidKnown ==
    \A c \in Procs : Alive(c) /\ pc[c] = "ok" =>
        /\ Named(c)
        /\ \A p \in Procs : pc[p] \in StartPcs => view[p].pid = c

\* A delete that removes has nothing alive behind it.
RemoveAfterStop ==
    \A p \in Procs : pc[p] = "remove" => \A c \in Procs : ~Alive(c)

\* The init process of a create that has not begun, or that runs.
OnlyItsOwn ==
    \A c \in Procs : Alive(c) => cmd[c] = "create" /\ pc[c] \in InitPcs \cup EndPcs

FoundInv ==
    /\ TypeOK
    /\ PcOK
    /\ CreateAlone
    /\ LcKnows
    /\ CreateOwns
    /\ PidKnown
    /\ RemoveAfterStop
    /\ OnlyItsOwn

-----------------------------------------------------------------------------
(* Types *)

LEMMA TypeInit == Init => TypeOK
<1> SUFFICES ASSUME Init PROVE TypeOK
  OBVIOUS
<1>1. NoState \in States
  BY DEF NoState, States, OptProc
<1> QED
  BY <1>1 DEF Init, TypeOK, OptProc, Pcs, Mons

\* The steps that read a pid stay within the processes.
LEMMA ProcessIsProc ==
    ASSUME NEW c \in OptProc, Process(c) # "none"
    PROVE  c \in Procs
  BY DEF Process, OptProc

\* What the truncation of state.json does.
LEMMA SaveOpenIs ==
    ASSUME NEW p \in Procs, SaveOpen(p)
    PROVE  /\ pc[p] \in {"opencreating", "opencreated", "openrunning"}
           /\ \/ /\ dir /\ state' = Torn
                 /\ pc[p] = "opencreating" => pc' = [pc EXCEPT ![p] = "savecreating"]
                 /\ pc[p] = "opencreated" => pc' = [pc EXCEPT ![p] = "save"]
                 /\ pc[p] = "openrunning" => pc' = [pc EXCEPT ![p] = "saverunning"]
              \/ /\ state' = state
                 /\ pc[p] = "opencreating" => pc' = [pc EXCEPT ![p] = "fail"]
                 /\ pc[p] = "opencreated" => pc' = [pc EXCEPT ![p] = "killinit"]
                 /\ pc[p] = "openrunning" => pc' = [pc EXCEPT ![p] = "closefail"]
           /\ UNCHANGED <<cmd, view, dir, lc, fifo, rd, buf, mon, cloexec, helper, said>>
<1>1. pc[p] \in {"opencreating", "opencreated", "openrunning"}
  BY DEF SaveOpen, AfterOpen
<1>2. CASE pc[p] = "opencreating"
  BY <1>2 DEF SaveOpen, AfterOpen, Unsaved, Goto, cliVars, monVars
<1>3. CASE pc[p] = "opencreated"
  BY <1>3 DEF SaveOpen, AfterOpen, Unsaved, Goto, cliVars, monVars
<1>4. CASE pc[p] = "openrunning"
  BY <1>4 DEF SaveOpen, AfterOpen, Unsaved, Goto, cliVars, monVars
<1> QED
  BY <1>1, <1>2, <1>3, <1>4

LEMMA TypeStep == TypeOK /\ [Next]_vars => TypeOK'
<1> SUFFICES ASSUME TypeOK, [Next]_vars PROVE TypeOK'
  OBVIOUS
<1> USE MonitorInitAssumption
<1>0. CASE UNCHANGED vars
  BY <1>0 DEF TypeOK, vars, cliVars, diskVars, monVars
<1>1. ASSUME NEW p \in Procs, NEW c \in Commands, Begin(p, c) PROVE TypeOK'
  <2>1. cmd' \in [Procs -> {"none"} \cup AllCommands]
    BY <1>1 DEF Begin, TypeOK
  <2>2. pc' \in [Procs -> Pcs]
    BY <1>1 DEF Begin, TypeOK, Goto, Pcs, CreatePcs
  <2> QED
    BY <1>1, <2>1, <2>2 DEF Begin, TypeOK, diskVars, monVars
<1>2. ASSUME NEW p \in Procs, CreateStep(p) PROVE TypeOK'
  <2> USE DEF CreateStep, CreatePrepare, InitialSave, LcCreate, CreateReadyPipe, CreateSpawn, CreateSave,
              SaveWrite, Unsaved, CreateKillInit, CreateDestroy, Goto, MonGoto
  <2>1. pc' \in [Procs -> Pcs]
    BY <1>2 DEF TypeOK, Pcs, CreatePcs, EndPcs
  <2>2. mon' \in [Procs -> Mons]
    BY <1>2 DEF TypeOK, Mons, AliveMons, monVars
  <2>3. dir' = dir \/ dir' \in BOOLEAN
    BY <1>2 DEF diskVars
  <2>4. state' \in States
    BY <1>2 DEF TypeOK, States, OptProc, diskVars
  <2>5. lc' \in OptProc /\ fifo' \in OptProc
    BY <1>2 DEF TypeOK, OptProc, diskVars
  <2>6. UNCHANGED <<cmd, view, rd, buf, cloexec, helper, said>>
    BY <1>2 DEF cliVars, monVars
  <2> QED
    BY <2>1, <2>2, <2>3, <2>4, <2>5, <2>6 DEF TypeOK
<1>3. ASSUME NEW p \in Procs, MonStep(p) PROVE TypeOK'
  <2> USE DEF MonStep, MonBoot, MonSetup, MonPreStart, MonReport, MonExec, MonExit, MonFails,
              MonGoto, monVars
  <2>1. mon' \in [Procs -> Mons]
    BY <1>3 DEF TypeOK, Mons, AliveMons, SetupMons
  <2>2. /\ buf' \in [Procs -> {"empty", "ok", "err"}]
        /\ said' \in [Procs -> {"nothing", "ok", "err"}]
    BY <1>3 DEF TypeOK
  <2>3. cloexec' \in [Procs -> BOOLEAN]
    BY <1>3 DEF TypeOK
  <2>4. helper' \in [Procs -> BOOLEAN]
    <3>1. (~cloexec[p]) \in BOOLEAN
      OBVIOUS
    <3>2. helper' \in {helper, [helper EXCEPT ![p] = ~cloexec[p]]}
      BY <1>3
    <3> QED
      BY <3>1, <3>2 DEF TypeOK
  <2>5. UNCHANGED <<cmd, pc, view, dir, state, lc, fifo, rd>>
    BY <1>3 DEF cliVars, diskVars
  <2> QED
    BY <2>1, <2>2, <2>3, <2>4, <2>5 DEF TypeOK
<1>4. ASSUME NEW p \in Procs, Get(p) PROVE TypeOK'
  <2>1. pc' \in [Procs -> Pcs]
    BY <1>4 DEF Get, AfterGet, TypeOK, Goto, Pcs, StartPcs, DeletePcs, EndPcs
  <2>2. dir' = dir \/ dir' = FALSE
    BY <1>4 DEF Get
  <2>3. fifo' \in OptProc /\ view' \in [Procs -> States]
    BY <1>4 DEF Get, TypeOK, OptProc
  <2> QED
    BY <1>4, <2>1, <2>2, <2>3 DEF Get, TypeOK, monVars
<1>5. ASSUME NEW p \in Procs, StartStep(p) PROVE TypeOK'
  <2> USE DEF StartStep, StartOpen, StartExec, StartAwait, StartSave, SaveWrite, Unsaved, StartPoststart,
              StartClose, Goto, MonGoto
  <2>1. pc' \in [Procs -> Pcs]
    BY <1>5 DEF TypeOK, Pcs, StartPcs, EndPcs
  <2>2. mon' \in [Procs -> Mons]
    <3>1. Process(lc) = "blocked" => lc \in Procs
      BY ProcessIsProc DEF TypeOK
    <3>2. mon' = mon \/ (Process(lc) = "blocked" /\ mon' = [mon EXCEPT ![lc] = "boot"])
      BY <1>5 DEF monVars
    <3> QED
      BY <3>1, <3>2 DEF TypeOK, Mons, AliveMons, SetupMons
  <2>3. rd' \in [Procs -> OptProc] /\ fifo' \in OptProc
    BY <1>5 DEF TypeOK, OptProc
  <2>4. buf' \in [Procs -> {"empty", "ok", "err"}]
    <3>1. \A c \in Procs : Found(c) \in {"empty", "ok", "err"}
      BY DEF Found, TypeOK
    <3>2. \/ buf' = buf
          \/ fifo # NoProc /\ buf' = [buf EXCEPT ![fifo] = Found(fifo)]
          \/ buf' = [buf EXCEPT ![rd[p]] = "empty"]
      BY <1>5
    <3>3. fifo # NoProc => fifo \in Procs
      BY DEF TypeOK, OptProc
    <3> QED
      BY <3>1, <3>2, <3>3 DEF TypeOK
  <2>5. state' \in States
    <3>1. view[p].pid \in OptProc
      BY DEF TypeOK, States
    <3>2. state' = state \/ state' = [status |-> "running", pid |-> view[p].pid]
      BY <1>5 DEF diskVars
    <3> QED
      BY <3>1, <3>2 DEF TypeOK, States
  <2>6. UNCHANGED <<cmd, view, dir, lc, cloexec, helper, said>>
    BY <1>5 DEF cliVars, diskVars, monVars
  <2> QED
    BY <2>1, <2>2, <2>3, <2>4, <2>5, <2>6 DEF TypeOK
<1>6. ASSUME NEW p \in Procs, KillSignal(p) \/ DeleteStep(p) PROVE TypeOK'
  <2> USE DEF DeleteStep, KillSignal, DeleteKill, DeleteReap, DeleteCheck, DeleteDestroy,
              DeleteRemove, Goto, MonGoto
  <2>1. pc' \in [Procs -> Pcs]
    BY <1>6 DEF TypeOK, Pcs, DeletePcs, EndPcs
  <2>2. mon' \in [Procs -> Mons]
    <3>1. view[p].pid \in OptProc
      BY DEF TypeOK, States
    <3>2. \/ mon' = mon
          \/ Process(view[p].pid) \in AliveMons /\ mon' = [mon EXCEPT ![view[p].pid] = "zombie"]
          \/ Process(lc) # "none" /\ mon' = [mon EXCEPT ![lc] = IF @ = "blocked" THEN "zombie" ELSE @]
      BY <1>6 DEF monVars
    <3>3. Process(view[p].pid) \in AliveMons => view[p].pid \in Procs
      BY <3>1, ProcessIsProc DEF AliveMons, SetupMons
    <3>4. Process(lc) # "none" => lc \in Procs
      BY ProcessIsProc DEF TypeOK
    <3> QED
      BY <3>2, <3>3, <3>4 DEF TypeOK, Mons
  <2>3. dir' = dir \/ dir' = FALSE
    BY <1>6 DEF diskVars
  <2>4. state' \in States /\ lc' \in OptProc /\ fifo' \in OptProc
    BY <1>6 DEF TypeOK, OptProc, NoState, States, diskVars
  <2>5. UNCHANGED <<cmd, view, rd, buf, cloexec, helper, said>>
    BY <1>6 DEF cliVars, monVars
  <2> QED
    BY <2>1, <2>2, <2>3, <2>4, <2>5 DEF TypeOK
<1>7. ASSUME NEW p \in Procs, MonitorEnds(p) \/ Reap(p) \/ MonDies(p) PROVE TypeOK'
  BY <1>7 DEF MonitorEnds, Reap, MonDies, MonGoto, TypeOK, Mons, cliVars, diskVars
<1>8. ASSUME NEW p \in Procs, CliDies(p) PROVE TypeOK'
  BY <1>8 DEF CliDies, Goto, TypeOK, Pcs, EndPcs, OptProc, cliVars, diskVars, monVars
<1>9. ASSUME NEW p \in Procs, SaveOpen(p) PROVE TypeOK'
  <2>1. pc' \in [Procs -> Pcs]
    BY <1>9, SaveOpenIs DEF TypeOK, Pcs, CreatePcs, StartPcs, EndPcs
  <2>2. state' \in States
    BY <1>9 DEF SaveOpen, TypeOK, Torn, States, OptProc
  <2> QED
    BY <1>9, <2>1, <2>2 DEF SaveOpen, TypeOK, cliVars, monVars
<1> QED
  BY <1>0, <1>1, <1>2, <1>3, <1>4, <1>5, <1>6, <1>7, <1>8, <1>9 DEF Next, CliStep

\* Type correctness of the model of create_libcontainer.go, start.go, monitor.go
\* and ipc.go, for any set of invocations.
THEOREM MonitorTypeCorrect == Spec => []TypeOK
  BY TypeInit, TypeStep, PTL DEF Spec
-----------------------------------------------------------------------------
(* The init process is found *)

\* A step of an init process or of its environment.
LEMMA QuietStep ==
    ASSUME FoundInv, TypeOK', UNCHANGED <<cmd, pc, view, dir, state, lc>>,
           \A c \in Procs : Alive(c)' => Alive(c)
    PROVE  FoundInv'
<1>1. PcOK' /\ CreateAlone'
  BY DEF FoundInv, PcOK, CreateAlone, Active
<1>2. LcKnows' /\ OnlyItsOwn'
  BY DEF FoundInv, LcKnows, OnlyItsOwn
<1>3. CreateOwns'
  BY DEF FoundInv, CreateOwns
<1>4. PidKnown' /\ RemoveAfterStop'
  <2>1. \A c \in Procs : Named(c)' <=> Named(c)
    BY DEF Named, Interrupted
  <2> QED
    BY <2>1 DEF FoundInv, PidKnown, RemoveAfterStop
<1> QED
  BY <1>1, <1>2, <1>3, <1>4 DEF FoundInv

\* A start that has truncated state.json, or has failed, can only go on to fail.
StaysInterrupted(p, to) ==
    pc[p] \in {"saverunning", "closefail"} => to \in {"saverunning", "closefail", "fail", "dead"}

\* A step of a command that is not a create: no create is under way.
LEMMA CommandStep ==
    ASSUME FoundInv, TypeOK', NEW p \in Procs, NEW to \in Pcs,
           Active(p), cmd[p] # "create", cmd' = cmd,
           pc' = [pc EXCEPT ![p] = to],
           to \notin CreatePcs \cup {"idle"},
           to \in StartPcs => cmd[p] = "start",
           \A q \in Procs : q # p => view'[q] = view[q],
           pc[p] \in StartPcs => view'[p] = view[p],
           to \in StartPcs => pc[p] \in StartPcs \/ (view'[p] = state /\ state # Torn),
           \A c \in Procs : Alive(c)' =>
               /\ Alive(c) /\ lc' = lc /\ dir' /\ state'.status # "absent"
               /\ to # "remove"
               /\ \/ state' = state /\ StaysInterrupted(p, to)
                  \/ pc[p] \in StartPcs /\ state'.pid = view[p].pid
                  \/ pc[p] \in StartPcs /\ state' = Torn /\ to = "saverunning"
    PROVE  FoundInv'
<1> USE DEF FoundInv
<1>1. \A q \in Procs : q # p => pc'[q] = pc[q]
  BY DEF TypeOK
<1>2. pc'[p] = to
  BY DEF TypeOK
<1>3. \A q \in Procs : ~(pc'[q] \in CreatePcs)
  <2> SUFFICES ASSUME NEW q \in Procs, pc'[q] \in CreatePcs PROVE FALSE
    OBVIOUS
  <2>1. q # p /\ pc[q] \in CreatePcs
    BY <1>1, <1>2
  <2>2. Active(q) /\ cmd[q] = "create"
    BY <2>1 DEF PcOK, Active, CreatePcs, EndPcs
  <2> QED
    BY <2>1, <2>2 DEF CreateAlone
<1>4. \A q \in Procs : Active(q)' => Active(q)
  BY <1>1 DEF Active
<1>5. PcOK'
  BY <1>1, <1>2, <1>3 DEF PcOK
<1>6. CreateAlone'
  BY <1>4 DEF CreateAlone
<1>7. LcKnows'
  BY DEF LcKnows
<1>8. CreateOwns'
  BY <1>3 DEF CreateOwns, CreatePcs, SpawnPcs, InitPcs
<1>9. OnlyItsOwn'
  BY <1>1 DEF OnlyItsOwn
<1>10. RemoveAfterStop'
  BY <1>1, <1>2 DEF RemoveAfterStop
<1>11. PidKnown'
  <2> SUFFICES ASSUME NEW c \in Procs, Alive(c)', pc'[c] = "ok"
               PROVE  Named(c)' /\ \A q \in Procs : pc'[q] \in StartPcs => view'[q].pid = c
    BY DEF PidKnown
  <2>1. Alive(c) /\ c # p
    BY DEF OnlyItsOwn
  <2>2. Named(c) /\ \A q \in Procs : pc[q] \in StartPcs => view[q].pid = c
    BY <1>1, <2>1 DEF PidKnown
  <2>3. Named(c)'
    <3>1. CASE pc[p] \in StartPcs /\ state'.pid = view[p].pid
      BY <2>2, <3>1 DEF Named
    <3>2. CASE pc[p] \in StartPcs /\ state' = Torn /\ to = "saverunning"
      <4>1. Interrupted(p)' /\ view'[p].pid = c
        BY <1>2, <2>2, <3>2 DEF Interrupted, StartPcs
      <4> QED
        BY <3>2, <4>1 DEF Named
    <3>3. CASE state' = state /\ StaysInterrupted(p, to)
      <4>1. CASE state.pid = c
        BY <3>3, <4>1 DEF Named
      <4>2. ASSUME state = Torn, NEW t \in Procs, Interrupted(t), view[t].pid = c PROVE Named(c)'
        <5>1. CASE t = p
          <6>1. pc[p] \in {"saverunning", "closefail"}
            BY <4>2, <5>1 DEF Interrupted, Active, EndPcs
          <6>2. Interrupted(p)' /\ view'[p] = view[p]
            BY <1>2, <3>3, <4>2, <5>1, <6>1 DEF Interrupted, StaysInterrupted, StartPcs
          <6> QED
            BY <3>3, <4>2, <5>1, <6>2 DEF Named
        <5>2. CASE t # p
          <6>1. Interrupted(t)' /\ view'[t] = view[t]
            BY <1>1, <4>2, <5>2 DEF Interrupted
          <6> QED
            BY <3>3, <4>2, <6>1 DEF Named
        <5> QED
          BY <5>1, <5>2
      <4> QED
        BY <2>2, <4>1, <4>2 DEF Named
    <3> QED
      BY <3>1, <3>2, <3>3
  <2>4. ASSUME NEW q \in Procs, pc'[q] \in StartPcs PROVE view'[q].pid = c
    <3>1. CASE q = p
      <4>1. CASE pc[p] \in StartPcs
        BY <2>2, <3>1, <4>1
      <4>2. CASE view'[p] = state /\ state # Torn
        BY <2>2, <3>1, <4>2 DEF Named
      <4> QED
        BY <1>2, <2>4, <3>1, <4>1, <4>2
    <3>2. CASE q # p
      BY <1>1, <2>2, <2>4, <3>2
    <3> QED
      BY <3>1, <3>2
  <2> QED
    BY <2>3, <2>4
<1> QED
  BY <1>5, <1>6, <1>7, <1>8, <1>9, <1>10, <1>11

\* A step of a create: nothing else is under way.
LEMMA CreateMoves ==
    ASSUME FoundInv, TypeOK', NEW p \in Procs, NEW to \in CreatePcs \cup EndPcs,
           Active(p), cmd[p] = "create", cmd' = cmd,
           pc' = [pc EXCEPT ![p] = to], to # "prepare",
           to \in CreatePcs \ {"opencreating"} => dir' /\ state'.status # "absent",
           to \in SpawnPcs => lc' = p,
           \A c \in Procs : Alive(c)' =>
               /\ c = p /\ lc' = p /\ dir' /\ state'.status # "absent"
               /\ to \in InitPcs \cup EndPcs
               /\ to = "ok" => state'.pid = p
    PROVE  FoundInv'
<1> USE DEF FoundInv
<1>1. \A q \in Procs : q # p => pc'[q] = pc[q]
  BY DEF TypeOK
<1>2. pc'[p] = to
  BY DEF TypeOK
<1>3. \A q \in Procs : q # p => ~Active(q)'
  BY <1>1 DEF CreateAlone, Active
<1>4. to \notin {"idle", "get", "signal", "remove"} \cup StartPcs \cup DeletePcs
  BY DEF CreatePcs, EndPcs, StartPcs, DeletePcs
<1>5. \A q \in Procs : pc'[q] \notin {"get", "signal", "remove"} \cup StartPcs \cup DeletePcs
  <2> SUFFICES ASSUME NEW q \in Procs
               PROVE  pc'[q] \notin {"get", "signal", "remove"} \cup StartPcs \cup DeletePcs
    OBVIOUS
  <2>1. CASE q = p
    BY <1>2, <1>4, <2>1
  <2>2. CASE q # p
    BY <1>3, <2>2 DEF Active, StartPcs, DeletePcs, EndPcs
  <2> QED
    BY <2>1, <2>2
<1>6. \A q \in Procs : pc'[q] \in CreatePcs => q = p
  BY <1>3 DEF Active, CreatePcs, EndPcs
<1>7. PcOK'
  BY <1>5, <1>6 DEF PcOK
<1>8. CreateAlone'
  BY <1>3 DEF CreateAlone
<1>9. LcKnows'
  BY DEF LcKnows
<1>10. CreateOwns'
  BY <1>2, <1>6 DEF CreateOwns, SpawnPcs, InitPcs, CreatePcs, EndPcs
<1>11. PidKnown'
  BY <1>2, <1>5 DEF PidKnown, Named
<1>12. RemoveAfterStop'
  BY <1>5 DEF RemoveAfterStop
<1>13. OnlyItsOwn'
  BY <1>2 DEF OnlyItsOwn
<1> QED
  BY <1>7, <1>8, <1>9, <1>10, <1>11, <1>12, <1>13

LEMMA FoundInit == Init => FoundInv
<1> SUFFICES ASSUME Init PROVE FoundInv
  OBVIOUS
<1>1. TypeOK
  BY TypeInit
<1>2. \A p \in Procs : pc[p] = "idle" /\ mon[p] = "none"
  BY DEF Init
<1>3. \A p \in Procs : ~Alive(p) /\ ~Active(p)
  BY <1>2 DEF Alive, AliveMons, SetupMons, Active
<1>4. PcOK
  BY <1>2 DEF PcOK, CreatePcs, StartPcs, DeletePcs
<1> QED
  BY <1>1, <1>2, <1>3, <1>4 DEF FoundInv, CreateAlone, LcKnows, CreateOwns, CreatePcs,
      SpawnPcs, PidKnown, RemoveAfterStop, OnlyItsOwn

LEMMA FoundBegin ==
    ASSUME FoundInv, TypeOK', NEW p \in Procs, NEW c \in Commands, Begin(p, c)
    PROVE  FoundInv'
<1> USE DEF FoundInv
<1>1. /\ \A q \in Procs : q # p => pc'[q] = pc[q] /\ cmd'[q] = cmd[q]
      /\ cmd'[p] = c /\ pc[p] = "idle"
      /\ pc'[p] = IF c = "create" THEN "prepare" ELSE "get"
  BY DEF Begin, Goto, TypeOK
<1>2. \A q \in Procs : Alive(q)' <=> Alive(q)
  BY DEF Begin, Alive, monVars
<1>3. UNCHANGED <<view, dir, state, lc>>
  BY DEF Begin, diskVars
<1>4. ~Alive(p)
  BY <1>1 DEF OnlyItsOwn, InitPcs, EndPcs
<1>5. \A q \in Procs : Active(q) => cmd[q] # "create" /\ c # "create"
  BY DEF Begin
<1>6. c = "create" => \A q \in Procs : ~Alive(q)
  BY DEF Begin, LcKnows
<1>7. \A q \in Procs : q # p => pc'[q] \notin CreatePcs
  BY <1>1, <1>5 DEF PcOK, Active, CreatePcs, EndPcs
<1>8. \A q \in Procs : q # p => (Active(q)' <=> Active(q))
  BY <1>1 DEF Active
<1>9. PcOK'
  BY <1>1 DEF PcOK, CreatePcs, StartPcs, DeletePcs
<1>10. CreateAlone'
  BY <1>1, <1>5, <1>8 DEF CreateAlone
<1>11. LcKnows'
  BY <1>2, <1>3 DEF LcKnows
<1>12. CreateOwns'
  BY <1>1, <1>2, <1>6, <1>7 DEF CreateOwns, CreatePcs, SpawnPcs, InitPcs
<1>13. PidKnown'
  <2> SUFFICES ASSUME NEW d \in Procs, Alive(d), pc[d] = "ok"
               PROVE  Named(d)' /\ \A q \in Procs : pc'[q] \in StartPcs => view'[q].pid = d
    BY <1>1, <1>2, <1>4 DEF PidKnown
  <2>1. Named(d) /\ \A q \in Procs : pc[q] \in StartPcs => view[q].pid = d
    BY DEF PidKnown
  <2>2. \A q \in Procs : Interrupted(q) => q # p /\ Interrupted(q)'
    BY <1>1 DEF Interrupted
  <2>3. Named(d)'
    BY <1>3, <2>1, <2>2 DEF Named
  <2> QED
    BY <1>1, <1>3, <2>1, <2>3 DEF StartPcs
<1>14. RemoveAfterStop'
  BY <1>1, <1>2 DEF RemoveAfterStop
<1>15. OnlyItsOwn'
  BY <1>1, <1>2, <1>4 DEF OnlyItsOwn
<1> QED
  BY <1>9, <1>10, <1>11, <1>12, <1>13, <1>14, <1>15

LEMMA FoundCreate ==
    ASSUME FoundInv, TypeOK', NEW p \in Procs,
           CreateStep(p) \/ (SaveOpen(p) /\ pc[p] # "openrunning")
    PROVE  FoundInv'
<1> USE DEF FoundInv, Goto
<1>1. pc[p] \in CreatePcs /\ cmd' = cmd
  BY SaveOpenIs DEF CreateStep, CreatePrepare, InitialSave, LcCreate, CreateReadyPipe, CreateSpawn,
         CreateSave, SaveWrite, CreateKillInit, CreateDestroy, CreatePcs, cliVars
<1>2. Active(p) /\ cmd[p] = "create"
  BY <1>1 DEF PcOK, Active, CreatePcs, EndPcs
<1>3. \A c \in Procs : Alive(c) => c = p /\ pc[p] \in InitPcs
  <2> SUFFICES ASSUME NEW c \in Procs, Alive(c) PROVE c = p /\ pc[p] \in InitPcs
    OBVIOUS
  <2>1. pc[p] \in InitPcs
    BY <1>1 DEF CreateOwns
  <2>2. lc = p /\ lc = c
    BY <2>1 DEF CreateOwns, LcKnows, InitPcs, SpawnPcs
  <2> QED
    BY <2>1, <2>2
<1>4. mon' = mon => \A c \in Procs : Alive(c)' => Alive(c)
  BY DEF Alive
<1> DEFINE M(to) ==
        /\ to \in CreatePcs \cup EndPcs /\ to # "prepare"
        /\ pc' = [pc EXCEPT ![p] = to]
        /\ to \in CreatePcs \ {"opencreating"} => dir' /\ state'.status # "absent"
        /\ to \in SpawnPcs => lc' = p
        /\ \A c \in Procs : Alive(c)' =>
               /\ c = p /\ lc' = p /\ dir' /\ state'.status # "absent"
               /\ to \in InitPcs \cup EndPcs
               /\ to = "ok" => state'.pid = p
<1>5. ASSUME NEW to, M(to) PROVE FoundInv'
  BY <1>1, <1>2, <1>5, CreateMoves
<1>0. /\ \A x \in {"pipe", "spawn", "opencreated", "save", "killinit", "lcdestroy"} : x \in SpawnPcs
      /\ \A x \in {"ok", "fail", "opencreating", "savecreating", "lccreate"} : x \notin SpawnPcs
      /\ \A x \in {"opencreated", "save", "killinit"} : x \in InitPcs
      /\ \A x \in {"ok", "fail"} : x \in EndPcs /\ x \notin CreatePcs
      /\ \A x \in {"opencreating", "savecreating", "lccreate", "pipe", "spawn", "opencreated", "save",
                     "killinit", "lcdestroy"} : x \in CreatePcs
      /\ \A x \in {"prepare", "opencreating", "savecreating", "lccreate", "pipe", "spawn", "lcdestroy"} :
             x \notin InitPcs
  BY DEF SpawnPcs, InitPcs, EndPcs, CreatePcs
<1>6. CASE CreatePrepare(p)
  <2>1. \A c \in Procs : ~Alive(c)'
    BY <1>0, <1>3, <1>4, <1>6 DEF CreatePrepare, monVars
  <2>2. M("opencreating") \/ M("fail")
    BY <1>0, <1>6, <2>1 DEF CreatePrepare
  <2> QED
    BY <1>5, <2>2
<1>13. CASE InitialSave(p)
  <2>0. pc[p] = "savecreating" /\ mon' = mon
    BY <1>13 DEF InitialSave, SaveWrite, monVars
  <2>1. \A c \in Procs : ~Alive(c)'
    BY <1>0, <1>3, <1>4, <2>0
  <2>2. dir /\ dir' = dir
    BY <1>13, <2>0 DEF InitialSave, SaveWrite, CreateOwns, CreatePcs
  <2>3. CASE /\ pc' = [pc EXCEPT ![p] = "lccreate"]
             /\ state' = [status |-> "creating", pid |-> NoProc]
    <3>1. M("lccreate")
      BY <1>0, <2>1, <2>2, <2>3
    <3> QED
      BY <1>5, <3>1
  <2>4. CASE pc' = [pc EXCEPT ![p] = "fail"]
    <3>1. M("fail")
      BY <1>0, <2>1, <2>4
    <3> QED
      BY <1>5, <3>1
  <2> QED
    BY <1>13, <2>0, <2>2, <2>3, <2>4 DEF InitialSave, SaveWrite, Unsaved
<1>14. CASE SaveOpen(p) /\ pc[p] # "openrunning"
  <2>0. /\ mon' = mon /\ dir' = dir /\ lc' = lc
        /\ pc[p] \in {"opencreating", "opencreated"}
    BY <1>14, SaveOpenIs
  <2>1. \A c \in Procs : Alive(c)' => c = p /\ pc[p] \in InitPcs
    BY <1>3, <1>4, <2>0
  <2>2. pc[p] = "opencreated" => lc = p /\ dir /\ state.status # "absent"
    BY DEF CreateOwns, CreatePcs, SpawnPcs
  <2>3. Torn.status # "absent"
    BY DEF Torn
  <2>4. CASE pc[p] = "opencreating"
    <3>1. \A c \in Procs : ~Alive(c)'
      BY <1>0, <2>1, <2>4
    <3>2. M("savecreating") \/ M("fail")
      BY <1>0, <1>14, <2>0, <2>3, <2>4, <3>1, SaveOpenIs
    <3> QED
      BY <1>5, <3>2
  <2>5. CASE pc[p] = "opencreated"
    <3>1. M("save") \/ M("killinit")
      BY <1>0, <1>14, <2>0, <2>1, <2>2, <2>3, <2>5, SaveOpenIs
    <3> QED
      BY <1>5, <3>1
  <2> QED
    BY <2>0, <2>4, <2>5
<1>7. CASE LcCreate(p)
  <2>1. \A c \in Procs : ~Alive(c)'
    BY <1>0, <1>3, <1>4, <1>7 DEF LcCreate, monVars
  <2>2. dir' /\ state'.status # "absent"
    BY <1>7 DEF LcCreate, CreateOwns, CreatePcs
  <2>3. M("pipe") \/ M("fail")
    BY <1>0, <1>7, <2>1, <2>2 DEF LcCreate
  <2> QED
    BY <1>5, <2>3
<1>8. CASE CreateReadyPipe(p)
  <2>1. \A c \in Procs : ~Alive(c)'
    BY <1>0, <1>3, <1>4, <1>8 DEF CreateReadyPipe, monVars
  <2>2. dir' /\ state'.status # "absent" /\ lc' = p
    BY <1>8 DEF CreateReadyPipe, CreateOwns, CreatePcs, SpawnPcs, diskVars
  <2>3. M("spawn") \/ M("lcdestroy")
    BY <1>0, <1>8, <2>1, <2>2 DEF CreateReadyPipe
  <2> QED
    BY <1>5, <2>3
<1>9. CASE CreateSpawn(p)
  <2>1. dir' /\ state'.status # "absent" /\ lc' = p
    BY <1>9 DEF CreateSpawn, CreateOwns, CreatePcs, SpawnPcs, diskVars
  <2>2. CASE mon' = [mon EXCEPT ![p] = "blocked"] /\ pc' = [pc EXCEPT ![p] = "opencreated"]
    <3>1. \A c \in Procs : Alive(c)' => c = p
      BY <1>3, <2>2 DEF Alive, TypeOK
    <3>2. M("opencreated")
      BY <1>0, <2>1, <2>2, <3>1
    <3> QED
      BY <1>5, <3>2
  <2>3. CASE mon' = mon /\ pc' = [pc EXCEPT ![p] = "lcdestroy"]
    <3>1. \A c \in Procs : ~Alive(c)'
      BY <1>0, <1>3, <1>4, <1>9, <2>3 DEF CreateSpawn
    <3>2. M("lcdestroy")
      BY <1>0, <2>1, <2>3, <3>1
    <3> QED
      BY <1>5, <3>2
  <2> QED
    BY <1>9, <2>2, <2>3 DEF CreateSpawn, MonGoto
<1>10. CASE CreateSave(p)
  <2>0. pc[p] = "save" /\ mon' = mon /\ dir' = dir /\ lc' = lc
    BY <1>10 DEF CreateSave, SaveWrite, monVars
  <2>1. \A c \in Procs : Alive(c)' => c = p
    BY <1>3, <1>4, <2>0
  <2>2. dir /\ state.status # "absent" /\ lc = p
    BY <2>0 DEF CreateOwns, CreatePcs, SpawnPcs
  <2>3. \/ pc' = [pc EXCEPT ![p] = "ok"] /\ state' = [status |-> "created", pid |-> p]
        \/ pc' = [pc EXCEPT ![p] = "killinit"] /\ state' = state
    BY <1>10, <2>0, <2>2 DEF CreateSave, SaveWrite, Unsaved
  <2>4. M("ok") \/ M("killinit")
    BY <1>0, <2>0, <2>1, <2>2, <2>3
  <2> QED
    BY <1>5, <2>4
<1>11. CASE CreateKillInit(p)
  <2>1. \A c \in Procs : ~Alive(c)'
    BY <1>3, <1>11 DEF CreateKillInit, MonGoto, Alive, TypeOK, AliveMons, SetupMons
  <2>2. dir' /\ state'.status # "absent" /\ lc' = p
    BY <1>11 DEF CreateKillInit, CreateOwns, CreatePcs, SpawnPcs, diskVars
  <2>3. M("lcdestroy")
    BY <1>0, <1>11, <2>1, <2>2 DEF CreateKillInit
  <2> QED
    BY <1>5, <2>3
<1>12. CASE CreateDestroy(p)
  <2>1. \A c \in Procs : ~Alive(c)'
    BY <1>0, <1>3, <1>4, <1>12 DEF CreateDestroy, monVars
  <2>2. M("fail")
    BY <1>0, <1>12, <2>1 DEF CreateDestroy
  <2> QED
    BY <1>5, <2>2
<1> QED
  BY <1>6, <1>7, <1>8, <1>9, <1>10, <1>11, <1>12, <1>13, <1>14 DEF CreateStep

\* What start, kill and delete share: where p goes, what it leaves alone.
Quiet(p, to) ==
    /\ pc' = [pc EXCEPT ![p] = to]
    /\ UNCHANGED <<cmd, view, dir, state, lc>>
    /\ \A c \in Procs : Alive(c)' => Alive(c)

\* The steps that go on at a point that is neither removal nor another command's.
LEMMA FoundQuiet ==
    ASSUME FoundInv, TypeOK', NEW p \in Procs, NEW to \in Pcs, Quiet(p, to),
           Active(p), cmd[p] # "create",
           to \notin CreatePcs \cup {"idle", "remove"},
           to \in StartPcs => pc[p] \in StartPcs, StaysInterrupted(p, to)
    PROVE  FoundInv'
<1>1. \A c \in Procs : Alive(c)' =>
        Alive(c) /\ lc' = lc /\ dir' /\ state'.status # "absent" /\ to # "remove" /\ state' = state
  BY DEF FoundInv, Quiet, LcKnows
<1>2. to \in StartPcs => cmd[p] = "start"
  BY DEF FoundInv, PcOK
<1> QED
  BY <1>1, <1>2, CommandStep DEF Quiet

LEMMA FoundGet ==
    ASSUME FoundInv, TypeOK', NEW p \in Procs, Get(p)
    PROVE  FoundInv'
<1> USE DEF Goto
<1>1. Active(p) /\ cmd[p] # "create" /\ cmd' = cmd
  BY DEF Get, FoundInv, PcOK, Active, EndPcs
<1>2. \A c \in Procs : Alive(c)' => Alive(c)
  BY DEF Get, Alive, monVars
<1>5. pc[p] = "get" /\ pc[p] \notin StartPcs
  BY DEF Get, StartPcs
<1>6. \A to : StaysInterrupted(p, to)
  BY <1>5 DEF StaysInterrupted
<1>3. CASE state.status \notin {"absent", "torn"}
  <2>1. /\ view' = [view EXCEPT ![p] = state] /\ UNCHANGED <<dir, state, lc>>
        /\ pc' = [pc EXCEPT ![p] = AfterGet(cmd[p])]
    BY <1>3 DEF Get
  <2>2. AfterGet(cmd[p]) \in {"open", "signal", "check", "kill"}
    BY DEF AfterGet
  <2>3. view'[p] = state /\ \A q \in Procs : q # p => view'[q] = view[q]
    BY <2>1 DEF FoundInv, TypeOK
  <2>4. \A c \in Procs : Alive(c)' => Alive(c) /\ lc' = lc /\ dir' /\ state'.status # "absent"
    BY <1>2, <2>1 DEF FoundInv, LcKnows
  <2>5. AfterGet(cmd[p]) \in Pcs /\ AfterGet(cmd[p]) \notin CreatePcs \cup {"idle", "remove"}
    BY <2>2 DEF Pcs, CreatePcs, StartPcs, DeletePcs
  <2>6. state # Torn
    BY <1>3 DEF Torn
  <2>7. AfterGet(cmd[p]) \in StartPcs => cmd[p] = "start"
    BY DEF AfterGet, StartPcs
  <2> QED
    BY <1>1, <1>5, <1>6, <2>1, <2>3, <2>4, <2>5, <2>6, <2>7, CommandStep
<1>7. CASE state.status = "torn"
  <2>1. Quiet(p, "fail")
    BY <1>1, <1>2, <1>7 DEF Get, Quiet
  <2>2. "fail" \in Pcs /\ "fail" \notin CreatePcs \cup StartPcs \cup {"idle", "remove"}
    BY DEF Pcs, CreatePcs, StartPcs, EndPcs
  <2> QED
    BY <1>1, <1>6, <2>1, <2>2, FoundQuiet
<1>4. CASE state.status = "absent"
  <2>1. \A c \in Procs : ~Alive(c)'
    BY <1>2, <1>4 DEF FoundInv, LcKnows
  <2>2. view' = view /\ state' = state
    BY <1>4 DEF Get
  <2>3. PICK to \in {"ok", "fail"} : pc' = [pc EXCEPT ![p] = to]
    BY <1>4 DEF Get
  <2>4. to \in Pcs /\ to \notin CreatePcs \cup StartPcs \cup {"idle", "remove"}
    BY DEF Pcs, CreatePcs, StartPcs, EndPcs
  <2> QED
    BY <1>1, <1>5, <2>1, <2>2, <2>3, <2>4, CommandStep
<1> QED
  BY <1>3, <1>4, <1>7

LEMMA FoundStart ==
    ASSUME FoundInv, TypeOK', NEW p \in Procs, StartStep(p) \/ (SaveOpen(p) /\ pc[p] = "openrunning")
    PROVE  FoundInv'
<1> USE DEF Goto
<1>1. pc[p] \in StartPcs
  BY DEF StartStep, StartOpen, StartExec, StartAwait, StartSave, StartPoststart, StartClose, StartPcs
<1>2. Active(p) /\ cmd[p] # "create" /\ cmd[p] = "start"
  BY <1>1 DEF FoundInv, PcOK, Active, StartPcs, EndPcs
<1>3. mon' = mon => \A c \in Procs : Alive(c)' => Alive(c)
  BY DEF Alive
<1>4. \A to \in StartPcs \cup EndPcs : to \in Pcs /\ to \notin CreatePcs \cup {"idle", "remove"}
  BY DEF Pcs, StartPcs, CreatePcs, EndPcs
<1>5. ASSUME NEW to \in StartPcs \cup EndPcs, Quiet(p, to), StaysInterrupted(p, to) PROVE FoundInv'
  BY <1>1, <1>2, <1>4, <1>5, FoundQuiet
<1>6. CASE StartExec(p)
  <2>1. UNCHANGED <<cmd, view, dir, state, lc>>
    BY <1>6 DEF StartExec, cliVars, diskVars
  <2>2. \A c \in Procs : Alive(c)' => Alive(c)
    <3>1. CASE Process(lc) = "blocked" /\ mon' = [mon EXCEPT ![lc] = "boot"]
      <4>1. lc \in Procs /\ mon[lc] = "blocked"
        BY <3>1, ProcessIsProc DEF FoundInv, TypeOK, Process
      <4> QED
        BY <3>1, <4>1 DEF Alive, AliveMons, FoundInv, TypeOK
    <3> QED
      BY <1>3, <1>6, <3>1 DEF StartExec, MonGoto
  <2>3. Quiet(p, "await") \/ Quiet(p, "closefail")
    BY <1>6, <2>1, <2>2 DEF StartExec, Quiet
  <2>4. \A to : StaysInterrupted(p, to)
    BY <1>6 DEF StartExec, StaysInterrupted
  <2> QED
    BY <1>5, <2>3, <2>4 DEF StartPcs
<1>7. CASE StartSave(p)
  <2>0. pc[p] = "saverunning" /\ UNCHANGED <<cmd, view, dir, lc>> /\ mon' = mon
    BY <1>7 DEF StartSave, SaveWrite, cliVars, monVars
  <2>1. \/ /\ pc' = [pc EXCEPT ![p] = "poststart"]
           /\ state' = IF dir THEN [status |-> "running", pid |-> view[p].pid] ELSE state
        \/ pc' = [pc EXCEPT ![p] = "closefail"] /\ state' = state
    BY <1>7, <2>0 DEF StartSave, SaveWrite, Unsaved
  <2>2. \A c \in Procs : Alive(c)' => Alive(c)
    BY <1>3, <2>0
  <2>3. CASE pc' = [pc EXCEPT ![p] = "closefail"] /\ state' = state
    <3>1. Quiet(p, "closefail") /\ StaysInterrupted(p, "closefail") /\ "closefail" \in StartPcs
      BY <2>0, <2>2, <2>3 DEF Quiet, StaysInterrupted, StartPcs
    <3> QED
      BY <1>5, <3>1
  <2>4. CASE /\ pc' = [pc EXCEPT ![p] = "poststart"]
             /\ state' = IF dir THEN [status |-> "running", pid |-> view[p].pid] ELSE state
    <3>1. \A c \in Procs : Alive(c)' =>
              /\ Alive(c) /\ lc' = lc /\ dir' /\ state'.status # "absent"
              /\ pc[p] \in StartPcs /\ state'.pid = view[p].pid
      BY <1>1, <2>0, <2>2, <2>4 DEF FoundInv, LcKnows
    <3>2. "poststart" \in Pcs /\ "poststart" \notin CreatePcs \cup {"idle", "remove"}
      BY <1>4 DEF StartPcs
    <3> QED
      BY <1>1, <1>2, <2>0, <2>4, <3>1, <3>2, CommandStep
  <2> QED
    BY <2>1, <2>3, <2>4
<1>8. CASE StartOpen(p) \/ StartAwait(p) \/ StartPoststart(p) \/ StartClose(p)
  <2>1. UNCHANGED <<cmd, view, dir, state, lc>> /\ mon' = mon
    BY <1>8 DEF StartOpen, StartAwait, StartPoststart, StartClose, cliVars, diskVars, monVars
  <2>2. PICK to \in StartPcs \cup EndPcs : pc' = [pc EXCEPT ![p] = to] /\ StaysInterrupted(p, to)
    BY <1>8 DEF StartOpen, StartAwait, StartPoststart, StartClose, StartPcs, EndPcs, StaysInterrupted
  <2> QED
    BY <1>3, <1>5, <2>1, <2>2 DEF Quiet
<1>9. CASE SaveOpen(p) /\ pc[p] = "openrunning"
  <2>0. UNCHANGED <<cmd, view, dir, lc>> /\ mon' = mon
    BY <1>9, SaveOpenIs
  <2>1. \A c \in Procs : Alive(c)' => Alive(c)
    BY <1>3, <2>0
  <2>2. CASE pc' = [pc EXCEPT ![p] = "closefail"] /\ state' = state
    <3>1. Quiet(p, "closefail") /\ StaysInterrupted(p, "closefail") /\ "closefail" \in StartPcs
      BY <2>0, <2>1, <2>2 DEF Quiet, StaysInterrupted, StartPcs
    <3> QED
      BY <1>5, <3>1
  <2>3. CASE dir /\ state' = Torn /\ pc' = [pc EXCEPT ![p] = "saverunning"]
    <3>1. \A c \in Procs : Alive(c)' =>
              /\ Alive(c) /\ lc' = lc /\ dir' /\ state'.status # "absent"
              /\ pc[p] \in StartPcs /\ state' = Torn
      BY <1>1, <2>0, <2>1, <2>3 DEF Torn
    <3>2. "saverunning" \in Pcs /\ "saverunning" \notin CreatePcs \cup {"idle", "remove"}
      BY <1>4 DEF StartPcs
    <3> QED
      BY <1>1, <1>2, <2>0, <2>3, <3>1, <3>2, CommandStep
  <2> QED
    BY <1>9, <2>2, <2>3, SaveOpenIs
<1> QED
  BY <1>6, <1>7, <1>8, <1>9 DEF StartStep

LEMMA FoundDelete ==
    ASSUME FoundInv, TypeOK', NEW p \in Procs, KillSignal(p) \/ DeleteStep(p)
    PROVE  FoundInv'
<1> USE DEF Goto
<1>1. pc[p] \in {"signal"} \cup DeletePcs
  BY DEF KillSignal, DeleteStep, DeleteKill, DeleteReap, DeleteCheck, DeleteDestroy, DeleteRemove,
         DeletePcs
<1>2. Active(p) /\ cmd[p] # "create"
  BY <1>1 DEF FoundInv, PcOK, Active, DeletePcs, EndPcs
<1>3. \A to \in DeletePcs \cup EndPcs : to \in Pcs /\ to \notin CreatePcs \cup StartPcs \cup {"idle"}
  BY DEF Pcs, DeletePcs, StartPcs, CreatePcs, EndPcs
<1>10. pc[p] \notin StartPcs /\ \A to : StaysInterrupted(p, to)
  BY <1>1 DEF StaysInterrupted, StartPcs, DeletePcs
<1>4. ASSUME NEW to \in DeletePcs \cup EndPcs, to # "remove", Quiet(p, to) PROVE FoundInv'
  BY <1>2, <1>3, <1>4, <1>10, FoundQuiet
<1>5. mon' = mon => \A c \in Procs : Alive(c)' => Alive(c)
  BY DEF Alive
<1>6. CASE KillSignal(p) \/ DeleteKill(p)
  <2>1. UNCHANGED <<cmd, view, dir, state, lc>>
    BY <1>6 DEF KillSignal, DeleteKill, cliVars, diskVars
  <2>2. mon' = mon \/ mon' = [mon EXCEPT ![view[p].pid] = "zombie"]
    BY <1>6 DEF KillSignal, DeleteKill, MonGoto
  <2>3. \A c \in Procs : Alive(c)' => Alive(c)
    BY <2>2 DEF Alive, AliveMons, SetupMons, FoundInv, TypeOK
  <2>4. \E to \in {"ok", "fail", "reap", "check"} : pc' = [pc EXCEPT ![p] = to]
    BY <1>6 DEF KillSignal, DeleteKill
  <2> QED
    BY <1>4, <2>1, <2>3, <2>4 DEF Quiet, DeletePcs, EndPcs
<1>7. CASE DeleteReap(p) \/ DeleteCheck(p)
  <2>1. UNCHANGED <<cmd, view, dir, state, lc, mon>>
    BY <1>7 DEF DeleteReap, DeleteCheck, cliVars, diskVars, monVars
  <2>2. \E to \in {"fail", "check", "destroy"} : pc' = [pc EXCEPT ![p] = to]
    BY <1>7 DEF DeleteReap, DeleteCheck
  <2> QED
    BY <1>4, <1>5, <2>1, <2>2 DEF Quiet, DeletePcs, EndPcs
<1>8. CASE DeleteDestroy(p)
  <2>1. UNCHANGED <<cmd, view, dir, state>>
    BY <1>8 DEF DeleteDestroy, cliVars
  <2>2. lc \in OptProc
    BY DEF FoundInv, TypeOK
  <2>3. \A c \in Procs : Alive(c) => c = lc
    BY DEF FoundInv, LcKnows
  <2>4. CASE Process(lc) = "none"
    <3>1. \A c \in Procs : ~Alive(c)'
      BY <1>5, <1>8, <2>3, <2>4, MonitorInitAssumption
      DEF DeleteDestroy, Process, Alive, AliveMons, SetupMons
    <3>2. pc' = [pc EXCEPT ![p] = "remove"]
      BY <1>8, <2>4 DEF DeleteDestroy
    <3> QED
      BY <1>2, <1>3, <1>10, <2>1, <3>1, <3>2, CommandStep DEF DeletePcs
  <2>5. CASE Process(lc) # "none"
    <3>1. lc \in Procs /\ Process(lc) = mon[lc]
      BY <2>2, <2>5, ProcessIsProc DEF Process
    <3>2. mon' = [mon EXCEPT ![lc] = IF @ = "blocked" THEN "zombie" ELSE @]
      BY <1>8, <2>5 DEF DeleteDestroy
    <3>3. \A c \in Procs : Alive(c)' => Alive(c)
      BY <3>1, <3>2 DEF Alive, AliveMons, SetupMons, FoundInv, TypeOK
    <3>4. CASE Process(lc) \in {"blocked", "zombie", "dead"} /\ pc' = [pc EXCEPT ![p] = "remove"]
      <4>1. mon'[lc] \notin AliveMons
        BY <3>1, <3>2, <3>4 DEF AliveMons, SetupMons, FoundInv, TypeOK
      <4>2. \A c \in Procs : ~Alive(c)'
        BY <2>3, <3>3, <4>1 DEF Alive
      <4> QED
        BY <1>2, <1>3, <1>10, <2>1, <3>4, <4>2, CommandStep DEF DeletePcs
    <3>5. CASE lc' = lc /\ pc' = [pc EXCEPT ![p] = "fail"]
      BY <1>4, <2>1, <3>3, <3>5 DEF Quiet, EndPcs
    <3> QED
      BY <1>8, <2>5, <3>4, <3>5 DEF DeleteDestroy
  <2> QED
    BY <2>4, <2>5
<1>9. CASE DeleteRemove(p)
  <2>1. \A c \in Procs : ~Alive(c)'
    BY <1>5, <1>9 DEF DeleteRemove, FoundInv, RemoveAfterStop, monVars
  <2>2. UNCHANGED <<cmd, view>>
    BY <1>9 DEF DeleteRemove, cliVars
  <2>3. PICK to \in {"ok", "fail"} : pc' = [pc EXCEPT ![p] = to]
    BY <1>9 DEF DeleteRemove
  <2> QED
    BY <1>2, <1>3, <1>10, <2>1, <2>2, <2>3, CommandStep DEF EndPcs
<1> QED
  BY <1>6, <1>7, <1>8, <1>9 DEF DeleteStep

\* A killed invocation: a create leaves its init process to libcontainer.
LEMMA FoundCliDies ==
    ASSUME FoundInv, TypeOK', NEW p \in Procs, CliDies(p)
    PROVE  FoundInv'
<1>1. /\ Active(p) /\ pc' = [pc EXCEPT ![p] = "dead"]
      /\ UNCHANGED <<cmd, view, dir, state, lc, mon>>
  BY DEF CliDies, Goto, cliVars, diskVars, monVars
<1>2. "dead" \in Pcs /\ "dead" \in EndPcs /\ "dead" \notin CreatePcs \cup StartPcs
  BY DEF Pcs, EndPcs, CreatePcs, StartPcs
<1>3. \A c \in Procs : Alive(c)' => Alive(c)
  BY <1>1 DEF Alive
<1>4. CASE cmd[p] # "create"
  <2>1. StaysInterrupted(p, "dead")
    BY DEF StaysInterrupted
  <2> QED
    BY <1>1, <1>2, <1>3, <1>4, <2>1, FoundQuiet DEF Quiet
<1>5. CASE cmd[p] = "create"
  <2>1. \A c \in Procs : Alive(c) => lc = c /\ dir /\ state.status # "absent"
    BY DEF FoundInv, LcKnows
  <2>2. pc[p] \in CreatePcs
    BY <1>1, <1>5 DEF FoundInv, TypeOK, PcOK, Active, Pcs
  <2>3. \A c \in Procs : Alive(c) => c = p
    <3> SUFFICES ASSUME NEW c \in Procs, Alive(c) PROVE c = p
      OBVIOUS
    <3>1. pc[p] \in InitPcs
      BY <2>2 DEF FoundInv, CreateOwns
    <3> QED
      BY <2>1, <3>1 DEF FoundInv, CreateOwns, InitPcs, SpawnPcs
  <2>4. \A c \in Procs : Alive(c)' => c = p /\ lc' = p /\ dir' /\ state'.status # "absent"
    BY <1>1, <1>3, <2>1, <2>3
  <2>5. "dead" \in CreatePcs \cup EndPcs /\ "dead" \notin SpawnPcs
    BY <1>2 DEF SpawnPcs
  <2> QED
    BY <1>1, <1>2, <1>5, <2>4, <2>5, CreateMoves
<1> QED
  BY <1>4, <1>5

LEMMA FoundStep == FoundInv /\ [Next]_vars => FoundInv'
<1> SUFFICES ASSUME FoundInv, [Next]_vars PROVE FoundInv'
  OBVIOUS
<1>0. TypeOK'
  BY TypeStep DEF FoundInv
<1>1. CASE UNCHANGED vars
  BY <1>0, <1>1, QuietStep DEF vars, cliVars, diskVars, monVars, Alive
<1>2. ASSUME NEW p \in Procs, MonStep(p) PROVE FoundInv'
  <2>1. UNCHANGED <<cmd, pc, view, dir, state, lc>>
    BY <1>2 DEF MonStep, MonBoot, MonSetup, MonPreStart, MonReport, MonExec, MonExit, cliVars, diskVars
  <2>2. mon[p] \in AliveMons
    BY <1>2 DEF MonStep, MonBoot, MonSetup, MonPreStart, MonReport, MonExec, MonExit,
                AliveMons, SetupMons
  <2>3. \A c \in Procs : c # p => mon'[c] = mon[c]
    BY <1>2 DEF MonStep, MonBoot, MonSetup, MonPreStart, MonReport, MonExec, MonExit, MonFails,
                MonGoto, FoundInv, TypeOK
  <2> QED
    BY <1>0, <2>1, <2>2, <2>3, QuietStep DEF Alive
<1>3. ASSUME NEW p \in Procs, MonitorEnds(p) \/ Reap(p) \/ MonDies(p) PROVE FoundInv'
  <2>1. UNCHANGED <<cmd, pc, view, dir, state, lc>>
    BY <1>3 DEF MonitorEnds, Reap, MonDies, cliVars, diskVars
  <2>2. \A c \in Procs : Alive(c)' => Alive(c)
    BY <1>3 DEF MonitorEnds, Reap, MonDies, MonGoto, Alive, AliveMons, SetupMons, FoundInv, TypeOK
  <2> QED
    BY <1>0, <2>1, <2>2, QuietStep
<1> QED
  BY <1>0, <1>1, <1>2, <1>3, FoundBegin, FoundCreate, FoundGet, FoundStart, FoundDelete, FoundCliDies
  DEF Next, CliStep

\* Whatever fails and whoever is killed during create, start, kill and delete,
\* libcontainer knows the live init process, and state.json names the one of a
\* create that succeeded (libcontainerCreate, destroyLibcontainer), unless a start
\* of that container was interrupted between the truncation of state.json and its
\* write (saveContainerState).
THEOREM InitAlwaysFound == Spec => []InitIsFound
<1>1. FoundInv => InitIsFound
  BY DEF FoundInv, InitIsFound, LcKnows, PidKnown, Named
<1> QED
  BY <1>1, FoundInit, FoundStep, PTL DEF Spec

LEMMA RemovalStep == FoundInv /\ [Next]_vars => (dir /\ ~dir' => \A c \in Procs : ~Alive(c))
<1> SUFFICES ASSUME FoundInv, [Next]_vars, dir, ~dir' PROVE \A c \in Procs : ~Alive(c)
  OBVIOUS
<1>1. ASSUME NEW p \in Procs, CreatePrepare(p) PROVE \A c \in Procs : ~Alive(c)
  BY <1>1 DEF CreatePrepare, FoundInv, CreateOwns, CreatePcs, InitPcs
<1>2. ASSUME NEW p \in Procs, Get(p) PROVE \A c \in Procs : ~Alive(c)
  BY <1>2 DEF Get, FoundInv, LcKnows
<1>3. ASSUME NEW p \in Procs, DeleteRemove(p) PROVE \A c \in Procs : ~Alive(c)
  BY <1>3 DEF DeleteRemove, FoundInv, RemoveAfterStop
<1>4. \E p \in Procs : CreatePrepare(p) \/ Get(p) \/ DeleteRemove(p)
  <2>1. Next
    BY DEF vars, diskVars
  <2>2. ASSUME NEW p \in Procs, CreateStep(p) PROVE CreatePrepare(p)
    BY <2>2 DEF CreateStep, InitialSave, SaveWrite, LcCreate, CreateReadyPipe, CreateSpawn, CreateSave, CreateKillInit,
                CreateDestroy, diskVars
  <2>3. ASSUME NEW p \in Procs, StartStep(p) PROVE FALSE
    BY <2>3 DEF StartStep, StartOpen, StartExec, StartAwait, StartSave, SaveWrite, StartPoststart, StartClose,
                diskVars
  <2>4. ASSUME NEW p \in Procs, DeleteStep(p) PROVE DeleteRemove(p)
    BY <2>4 DEF DeleteStep, DeleteKill, DeleteReap, DeleteCheck, DeleteDestroy, diskVars
  <2>5. ASSUME NEW p \in Procs, MonStep(p) PROVE FALSE
    BY <2>5 DEF MonStep, MonBoot, MonSetup, MonPreStart, MonReport, MonExec, MonExit, diskVars
  <2>6. ASSUME NEW p \in Procs,
               \/ \E c \in Commands : Begin(p, c)
               \/ KillSignal(p) \/ MonitorEnds(p) \/ Reap(p) \/ MonDies(p) \/ CliDies(p)
        PROVE  FALSE
    BY <2>6 DEF Begin, KillSignal, MonitorEnds, Reap, MonDies, CliDies, diskVars
  <2>7. ASSUME NEW p \in Procs, SaveOpen(p) PROVE FALSE
    BY <2>7 DEF SaveOpen
  <2> QED
    BY <2>1, <2>2, <2>3, <2>4, <2>5, <2>6, <2>7, Zenon DEF Next, CliStep
<1> QED
  BY <1>1, <1>2, <1>3, <1>4

\* No command removes the base directory (Delete, newUnikontainer) of a container
\* whose init process or monitor is alive, for any number of overlapping commands.
THEOREM RemovedOnlyStopped == Spec => DeleteOnlyStopped
<1>1. FoundInv /\ [Next]_vars => [dir /\ ~dir' => \A c \in Procs : ~Alive(c)]_vars
  BY RemovalStep
<1> QED
  BY <1>1, FoundInit, FoundStep, PTL DEF Spec, DeleteOnlyStopped

-----------------------------------------------------------------------------
(* The report: RunningMeansReported, StartedOnce and ReportArrives *)

\* A process that a create has spawned.
SpawnedByCreate ==
    \A c \in Procs : mon[c] # "none" =>
        cmd[c] = "create" /\ pc[c] \in {"opencreated", "save", "killinit", "lcdestroy"} \cup EndPcs

\* A monitor reports once, at the end of its setup, and the byte in its FIFO is
\* its report.
Before == {"none", "blocked"} \cup SetupMons

ReportsOnce ==
    \A c \in Procs :
        /\ mon[c] \in Before => said[c] = "nothing"
        /\ buf[c] # "empty" => buf[c] = said[c]

\* A create makes the FIFO before it records the pid.
CreateMakesFifo ==
    \A c \in Procs :
        /\ pc[c] \in CreatePcs \ {"prepare", "opencreating"} => state.pid = NoProc
        /\ pc[c] \in {"spawn", "opencreated", "save"} => fifo = c

\* The FIFO in the base directory belongs to the container on record, for every
\* start under way.
FifoOfState ==
    fifo # NoProc =>
        /\ state.pid \in {NoProc, fifo}
        /\ \A s \in Procs : pc[s] \in StartPcs => view[s].pid \in {NoProc, fifo}

\* The FIFO that a start has open is the one of the container it read.
ReadsItsFifo ==
    \A s \in Procs :
        /\ pc[s] \in StartPcs => cmd[s] = "start"
        /\ pc[s] \in {"signal"} \cup DeletePcs => cmd[s] # "start"
        /\ rd[s] # NoProc <=> pc[s] \in StartPcs \ {"open"}
        /\ rd[s] # NoProc => view[s].pid \in {NoProc, rd[s]}

\* Every start that meets a live init process has its FIFO.
LiveFifo ==
    \A c \in Procs : Alive(c) => fifo \in {NoProc, c} /\ \A s \in Procs : rd[s] \in {NoProc, c}

\* A start past the exec fifo has released the init process, and is the only one.
PastPcs == {"await", "openrunning", "saverunning", "poststart", "closeok", "ok"}
Past(s) == cmd[s] = "start" /\ pc[s] \in PastPcs

Released ==
    \A s \in Procs : Past(s) =>
        /\ rd[s] # NoProc => mon[rd[s]] \notin {"none", "blocked"}
        /\ view[s].pid # NoProc => mon[view[s].pid] \notin {"none", "blocked"}

Same(s, t) ==
    \/ rd[s] = rd[t] /\ rd[s] # NoProc
    \/ view[s].pid = view[t].pid /\ view[s].pid # NoProc

OnePast == \A s, t \in Procs : Past(s) /\ Past(t) /\ Same(s, t) => s = t

\* A start goes on after the report of the monitor whose FIFO it has open.
GoesOnAfterOk ==
    \A s \in Procs : pc[s] \in {"openrunning", "saverunning", "poststart", "closeok"} => said[rd[s]] = "ok"

ReportInv ==
    /\ FoundInv
    /\ SpawnedByCreate
    /\ ReportsOnce
    /\ CreateMakesFifo
    /\ FifoOfState
    /\ ReadsItsFifo
    /\ LiveFifo
    /\ Released
    /\ OnePast
    /\ GoesOnAfterOk
    /\ RunningMeansReported
    /\ ReportArrives

\* Where the truncation of state.json takes a create or a start.
LEMMA SaveOpenMoves ==
    ASSUME TypeOK, NEW p \in Procs, SaveOpen(p)
    PROVE  /\ \/ pc[p] = "opencreating" /\ pc'[p] \in {"savecreating", "fail"}
              \/ pc[p] = "opencreated" /\ pc'[p] \in {"save", "killinit"}
              \/ pc[p] = "openrunning" /\ pc'[p] \in {"saverunning", "closefail"}
           /\ \A q \in Procs : q # p => pc'[q] = pc[q]
           /\ state' \in {Torn, state}
           /\ state' = Torn \/ pc'[p] # "savecreating"
           /\ UNCHANGED <<cmd, view, dir, lc, fifo, rd, buf, mon, said>>
<1>1. PICK to \in {"savecreating", "fail", "save", "killinit", "saverunning", "closefail"} :
          /\ pc' = [pc EXCEPT ![p] = to]
          /\ \/ pc[p] = "opencreating" /\ to \in {"savecreating", "fail"}
             \/ pc[p] = "opencreated" /\ to \in {"save", "killinit"}
             \/ pc[p] = "openrunning" /\ to \in {"saverunning", "closefail"}
          /\ state' \in {Torn, state}
          /\ state' = Torn \/ to # "savecreating"
  BY SaveOpenIs
<1>2. pc'[p] = to /\ \A q \in Procs : q # p => pc'[q] = pc[q]
  BY <1>1 DEF TypeOK
<1> QED
  BY <1>1, <1>2, SaveOpenIs

\* Who moves: a process stays, or it begins, takes a step of its command or dies.
LEMMA WhoMoves ==
    ASSUME TypeOK, [Next]_vars, NEW q \in Procs
    PROVE  \/ cmd'[q] = cmd[q] /\ pc'[q] = pc[q] /\ view'[q] = view[q] /\ rd'[q] = rd[q]
           \/ \E c \in Commands : Begin(q, c)
           \/ CliDies(q)
           \/ CliStep(q)
<1> DEFINE Stays == cmd'[q] = cmd[q] /\ pc'[q] = pc[q] /\ view'[q] = view[q] /\ rd'[q] = rd[q]
<1> USE DEF TypeOK, Goto, cliVars
<1>1. ASSUME NEW p \in Procs, NEW c \in Commands, Begin(p, c) PROVE Stays \/ Begin(q, c)
  BY <1>1 DEF Begin
<1>2. ASSUME NEW p \in Procs, CreateStep(p) PROVE Stays \/ CliStep(q)
  BY <1>2 DEF CreateStep, CreatePrepare, InitialSave, SaveWrite, LcCreate, CreateReadyPipe, CreateSpawn, CreateSave, CreateKillInit,
              CreateDestroy, CliStep
<1>3. ASSUME NEW p \in Procs, Get(p) \/ KillSignal(p) PROVE Stays \/ CliStep(q)
  BY <1>3 DEF Get, KillSignal, CliStep
<1>4. ASSUME NEW p \in Procs, StartStep(p) PROVE Stays \/ CliStep(q)
  BY <1>4 DEF StartStep, StartOpen, StartExec, StartAwait, StartSave, SaveWrite, StartPoststart, StartClose, CliStep
<1>5. ASSUME NEW p \in Procs, DeleteStep(p) PROVE Stays \/ CliStep(q)
  BY <1>5 DEF DeleteStep, DeleteKill, DeleteReap, DeleteCheck, DeleteDestroy, DeleteRemove, CliStep
<1>6. ASSUME NEW p \in Procs, MonStep(p) PROVE Stays
  BY <1>6 DEF MonStep, MonBoot, MonSetup, MonPreStart, MonReport, MonExec, MonExit
<1>7. ASSUME NEW p \in Procs, MonitorEnds(p) \/ Reap(p) \/ MonDies(p) PROVE Stays
  BY <1>7 DEF MonitorEnds, Reap, MonDies
<1>8. ASSUME NEW p \in Procs, CliDies(p) PROVE Stays \/ CliDies(q)
  BY <1>8 DEF CliDies
<1>9. UNCHANGED vars => Stays
  BY DEF vars
<1>11. ASSUME NEW p \in Procs, SaveOpen(p) PROVE Stays \/ CliStep(q)
  BY <1>11, SaveOpenMoves DEF CliStep
<1>10. ASSUME NEW p \in Procs, CliStep(p) PROVE Stays \/ CliStep(q)
  BY <1>2, <1>3, <1>4, <1>5, <1>10, <1>11, Zenon DEF CliStep
<1> QED
  BY <1>1, <1>6, <1>7, <1>8, <1>9, <1>10, Zenon DEF Next

\* How an init process moves: spawned once, released by the start that meets it
\* blocked, then its own steps, until it exits or is killed.
LEMMA MonMoves ==
    ASSUME TypeOK, [Next]_vars, NEW c \in Procs
    PROVE  \/ mon'[c] = mon[c]
           \/ CreateSpawn(c)
           \/ mon[c] = "blocked" /\ mon'[c] = "boot" /\ lc = c
           \/ MonStep(c)
           \/ mon'[c] \in {"zombie", "dead"} /\ (mon[c] # "none" \/ CreateKillInit(c))
<1> USE MonitorInitAssumption DEF TypeOK, MonGoto, monVars
<1>1. ASSUME NEW p \in Procs, CreateStep(p), ~CreateSpawn(p), ~CreateKillInit(p) PROVE mon' = mon
  BY <1>1 DEF CreateStep, CreatePrepare, InitialSave, SaveWrite, LcCreate, CreateReadyPipe, CreateSave, CreateDestroy
<1>2. ASSUME NEW p \in Procs, CreateSpawn(p) PROVE mon'[c] = mon[c] \/ CreateSpawn(c)
  BY <1>2 DEF CreateSpawn
<1>3. ASSUME NEW p \in Procs, CreateKillInit(p)
      PROVE  mon'[c] = mon[c] \/ (CreateKillInit(c) /\ mon'[c] = "dead")
  BY <1>3 DEF CreateKillInit
<1>4. ASSUME NEW p \in Procs, StartExec(p)
      PROVE  mon'[c] = mon[c] \/ (mon[c] = "blocked" /\ mon'[c] = "boot" /\ lc = c)
  BY <1>4 DEF StartExec, Process
<1>5. ASSUME NEW p \in Procs, StartStep(p), ~StartExec(p) PROVE mon' = mon
  BY <1>5 DEF StartStep, StartOpen, StartAwait, StartSave, SaveWrite, StartPoststart, StartClose
<1>6. ASSUME NEW p \in Procs, KillSignal(p) \/ DeleteKill(p)
      PROVE  mon'[c] = mon[c] \/ (mon[c] # "none" /\ mon'[c] = "zombie")
  BY <1>6 DEF KillSignal, DeleteKill, Process, AliveMons, SetupMons
<1>7. ASSUME NEW p \in Procs, DeleteDestroy(p)
      PROVE  mon'[c] = mon[c] \/ (mon[c] # "none" /\ mon'[c] = "zombie")
  BY <1>7 DEF DeleteDestroy
<1>8. ASSUME NEW p \in Procs,
             Get(p) \/ SaveOpen(p) \/ DeleteReap(p) \/ DeleteCheck(p) \/ DeleteRemove(p)
      PROVE  mon' = mon
  BY <1>8 DEF Get, SaveOpen, DeleteReap, DeleteCheck, DeleteRemove
<1>9. ASSUME NEW p \in Procs, MonStep(p) PROVE mon'[c] = mon[c] \/ MonStep(c)
  BY <1>9 DEF MonStep, MonBoot, MonSetup, MonPreStart, MonReport, MonExec, MonExit, MonFails
<1>10. ASSUME NEW p \in Procs, MonitorEnds(p) \/ Reap(p) \/ MonDies(p)
       PROVE  mon'[c] = mon[c] \/ (mon[c] # "none" /\ mon'[c] \in {"zombie", "dead"})
  BY <1>10 DEF MonitorEnds, Reap, MonDies, Alive, AliveMons, SetupMons
<1>11. ASSUME NEW p \in Procs, CliDies(p) \/ \E k \in Commands : Begin(p, k) PROVE mon' = mon
  BY <1>11 DEF CliDies, Begin
<1>12. UNCHANGED vars => mon' = mon
  BY DEF vars
<1>13. ASSUME NEW p \in Procs, CliStep(p)
       PROVE  \/ mon'[c] = mon[c] \/ CreateSpawn(c)
              \/ mon[c] = "blocked" /\ mon'[c] = "boot" /\ lc = c
              \/ mon'[c] \in {"zombie", "dead"} /\ (mon[c] # "none" \/ CreateKillInit(c))
  BY <1>1, <1>2, <1>3, <1>4, <1>5, <1>6, <1>7, <1>8, <1>13 DEF CliStep, DeleteStep
<1> QED
  BY <1>9, <1>10, <1>11, <1>12, <1>13, Zenon DEF Next

\* A monitor speaks at the end of its setup; starts take the byte from the FIFO
\* that they have open.
LEMMA Speaks ==
    ASSUME TypeOK, [Next]_vars, NEW c \in Procs
    PROVE  \/ said'[c] = said[c] /\ buf'[c] = buf[c]
           \/ /\ mon[c] \in SetupMons /\ mon'[c] \in {"ready", "failed"}
              /\ said'[c] \in {"ok", "err"} /\ buf'[c] = said'[c]
           \/ \E s \in Procs : StartOpen(s) /\ fifo = c /\ said' = said /\ buf'[c] = Found(c)
           \/ \E s \in Procs : StartAwait(s) /\ rd[s] = c /\ said' = said /\ buf'[c] = "empty"
<1> USE MonitorInitAssumption DEF TypeOK, monVars
<1>1. ASSUME NEW p \in Procs, CreateStep(p) PROVE UNCHANGED <<said, buf>>
  BY <1>1 DEF CreateStep, CreatePrepare, InitialSave, SaveWrite, LcCreate, CreateReadyPipe, CreateSpawn, CreateSave, CreateKillInit,
              CreateDestroy
<1>2. ASSUME NEW p \in Procs, Get(p) \/ SaveOpen(p) \/ KillSignal(p) PROVE UNCHANGED <<said, buf>>
  BY <1>2 DEF Get, SaveOpen, KillSignal
<1>3. ASSUME NEW p \in Procs, DeleteStep(p) PROVE UNCHANGED <<said, buf>>
  BY <1>3 DEF DeleteStep, DeleteKill, DeleteReap, DeleteCheck, DeleteDestroy, DeleteRemove
<1>4. ASSUME NEW p \in Procs, StartStep(p), ~StartOpen(p), ~StartAwait(p) PROVE UNCHANGED <<said, buf>>
  BY <1>4 DEF StartStep, StartExec, StartSave, SaveWrite, StartPoststart, StartClose
<1>5. ASSUME NEW p \in Procs, StartOpen(p)
      PROVE  said' = said /\ (buf'[c] = buf[c] \/ (fifo = c /\ buf'[c] = Found(c)))
  BY <1>5 DEF StartOpen
<1>6. ASSUME NEW p \in Procs, StartAwait(p)
      PROVE  said' = said /\ (buf'[c] = buf[c] \/ (rd[p] = c /\ buf'[c] = "empty"))
  BY <1>6 DEF StartAwait
<1>7. ASSUME NEW p \in Procs, MonStep(p)
      PROVE  \/ said'[c] = said[c] /\ buf'[c] = buf[c]
             \/ /\ mon[c] \in SetupMons /\ mon'[c] \in {"ready", "failed"}
                /\ said'[c] \in {"ok", "err"} /\ buf'[c] = said'[c]
  BY <1>7 DEF MonStep, MonBoot, MonSetup, MonPreStart, MonReport, MonExec, MonExit, MonFails, MonGoto,
              SetupMons
<1>8. ASSUME NEW p \in Procs, MonitorEnds(p) \/ Reap(p) \/ MonDies(p) PROVE UNCHANGED <<said, buf>>
  BY <1>8 DEF MonitorEnds, Reap, MonDies
<1>9. ASSUME NEW p \in Procs, CliDies(p) \/ \E k \in Commands : Begin(p, k) PROVE UNCHANGED <<said, buf>>
  BY <1>9 DEF CliDies, Begin
<1>10. UNCHANGED vars => UNCHANGED <<said, buf>>
  BY DEF vars
<1>11. ASSUME NEW p \in Procs, CliStep(p)
       PROVE  \/ said'[c] = said[c] /\ buf'[c] = buf[c]
              \/ StartOpen(p) /\ fifo = c /\ said' = said /\ buf'[c] = Found(c)
              \/ StartAwait(p) /\ rd[p] = c /\ said' = said /\ buf'[c] = "empty"
  BY <1>1, <1>2, <1>3, <1>4, <1>5, <1>6, <1>11 DEF CliStep
<1> QED
  BY <1>7, <1>8, <1>9, <1>10, <1>11 DEF Next

\* Only a create makes a FIFO, and only these steps write state.json.
LEMMA RecordMoves ==
    ASSUME [Next]_vars
    PROVE  /\ \/ fifo' \in {fifo, NoProc}
              \/ \E c \in Procs : CreateReadyPipe(c) /\ fifo' = c
           /\ \/ state' = state
              \/ state'.pid = NoProc /\ state'.status # "running"
              \/ \E c \in Procs : CreateSave(c) /\ state' = [status |-> "created", pid |-> c]
              \/ \E s \in Procs : StartSave(s) /\ state' = [status |-> "running", pid |-> view[s].pid]
           /\ UNCHANGED <<fifo, state>> \/ \E p \in Procs : CliStep(p)
<1> DEFINE Fifo == fifo' \in {fifo, NoProc}
           State == state' = state \/ (state'.pid = NoProc /\ state'.status # "running")
<1> USE DEF diskVars
<1>1. ASSUME NEW p \in Procs, CreateStep(p), ~CreateReadyPipe(p), ~CreateSave(p) PROVE Fifo /\ State
  BY <1>1 DEF CreateStep, CreatePrepare, InitialSave, SaveWrite, LcCreate, CreateSpawn, CreateKillInit, CreateDestroy
<1>2. ASSUME NEW p \in Procs, CreateReadyPipe(p) PROVE State /\ (Fifo \/ fifo' = p)
  BY <1>2 DEF CreateReadyPipe
<1>3. ASSUME NEW p \in Procs, CreateSave(p)
      PROVE  Fifo /\ (State \/ state' = [status |-> "created", pid |-> p])
  BY <1>3 DEF CreateSave, SaveWrite
<1>4. ASSUME NEW p \in Procs, StartStep(p), ~StartSave(p) PROVE Fifo /\ State
  BY <1>4 DEF StartStep, StartOpen, StartExec, StartAwait, StartPoststart, StartClose
<1>5. ASSUME NEW p \in Procs, StartSave(p)
      PROVE  Fifo /\ (State \/ state' = [status |-> "running", pid |-> view[p].pid])
  BY <1>5 DEF StartSave, SaveWrite
<1>6. ASSUME NEW p \in Procs, Get(p) \/ SaveOpen(p) \/ KillSignal(p) PROVE Fifo /\ State
  BY <1>6 DEF Get, SaveOpen, Torn, KillSignal
<1>7. ASSUME NEW p \in Procs, DeleteStep(p) PROVE Fifo /\ State
  BY <1>7 DEF DeleteStep, DeleteKill, DeleteReap, DeleteCheck, DeleteDestroy, DeleteRemove, NoState
<1>8. ASSUME NEW p \in Procs, MonStep(p) PROVE UNCHANGED <<fifo, state>>
  BY <1>8 DEF MonStep, MonBoot, MonSetup, MonPreStart, MonReport, MonExec, MonExit
<1>9. ASSUME NEW p \in Procs, MonitorEnds(p) \/ Reap(p) \/ MonDies(p) \/ CliDies(p)
      PROVE  UNCHANGED <<fifo, state>>
  BY <1>9 DEF MonitorEnds, Reap, MonDies, CliDies
<1>10. ASSUME NEW p \in Procs, NEW k \in Commands, Begin(p, k) PROVE UNCHANGED <<fifo, state>>
  BY <1>10 DEF Begin
<1>11. UNCHANGED vars => UNCHANGED <<fifo, state>>
  BY DEF vars
<1>12. ASSUME NEW p \in Procs, CliStep(p)
       PROVE  /\ Fifo \/ (CreateReadyPipe(p) /\ fifo' = p)
              /\ \/ State
                 \/ CreateSave(p) /\ state' = [status |-> "created", pid |-> p]
                 \/ StartSave(p) /\ state' = [status |-> "running", pid |-> view[p].pid]
  BY <1>1, <1>2, <1>3, <1>4, <1>5, <1>6, <1>7, <1>12 DEF CliStep
<1> QED
  BY <1>8, <1>9, <1>10, <1>11, <1>12 DEF Next

\* Where a step takes a start: it reads the state, opens the FIFO and goes on
\* with both.
LEMMA StartMoves ==
    ASSUME TypeOK, PcOK, [Next]_vars, NEW s \in Procs, pc'[s] \in StartPcs
    PROVE  \/ cmd'[s] = cmd[s] /\ pc'[s] = pc[s] /\ view'[s] = view[s] /\ rd'[s] = rd[s]
           \/ /\ pc[s] = "get" /\ pc'[s] = "open" /\ view'[s] = state /\ fifo' = fifo /\ state' = state
              /\ cmd[s] = "start" /\ cmd'[s] = "start" /\ rd'[s] = rd[s]
           \/ /\ StartStep(s) \/ SaveOpen(s)
              /\ pc[s] \in StartPcs
              /\ cmd'[s] = cmd[s] /\ view'[s] = view[s]
              /\ \/ pc[s] = "open" /\ pc'[s] = "exec" /\ fifo # NoProc /\ rd'[s] = fifo
                 \/ pc[s] # "open" /\ pc'[s] # "open" /\ rd'[s] = rd[s]
<1> USE DEF TypeOK, Goto
<1>1. ASSUME NEW c \in Commands, Begin(s, c) PROVE FALSE
  BY <1>1 DEF Begin, StartPcs
<1>2. ~CliDies(s)
  BY DEF CliDies, StartPcs
<1>3. ~CreateStep(s)
  <2>1. ~CreatePrepare(s) /\ ~LcCreate(s) /\ ~CreateReadyPipe(s)
    BY DEF CreatePrepare, LcCreate, CreateReadyPipe, StartPcs
  <2>2. ~CreateSpawn(s) /\ ~CreateKillInit(s) /\ ~CreateDestroy(s)
    BY DEF CreateSpawn, CreateKillInit, CreateDestroy, StartPcs
  <2>3. ASSUME InitialSave(s) PROVE FALSE
    <3>1. pc[s] = "savecreating" /\ (pc'[s] = "lccreate" \/ pc'[s] = Unsaved(s))
      BY <2>3 DEF InitialSave, SaveWrite
    <3>2. Unsaved(s) = "fail"
      BY <3>1 DEF Unsaved
    <3> QED
      BY <3>1, <3>2 DEF StartPcs
  <2>4. ASSUME CreateSave(s) PROVE FALSE
    <3>1. pc[s] = "save" /\ (pc'[s] = "ok" \/ pc'[s] = Unsaved(s))
      BY <2>4 DEF CreateSave, SaveWrite
    <3>2. Unsaved(s) = "killinit"
      BY <3>1 DEF Unsaved
    <3> QED
      BY <3>1, <3>2 DEF StartPcs
  <2> QED
    BY <2>1, <2>2, <2>3, <2>4 DEF CreateStep
<1>4. CASE Get(s)
  <2>1. pc[s] = "get" /\ pc'[s] = AfterGet(cmd[s]) /\ view'[s] = state /\ UNCHANGED <<fifo, state, cmd, rd>>
    BY <1>4 DEF Get, StartPcs
  <2> QED
    BY <2>1 DEF AfterGet, StartPcs
<1>5. CASE StartStep(s)
  <2>1. CASE StartOpen(s)
    BY <1>5, <2>1 DEF StartOpen, StartPcs, cliVars
  <2>2. CASE StartExec(s) \/ StartAwait(s)
    BY <1>5, <2>2 DEF StartExec, StartAwait, StartPcs, cliVars
  <2>3. CASE StartSave(s)
    <3>1. pc[s] = "saverunning" /\ UNCHANGED <<cmd, view, rd>>
          /\ (pc' = [pc EXCEPT ![s] = "poststart"] \/ pc' = [pc EXCEPT ![s] = Unsaved(s)])
      BY <2>3 DEF StartSave, SaveWrite, cliVars
    <3>2. Unsaved(s) = "closefail"
      BY <3>1 DEF Unsaved
    <3>3. pc'[s] = "poststart" \/ pc'[s] = "closefail"
      BY <3>1, <3>2
    <3> QED
      BY <1>5, <3>1, <3>3 DEF StartPcs
  <2>4. CASE StartPoststart(s) \/ StartClose(s)
    BY <1>5, <2>4 DEF StartPoststart, StartClose, StartPcs, cliVars
  <2> QED
    BY <1>5, <2>1, <2>2, <2>3, <2>4 DEF StartStep
<1>6. ~KillSignal(s) /\ ~DeleteStep(s)
  BY DEF KillSignal, DeleteStep, DeleteKill, DeleteReap, DeleteCheck, DeleteDestroy, DeleteRemove, StartPcs
<1>7. CASE SaveOpen(s)
  <2>1. pc[s] = "openrunning"
    BY <1>7, SaveOpenMoves DEF StartPcs
  <2> QED
    BY <1>7, <2>1, SaveOpenMoves DEF StartPcs
<1> QED
  BY <1>1, <1>2, <1>3, <1>4, <1>5, <1>6, <1>7, WhoMoves DEF CliStep

\* A create runs alone.
LEMMA AloneInCreate ==
    ASSUME FoundInv, NEW c \in Procs, pc[c] \in CreatePcs, NEW q \in Procs
    PROVE  /\ CliStep(q) \/ CliDies(q) => q = c
           /\ pc[q] \in {"get"} \cup StartPcs => FALSE
           /\ \A k \in Commands : ~Begin(q, k)
<1>1. Active(c) /\ cmd[c] = "create"
  BY DEF FoundInv, PcOK, Active, CreatePcs, EndPcs
<1>2. CliStep(q) => Active(q)
  BY SaveOpenIs DEF CliStep, CreateStep, CreatePrepare, InitialSave, SaveWrite, LcCreate, CreateReadyPipe, CreateSpawn, CreateSave,
         CreateKillInit, CreateDestroy, Get, StartStep, StartOpen, StartExec, StartAwait, StartSave,
         StartPoststart, StartClose, KillSignal, DeleteStep, DeleteKill, DeleteReap, DeleteCheck,
         DeleteDestroy, DeleteRemove, Active, EndPcs
<1>3. CliStep(q) \/ CliDies(q) => q = c
  BY <1>1, <1>2 DEF FoundInv, CreateAlone, CliDies
<1>4. ASSUME pc[q] \in {"get"} \cup StartPcs PROVE FALSE
  <2>1. Active(q)
    BY <1>4 DEF Active, StartPcs, EndPcs
  <2>2. q = c
    BY <1>1, <2>1 DEF FoundInv, CreateAlone
  <2> QED
    BY <1>4, <2>2 DEF CreatePcs, StartPcs
<1>5. \A k \in Commands : ~Begin(q, k)
  BY <1>1 DEF Begin
<1> QED
  BY <1>3, <1>4, <1>5

\* A process is spawned by its create, and stays its create's.
LEMMA SpawnedStep ==
    ASSUME ReportInv, [Next]_vars
    PROVE  SpawnedByCreate'
<1>0. TypeOK /\ PcOK /\ SpawnedByCreate
  BY DEF ReportInv, FoundInv
<1> DEFINE After == {"opencreated", "save", "killinit", "lcdestroy"} \cup EndPcs
<1> SUFFICES ASSUME NEW c \in Procs, mon'[c] # "none" PROVE cmd'[c] = "create" /\ pc'[c] \in After
  BY DEF SpawnedByCreate
<1> USE DEF TypeOK, Goto
<1>1. CASE CreateSpawn(c)
  BY <1>0, <1>1 DEF CreateSpawn, PcOK, CreatePcs, cliVars
<1>2. CASE CreateKillInit(c)
  BY <1>0, <1>2 DEF CreateKillInit, PcOK, CreatePcs, cliVars
<1>3. CASE mon[c] # "none"
  <2>1. cmd[c] = "create" /\ pc[c] \in After
    BY <1>0, <1>3 DEF SpawnedByCreate
  <2>2. CASE cmd'[c] = cmd[c] /\ pc'[c] = pc[c]
    BY <2>1, <2>2
  <2>3. ~\E k \in Commands : Begin(c, k)
    BY <2>1 DEF Begin, EndPcs
  <2>4. CASE CliDies(c)
    BY <1>0, <2>1, <2>4 DEF CliDies, cliVars, EndPcs
  <2>5. CASE CreateStep(c)
    BY <1>0, <2>1, <2>5 DEF CreateStep, CreatePrepare, InitialSave, SaveWrite, LcCreate, CreateReadyPipe, CreateSpawn, CreateSave,
                            CreateKillInit, CreateDestroy, Unsaved, EndPcs, cliVars
  <2>7. CASE SaveOpen(c)
    BY <1>0, <2>1, <2>7, SaveOpenMoves DEF EndPcs
  <2>6. CliStep(c) => CreateStep(c) \/ SaveOpen(c)
    BY <2>1 DEF CliStep, Get, StartStep, StartOpen, StartExec, StartAwait, StartSave, SaveWrite, StartPoststart,
                StartClose, KillSignal, DeleteStep, DeleteKill, DeleteReap, DeleteCheck, DeleteDestroy,
                DeleteRemove, EndPcs
  <2> QED
    BY <1>0, <2>2, <2>3, <2>4, <2>5, <2>6, <2>7, WhoMoves
<1>4. MonStep(c) => mon[c] # "none"
  BY DEF MonStep, MonBoot, MonSetup, MonPreStart, MonReport, MonExec, MonExit
<1> QED
  BY <1>0, <1>1, <1>2, <1>3, <1>4, MonMoves

\* What is in the FIFO is what the monitor said, once.
LEMMA ReportsOnceStep ==
    ASSUME ReportInv, [Next]_vars
    PROVE  ReportsOnce'
<1>0. TypeOK /\ SpawnedByCreate /\ ReportsOnce
  BY DEF ReportInv, FoundInv
<1> SUFFICES ASSUME NEW c \in Procs
             PROVE  /\ mon'[c] \in Before => said'[c] = "nothing"
                    /\ buf'[c] # "empty" => buf'[c] = said'[c]
  BY DEF ReportsOnce
<1>1. ASSUME mon'[c] \in Before PROVE mon[c] \in Before
  <2>1. CASE CreateSpawn(c)
    BY <1>0, <2>1 DEF CreateSpawn, SpawnedByCreate, EndPcs, Before
  <2>2. CASE MonStep(c)
    BY <1>0, <1>1, <2>2 DEF MonStep, MonBoot, MonSetup, MonPreStart, MonReport, MonExec, MonExit, MonFails,
                            MonGoto, Before, SetupMons, TypeOK
  <2>3. mon'[c] \notin {"zombie", "dead"}
    BY <1>1 DEF Before, SetupMons
  <2>4. CASE mon[c] = "blocked"
    BY <2>4 DEF Before
  <2> QED
    BY <1>0, <1>1, <2>1, <2>2, <2>3, <2>4, MonMoves
<1>2. CASE said'[c] = said[c] /\ buf'[c] \in {buf[c], "empty"}
  BY <1>0, <1>1, <1>2 DEF ReportsOnce
<1>3. CASE mon'[c] \in {"ready", "failed"} /\ buf'[c] = said'[c]
  BY <1>3 DEF Before, SetupMons
<1>4. Found(c) \in {buf[c], "empty"}
  BY DEF Found
<1> QED
  BY <1>0, <1>2, <1>3, <1>4, Speaks

\* A report of success is not taken back.
LEMMA OkStays ==
    ASSUME ReportInv, [Next]_vars, NEW c \in Procs, said[c] = "ok"
    PROVE  said'[c] = "ok"
<1>1. mon[c] \notin SetupMons
  BY DEF ReportInv, ReportsOnce, Before
<1> QED
  BY <1>1, Speaks DEF ReportInv, FoundInv

\* The FIFO and the record of a create under way.
LEMMA CreateMakesFifoStep ==
    ASSUME ReportInv, [Next]_vars
    PROVE  CreateMakesFifo'
<1>0. TypeOK /\ FoundInv /\ CreateMakesFifo
  BY DEF ReportInv, FoundInv
<1> SUFFICES ASSUME NEW c \in Procs, pc'[c] \in CreatePcs \ {"prepare", "opencreating"}
             PROVE  /\ state'.pid = NoProc
                    /\ pc'[c] \in {"spawn", "opencreated", "save"} => fifo' = c
  BY DEF CreateMakesFifo, CreatePcs
<1> USE DEF TypeOK, Goto
<1>1. CASE CreateStep(c)
  <2>1. CASE CreatePrepare(c)
    BY <1>0, <2>1 DEF CreatePrepare, CreatePcs
  <2>2. CASE LcCreate(c) \/ CreateDestroy(c)
    BY <1>0, <2>2 DEF LcCreate, CreateDestroy, CreateMakesFifo, CreatePcs
  <2>3. CASE CreateReadyPipe(c)
    BY <1>0, <2>3 DEF CreateReadyPipe, CreateMakesFifo, CreatePcs, diskVars
  <2>4. CASE CreateSpawn(c) \/ CreateKillInit(c)
    BY <1>0, <2>4 DEF CreateSpawn, CreateKillInit, CreateMakesFifo, CreatePcs, diskVars
  <2>5. CASE CreateSave(c)
    BY <1>0, <2>5 DEF CreateSave, SaveWrite, Unsaved, CreateMakesFifo, CreatePcs
  <2>6. CASE InitialSave(c)
    BY <1>0, <2>6 DEF InitialSave, SaveWrite, Unsaved, CreateMakesFifo, CreatePcs
  <2> QED
    BY <1>1, <2>1, <2>2, <2>3, <2>4, <2>5, <2>6 DEF CreateStep
<1>5. CASE SaveOpen(c)
  <2>1. /\ pc[c] = "opencreated" \/ (pc[c] = "opencreating" /\ pc'[c] = "savecreating")
        /\ fifo' = fifo /\ state' \in {Torn, state} /\ (state' = Torn \/ pc'[c] # "savecreating")
    BY <1>0, <1>5, SaveOpenMoves DEF CreatePcs
  <2>2. Torn.pid = NoProc
    BY DEF Torn
  <2>3. pc[c] = "opencreated" => state.pid = NoProc /\ fifo = c
    BY <1>0 DEF CreateMakesFifo, CreatePcs
  <2> QED
    BY <2>1, <2>2, <2>3
<1>2. CASE pc'[c] = pc[c] /\ ~CreateStep(c) /\ ~SaveOpen(c)
  <2>1. pc[c] \in CreatePcs
    BY <1>2
  <2>2. ~CliStep(c)
    BY <1>2, <2>1 DEF CliStep, Get, StartStep, StartOpen, StartExec, StartAwait, StartSave, SaveWrite, StartPoststart,
                StartClose, KillSignal, DeleteStep, DeleteKill, DeleteReap, DeleteCheck, DeleteDestroy,
                DeleteRemove, CreatePcs
  <2>3. UNCHANGED <<fifo, state>>
    BY <1>0, <2>1, <2>2, AloneInCreate, RecordMoves
  <2> QED
    BY <1>0, <1>2, <2>3 DEF CreateMakesFifo
<1>3. ASSUME CliStep(c), ~CreateStep(c), ~SaveOpen(c) PROVE FALSE
  BY <1>0, <1>3 DEF CliStep, Get, AfterGet, StartStep, StartOpen, StartExec, StartAwait, StartSave, SaveWrite, Unsaved,
              StartPoststart, StartClose, KillSignal, DeleteStep, DeleteKill, DeleteReap, DeleteCheck,
              DeleteDestroy, DeleteRemove, CreatePcs
<1>4. ~CliDies(c) /\ ~\E k \in Commands : Begin(c, k)
  BY <1>0 DEF CliDies, Begin, CreatePcs
<1> QED
  BY <1>0, <1>1, <1>2, <1>3, <1>4, <1>5, WhoMoves

\* The FIFO of the container on record.
LEMMA FifoOfStateStep ==
    ASSUME ReportInv, [Next]_vars
    PROVE  FifoOfState'
<1>0. TypeOK /\ FoundInv /\ PcOK /\ FifoOfState /\ CreateMakesFifo
  BY DEF ReportInv, FoundInv
<1> SUFFICES ASSUME fifo' # NoProc
             PROVE  /\ state'.pid \in {NoProc, fifo'}
                    /\ \A s \in Procs : pc'[s] \in StartPcs => view'[s].pid \in {NoProc, fifo'}
  BY DEF FifoOfState
<1>1. CASE fifo' = fifo
  <2>1. state'.pid \in {NoProc, fifo}
    <3>1. ASSUME NEW c \in Procs, CreateSave(c), state' = [status |-> "created", pid |-> c]
          PROVE  state'.pid = fifo
      BY <1>0, <3>1 DEF CreateSave, CreateMakesFifo
    <3>2. ASSUME NEW s \in Procs, StartSave(s), state' = [status |-> "running", pid |-> view[s].pid]
          PROVE  state'.pid \in {NoProc, fifo}
      <4>1. pc[s] \in StartPcs
        BY <3>2 DEF StartSave, StartPcs
      <4> QED
        BY <1>0, <1>1, <3>2, <4>1 DEF FifoOfState
    <3>3. CASE state' = state
      BY <1>0, <1>1, <3>3 DEF FifoOfState
    <3> QED
      BY <3>1, <3>2, <3>3, RecordMoves
  <2>2. ASSUME NEW s \in Procs, pc'[s] \in StartPcs PROVE view'[s].pid \in {NoProc, fifo}
    <3>1. CASE view'[s] = state
      BY <1>0, <1>1, <3>1 DEF FifoOfState
    <3>2. CASE pc[s] \in StartPcs /\ view'[s] = view[s]
      BY <1>0, <1>1, <3>2 DEF FifoOfState
    <3> QED
      BY <1>0, <2>2, <3>1, <3>2, StartMoves
  <2> QED
    BY <1>1, <2>1, <2>2
<1>2. ASSUME NEW c \in Procs, CreateReadyPipe(c), fifo' = c
      PROVE  /\ state'.pid = NoProc
             /\ \A s \in Procs : pc'[s] \notin StartPcs
  <2>1. pc[c] = "pipe" /\ state' = state
    BY <1>2 DEF CreateReadyPipe, diskVars
  <2>2. state'.pid = NoProc /\ pc[c] \in CreatePcs
    BY <1>0, <2>1 DEF CreateMakesFifo, CreatePcs
  <2>3. ASSUME NEW s \in Procs, pc'[s] \in StartPcs PROVE FALSE
    <3>1. pc[s] \in {"get"} \cup StartPcs
      BY <1>0, <2>3, StartMoves
    <3> QED
      BY <1>0, <2>2, <3>1, AloneInCreate
  <2> QED
    BY <2>2, <2>3
<1> QED
  BY <1>1, <1>2, RecordMoves

\* A start keeps the FIFO it has opened until it returns.
LEMMA ReadsItsFifoStep ==
    ASSUME ReportInv, [Next]_vars
    PROVE  ReadsItsFifo'
<1>0. TypeOK /\ PcOK /\ FifoOfState /\ ReadsItsFifo
  BY DEF ReportInv, FoundInv
<1> SUFFICES ASSUME NEW s \in Procs
             PROVE  /\ pc'[s] \in StartPcs => cmd'[s] = "start"
                    /\ pc'[s] \in {"signal"} \cup DeletePcs => cmd'[s] # "start"
                    /\ rd'[s] # NoProc <=> pc'[s] \in StartPcs \ {"open"}
                    /\ rd'[s] # NoProc => view'[s].pid \in {NoProc, rd'[s]}
  BY DEF ReadsItsFifo
<1>1. CASE pc'[s] \in StartPcs
  <2>1. CASE cmd'[s] = cmd[s] /\ pc'[s] = pc[s] /\ view'[s] = view[s] /\ rd'[s] = rd[s]
    BY <1>0, <2>1 DEF ReadsItsFifo
  <2>2. CASE /\ pc[s] = "get" /\ pc'[s] = "open" /\ cmd'[s] = "start" /\ rd'[s] = rd[s]
    BY <1>0, <2>2 DEF ReadsItsFifo, StartPcs, DeletePcs
  <2>3. CASE /\ pc[s] = "open" /\ cmd'[s] = cmd[s] /\ view'[s] = view[s]
             /\ pc'[s] = "exec" /\ fifo # NoProc /\ rd'[s] = fifo
    BY <1>0, <2>3 DEF ReadsItsFifo, FifoOfState, StartPcs, DeletePcs
  <2>4. CASE /\ pc[s] \in StartPcs /\ pc[s] # "open" /\ pc'[s] # "open"
             /\ cmd'[s] = cmd[s] /\ view'[s] = view[s] /\ rd'[s] = rd[s]
    BY <1>0, <1>1, <2>4 DEF ReadsItsFifo, StartPcs, DeletePcs
  <2> QED
    BY <1>0, <1>1, <2>1, <2>2, <2>3, <2>4, StartMoves
<1>2. CASE pc'[s] \notin StartPcs
  <2> USE DEF TypeOK, Goto, cliVars
  <2>1. CASE cmd'[s] = cmd[s] /\ pc'[s] = pc[s] /\ view'[s] = view[s] /\ rd'[s] = rd[s]
    BY <1>0, <1>2, <2>1 DEF ReadsItsFifo
  <2>2. ASSUME NEW k \in Commands, Begin(s, k)
        PROVE  rd'[s] = NoProc /\ pc'[s] \in {"prepare", "get"}
    BY <1>0, <2>2 DEF ReadsItsFifo, Begin, StartPcs
  <2>3. CASE CliDies(s)
    BY <1>0, <2>3 DEF CliDies, StartPcs, DeletePcs
  <2>4. CASE CreateStep(s)
    <3>1. /\ pc[s] \in CreatePcs /\ pc'[s] \in CreatePcs \cup EndPcs
          /\ rd'[s] = rd[s]
      BY <1>0, <2>4 DEF CreateStep, CreatePrepare, InitialSave, SaveWrite, Unsaved, LcCreate, CreateReadyPipe, CreateSpawn, CreateSave,
                        CreateKillInit, CreateDestroy, CreatePcs, EndPcs
    <3> QED
      BY <1>0, <3>1 DEF ReadsItsFifo, StartPcs, DeletePcs, CreatePcs, EndPcs
  <2>5. CASE Get(s)
    <3>1. /\ pc[s] = "get" /\ rd'[s] = rd[s] /\ cmd' = cmd
          /\ pc'[s] \in {AfterGet(cmd[s])} \cup EndPcs
      BY <1>0, <2>5 DEF Get, EndPcs
    <3>2. cmd[s] = "start" => AfterGet(cmd[s]) = "open"
      BY DEF AfterGet
    <3> QED
      BY <1>0, <1>2, <3>1, <3>2 DEF ReadsItsFifo, StartPcs, DeletePcs, EndPcs
  <2>6. CASE KillSignal(s)
    <3>1. pc[s] = "signal" /\ pc'[s] \in EndPcs /\ rd'[s] = rd[s]
      BY <1>0, <2>6 DEF KillSignal, EndPcs
    <3> QED
      BY <1>0, <3>1 DEF ReadsItsFifo, StartPcs, DeletePcs, EndPcs
  <2>7. CASE DeleteStep(s)
    <3>1. pc[s] \in DeletePcs /\ pc'[s] \in DeletePcs \cup EndPcs /\ rd'[s] = rd[s] /\ cmd' = cmd
      BY <1>0, <2>7 DEF DeleteStep, DeleteKill, DeleteReap, DeleteCheck, DeleteDestroy, DeleteRemove,
                        DeletePcs, EndPcs
    <3> QED
      BY <1>0, <3>1 DEF ReadsItsFifo, StartPcs, DeletePcs, EndPcs
  <2>8. CASE StartStep(s)
    <3>1. pc'[s] \in EndPcs /\ (rd'[s] = NoProc \/ (pc[s] = "open" /\ rd'[s] = rd[s]))
      BY <1>0, <1>2, <2>8 DEF StartStep, StartOpen, StartExec, StartAwait, StartSave, SaveWrite, Unsaved, StartPoststart,
                              StartClose, StartPcs, EndPcs
    <3> QED
      BY <1>0, <3>1 DEF ReadsItsFifo, StartPcs, DeletePcs, EndPcs
  <2>9. CASE SaveOpen(s)
    <3>1. /\ pc[s] \in {"opencreating", "opencreated"}
          /\ pc'[s] \in {"savecreating", "fail", "save", "killinit"} /\ rd'[s] = rd[s]
      BY <1>0, <1>2, <2>9, SaveOpenMoves DEF StartPcs
    <3> QED
      BY <1>0, <3>1 DEF ReadsItsFifo, StartPcs, DeletePcs
  <2> QED
    BY <1>0, <2>1, <2>2, <2>3, <2>4, <2>5, <2>6, <2>7, <2>8, <2>9, WhoMoves DEF CliStep, StartPcs, DeletePcs
<1> QED
  BY <1>1, <1>2

\* A start opens no FIFO but the one in the base directory.
LEMMA OpensFifo ==
    ASSUME TypeOK, [Next]_vars, NEW s \in Procs
    PROVE  rd'[s] \in {rd[s], fifo, NoProc}
<1> USE DEF TypeOK
<1>1. ASSUME NEW k \in Commands, Begin(s, k) PROVE rd' = rd
  BY <1>1 DEF Begin
<1>2. CASE CliDies(s)
  BY <1>2 DEF CliDies
<1>3. CASE CreateStep(s) \/ Get(s) \/ KillSignal(s) \/ SaveOpen(s)
  BY <1>3 DEF CreateStep, CreatePrepare, InitialSave, SaveWrite, LcCreate, CreateReadyPipe, CreateSpawn, CreateSave, CreateKillInit,
              CreateDestroy, Get, KillSignal, SaveOpen
<1>4. CASE StartStep(s)
  BY <1>4 DEF StartStep, StartOpen, StartExec, StartAwait, StartSave, SaveWrite, StartPoststart, StartClose
<1>5. CASE DeleteStep(s)
  BY <1>5 DEF DeleteStep, DeleteKill, DeleteReap, DeleteCheck, DeleteDestroy, DeleteRemove
<1> QED
  BY <1>1, <1>2, <1>3, <1>4, <1>5, WhoMoves DEF CliStep

\* While an init process lives, its FIFO is the only one.
LEMMA LiveFifoStep ==
    ASSUME ReportInv, [Next]_vars
    PROVE  LiveFifo'
<1>0. TypeOK /\ FoundInv /\ SpawnedByCreate /\ LiveFifo /\ ReadsItsFifo /\ CreateMakesFifo
  BY DEF ReportInv, FoundInv
<1> SUFFICES ASSUME NEW c \in Procs, Alive(c)'
             PROVE  fifo' \in {NoProc, c} /\ \A s \in Procs : rd'[s] \in {NoProc, c}
  BY DEF LiveFifo
<1>1. CASE Alive(c)
  <2>1. \A d \in Procs : ~CreateReadyPipe(d)
    BY <1>0, <1>1 DEF FoundInv, CreateOwns, CreateReadyPipe, CreatePcs, InitPcs
  <2>2. fifo' \in {NoProc, c}
    BY <1>0, <1>1, <2>1, RecordMoves DEF LiveFifo
  <2>3. \A s \in Procs : rd'[s] \in {NoProc, c}
    BY <1>0, <1>1, OpensFifo DEF LiveFifo
  <2> QED
    BY <2>2, <2>3
<1>2. CASE ~Alive(c)
  <2>1. CreateSpawn(c)
    <3>1. ~MonStep(c)
      BY <1>2 DEF MonStep, MonBoot, MonSetup, MonPreStart, MonReport, MonExec, MonExit, Alive, AliveMons,
                  SetupMons
    <3> QED
      BY <1>0, <1>2, <3>1, MonMoves DEF Alive, AliveMons, SetupMons
  <2>2. pc[c] = "spawn" /\ fifo' = fifo /\ rd' = rd
    BY <2>1 DEF CreateSpawn
  <2>3. fifo = c /\ pc[c] \in CreatePcs
    BY <1>0, <2>2 DEF CreateMakesFifo, CreatePcs
  <2>4. ASSUME NEW s \in Procs PROVE rd[s] = NoProc
    <3>1. pc[s] \notin StartPcs
      BY <1>0, <2>3, AloneInCreate
    <3> QED
      BY <1>0, <3>1 DEF ReadsItsFifo
  <2> QED
    BY <2>2, <2>3, <2>4
<1> QED
  BY <1>1, <1>2

\* A start comes past the exec fifo by releasing the blocked init process whose
\* FIFO it has open.
LEMMA PastMoves ==
    ASSUME ReportInv, [Next]_vars, NEW s \in Procs, Past(s)'
    PROVE  \/ Past(s) /\ view'[s] = view[s] /\ rd'[s] \in {rd[s], NoProc}
           \/ /\ StartExec(s) /\ ~Past(s)
              /\ \A t \in Procs : t # s => pc'[t] = pc[t] /\ cmd'[t] = cmd[t]
              /\ rd[s] \in Procs /\ mon[rd[s]] = "blocked" /\ mon'[rd[s]] = "boot"
              /\ pc'[s] = "await" /\ rd' = rd /\ view' = view /\ buf' = buf /\ said' = said
              /\ view[s].pid \in {NoProc, rd[s]}
<1>0. TypeOK /\ PcOK /\ ReadsItsFifo /\ LiveFifo
  BY DEF ReportInv, FoundInv
<1> USE DEF TypeOK, Goto, cliVars
<1>1. cmd'[s] = "start" /\ pc'[s] \in PastPcs
  BY DEF Past
<1>2. CASE cmd'[s] = cmd[s] /\ pc'[s] = pc[s] /\ view'[s] = view[s] /\ rd'[s] = rd[s]
  BY <1>1, <1>2 DEF Past
<1>3. ~CliDies(s) /\ ~\E k \in Commands : Begin(s, k)
  BY <1>0, <1>1 DEF CliDies, Begin, PastPcs
<1>4. ~CreateStep(s)
  <2>1. CreateStep(s) => pc[s] \in CreatePcs /\ cmd' = cmd
    BY DEF CreateStep, CreatePrepare, InitialSave, SaveWrite, LcCreate, CreateReadyPipe, CreateSpawn, CreateSave,
           CreateKillInit, CreateDestroy, CreatePcs
  <2> QED
    BY <1>0, <1>1, <2>1 DEF PcOK
<1>5. ~Get(s)
  <2>1. Get(s) => cmd' = cmd /\ (pc'[s] = AfterGet(cmd[s]) \/ pc'[s] = "fail" \/ cmd[s] # "start")
    BY <1>0 DEF Get
  <2> QED
    BY <1>1, <2>1 DEF AfterGet, PastPcs
<1>6. ~KillSignal(s) /\ ~DeleteStep(s)
  <2>1. KillSignal(s) \/ DeleteStep(s) => pc[s] \in {"signal"} \cup DeletePcs /\ cmd' = cmd
    BY DEF KillSignal, DeleteStep, DeleteKill, DeleteReap, DeleteCheck, DeleteDestroy, DeleteRemove, DeletePcs
  <2> QED
    BY <1>0, <1>1, <2>1 DEF ReadsItsFifo
<1>7. CASE StartStep(s) /\ ~StartExec(s)
  BY <1>0, <1>1, <1>7 DEF StartStep, StartOpen, StartAwait, StartSave, SaveWrite, Unsaved, StartPoststart, StartClose, Past,
                          PastPcs
<1>9. CASE SaveOpen(s)
  BY <1>0, <1>1, <1>9, SaveOpenMoves DEF Past, PastPcs
<1>8. CASE StartExec(s)
  <2>1. pc[s] = "exec" /\ Process(lc) = "blocked" /\ MonGoto(lc, "boot") /\ pc'[s] = "await"
    BY <1>0, <1>1, <1>8 DEF StartExec, PastPcs
  <2>2. lc \in Procs /\ mon[lc] = "blocked" /\ mon'[lc] = "boot"
    BY <1>0, <2>1, ProcessIsProc DEF Process, MonGoto
  <2>3. rd[s] = lc
    <3>1. rd[s] # NoProc
      BY <1>0, <2>1 DEF ReadsItsFifo, StartPcs
    <3> QED
      BY <1>0, <2>2, <3>1 DEF LiveFifo, Alive, AliveMons
  <2>4. /\ \A t \in Procs : t # s => pc'[t] = pc[t] /\ cmd'[t] = cmd[t]
        /\ rd' = rd /\ view' = view /\ buf' = buf /\ said' = said
    BY <1>0, <1>8 DEF StartExec
  <2>5. view[s].pid \in {NoProc, rd[s]}
    BY <1>0, <2>2, <2>3, MonitorInitAssumption DEF ReadsItsFifo
  <2>6. ~Past(s)
    BY <2>1 DEF Past, PastPcs
  <2> QED
    BY <1>8, <2>1, <2>2, <2>3, <2>4, <2>5, <2>6
<1> QED
  BY <1>0, <1>2, <1>3, <1>4, <1>5, <1>6, <1>7, <1>8, <1>9, WhoMoves DEF CliStep

\* A released process is not blocked again.
LEMMA NotAgain ==
    ASSUME ReportInv, [Next]_vars, NEW c \in Procs, mon[c] \notin {"none", "blocked"}
    PROVE  mon'[c] \notin {"none", "blocked"}
<1>0. TypeOK /\ SpawnedByCreate
  BY DEF ReportInv, FoundInv
<1>1. ~CreateSpawn(c)
  BY <1>0 DEF SpawnedByCreate, CreateSpawn, EndPcs
<1>2. MonStep(c) => mon'[c] \notin {"none", "blocked"}
  BY <1>0 DEF MonStep, MonBoot, MonSetup, MonPreStart, MonReport, MonExec, MonExit, MonFails, MonGoto, TypeOK
<1> QED
  BY <1>0, <1>1, <1>2, MonMoves

\* One start comes past the exec fifo.
LEMMA OnePastStep ==
    ASSUME ReportInv, [Next]_vars
    PROVE  Released' /\ OnePast'
<1>0. TypeOK /\ Released /\ OnePast
  BY DEF ReportInv, FoundInv
<1>1. ASSUME NEW s \in Procs, Past(s)'
      PROVE  /\ rd'[s] # NoProc => mon'[rd'[s]] \notin {"none", "blocked"}
             /\ view'[s].pid # NoProc => mon'[view'[s].pid] \notin {"none", "blocked"}
  <2>1. CASE Past(s) /\ view'[s] = view[s] /\ rd'[s] \in {rd[s], NoProc}
    <3>1. /\ rd[s] # NoProc => rd[s] \in Procs /\ mon[rd[s]] \notin {"none", "blocked"}
          /\ view[s].pid # NoProc => view[s].pid \in Procs /\ mon[view[s].pid] \notin {"none", "blocked"}
      BY <1>0, <2>1 DEF Released, TypeOK, OptProc, States
    <3> QED
      BY <2>1, <3>1, NotAgain
  <2>2. CASE /\ mon'[rd[s]] = "boot" /\ rd' = rd /\ view' = view
             /\ view[s].pid \in {NoProc, rd[s]}
    BY <2>2
  <2> QED
    BY <1>1, <2>1, <2>2, PastMoves
<1>2. ASSUME NEW s \in Procs, NEW t \in Procs, Past(s)', Past(t)', Same(s, t)', s # t PROVE FALSE
  <2>1. CASE Past(s) /\ Past(t)
    <3>1. /\ view'[s] = view[s] /\ rd'[s] \in {rd[s], NoProc}
          /\ view'[t] = view[t] /\ rd'[t] \in {rd[t], NoProc}
      BY <1>2, <2>1, PastMoves
    <3>2. Same(s, t)
      BY <1>2, <3>1 DEF Same
    <3> QED
      BY <1>0, <1>2, <2>1, <3>2 DEF OnePast
  <2>2. ASSUME NEW p \in Procs, NEW q \in Procs, p # q, ~Past(p), Past(p)', Past(q)', Same(p, q)'
        PROVE  FALSE
    <3>1. /\ \A r \in Procs : r # p => pc'[r] = pc[r] /\ cmd'[r] = cmd[r]
          /\ rd[p] \in Procs /\ mon[rd[p]] = "blocked"
          /\ rd' = rd /\ view' = view /\ view[p].pid \in {NoProc, rd[p]}
      BY <2>2, PastMoves
    <3>2. Past(q)
      BY <2>2, <3>1 DEF Past
    <3>3. rd[q] # rd[p] /\ view[q].pid # rd[p]
      BY <1>0, <3>1, <3>2, MonitorInitAssumption DEF Released
    <3> QED
      BY <2>2, <3>1, <3>3 DEF Same
  <2>3. Same(t, s)'
    BY <1>2 DEF Same
  <2> QED
    BY <1>2, <2>1, <2>2, <2>3
<1> QED
  BY <1>1, <1>2 DEF Released, OnePast

\* A start goes on only after readyOK.
LEMMA GoesOnStep ==
    ASSUME ReportInv, [Next]_vars
    PROVE  GoesOnAfterOk'
<1>0. TypeOK /\ PcOK /\ ReadsItsFifo /\ ReportsOnce /\ GoesOnAfterOk
  BY DEF ReportInv, FoundInv
<1> SUFFICES ASSUME NEW s \in Procs, pc'[s] \in {"openrunning", "saverunning", "poststart", "closeok"}
             PROVE  said'[rd'[s]] = "ok"
  BY DEF GoesOnAfterOk
<1>1. /\ rd'[s] = rd[s] /\ rd[s] \in Procs
      /\ \/ pc[s] \in {"openrunning", "saverunning", "poststart", "closeok"}
         \/ StartAwait(s) /\ pc'[s] = "openrunning"
  <2>1. pc'[s] \in StartPcs
    BY DEF StartPcs
  <2>2. pc[s] \in StartPcs \ {"open"} /\ rd'[s] = rd[s] /\ (pc'[s] = pc[s] \/ StartStep(s) \/ SaveOpen(s))
    BY <1>0, <2>1, StartMoves
  <2>3. rd[s] \in Procs
    BY <1>0, <2>2 DEF ReadsItsFifo, TypeOK, OptProc
  <2>4. ASSUME StartStep(s)
        PROVE  pc[s] \in {"openrunning", "saverunning", "poststart", "closeok"} \/ (StartAwait(s) /\ pc'[s] = "openrunning")
    BY <1>0, <2>4 DEF StartStep, StartOpen, StartExec, StartAwait, StartSave, SaveWrite, Unsaved, StartPoststart, StartClose,
                      Goto, TypeOK
  <2>5. ASSUME SaveOpen(s) PROVE pc[s] = "openrunning"
    BY <1>0, <2>2, <2>5, SaveOpenMoves DEF StartPcs
  <2> QED
    BY <2>2, <2>3, <2>4, <2>5
<1>2. said[rd[s]] = "ok"
  <2>1. CASE pc[s] \in {"openrunning", "saverunning", "poststart", "closeok"}
    BY <1>0, <2>1 DEF GoesOnAfterOk
  <2>2. CASE StartAwait(s) /\ pc'[s] = "openrunning"
    <3>1. buf[rd[s]] = "ok"
      BY <1>0, <2>2 DEF StartAwait, Goto, TypeOK
    <3> QED
      BY <1>0, <1>1, <3>1 DEF ReportsOnce
  <2> QED
    BY <1>1, <2>1, <2>2
<1> QED
  BY <1>1, <1>2, OkStays

\* "running" is saved by a start that was told so.
LEMMA RunningStep ==
    ASSUME ReportInv, [Next]_vars
    PROVE  RunningMeansReported'
<1>0. TypeOK /\ ReadsItsFifo /\ GoesOnAfterOk /\ RunningMeansReported
  BY DEF ReportInv, FoundInv
<1> SUFFICES ASSUME state'.status = "running"
             PROVE  \E c \in Procs : state'.pid \in {c, NoProc} /\ said'[c] = "ok"
  BY DEF RunningMeansReported
<1>1. CASE state' = state
  <2>1. PICK c \in Procs : state.pid \in {c, NoProc} /\ said[c] = "ok"
    BY <1>0, <1>1 DEF RunningMeansReported
  <2> QED
    BY <1>1, <2>1, OkStays
<1>2. ASSUME NEW s \in Procs, StartSave(s), state' = [status |-> "running", pid |-> view[s].pid]
      PROVE  \E c \in Procs : state'.pid \in {c, NoProc} /\ said'[c] = "ok"
  <2>1. pc[s] = "saverunning"
    BY <1>2 DEF StartSave
  <2>2. rd[s] \in Procs /\ view[s].pid \in {NoProc, rd[s]} /\ said[rd[s]] = "ok"
    BY <1>0, <2>1 DEF ReadsItsFifo, GoesOnAfterOk, StartPcs, TypeOK, OptProc
  <2>3. said'[rd[s]] = "ok"
    BY <2>2, OkStays
  <2> QED
    BY <1>2, <2>2, <2>3
<1>3. ASSUME NEW c \in Procs, state' = [status |-> "created", pid |-> c] PROVE FALSE
  BY <1>3
<1> QED
  BY <1>1, <1>2, <1>3, RecordMoves

\* The report stays in the FIFO until the start that waits for it reads it.
LEMMA ArrivesStep ==
    ASSUME ReportInv, [Next]_vars
    PROVE  ReportArrives'
<1>0. TypeOK /\ PcOK /\ ReportsOnce /\ OnePast /\ ReadsItsFifo /\ ReportArrives
  BY DEF ReportInv, FoundInv
<1> DEFINE Byte(w) == CASE w = "ok" -> "ok" [] w = "err" -> "err" [] OTHER -> "empty"
<1> SUFFICES ASSUME NEW s \in Procs, pc'[s] = "await", rd'[s] # NoProc
             PROVE  buf'[rd'[s]] = Byte(said'[rd'[s]])
  BY DEF ReportArrives
<1>1. Past(s)'
  <2>1. cmd'[s] = "start"
    BY ReadsItsFifoStep DEF ReadsItsFifo, StartPcs
  <2> QED
    BY <2>1 DEF Past, PastPcs
<1>2. CASE StartExec(s) /\ ~Past(s)
  <2>1. /\ rd[s] \in Procs /\ mon[rd[s]] = "blocked" /\ rd' = rd /\ buf' = buf /\ said' = said
    BY <1>1, <1>2, PastMoves
  <2>2. said[rd[s]] = "nothing" /\ buf[rd[s]] \in {"empty", said[rd[s]]}
    BY <1>0, <2>1 DEF ReportsOnce, Before
  <2>3. buf[rd[s]] = "empty"
    BY <1>0, <2>1, <2>2 DEF TypeOK
  <2> QED
    BY <2>1, <2>2, <2>3
<1>3. CASE Past(s)
  <2>1. pc[s] = "await" /\ rd'[s] = rd[s] /\ rd[s] \in Procs /\ ~StartAwait(s)
    <3>1. ~StartAwait(s)
      BY <1>0 DEF StartAwait, Goto, TypeOK
    <3>2. pc[s] = "await"
      <4>1. pc'[s] \in StartPcs
        BY DEF StartPcs
      <4>2. CASE StartStep(s) /\ pc[s] # "await"
        BY <1>0, <1>3, <4>2 DEF StartStep, StartOpen, StartExec, StartAwait, StartSave, SaveWrite, Unsaved,
                                StartPoststart, StartClose, Goto, TypeOK, Past, PastPcs
      <4>4. ~SaveOpen(s)
        BY <1>0, SaveOpenMoves
      <4>3. pc[s] # "get"
        BY <1>3 DEF Past, PastPcs
      <4> QED
        BY <1>0, <4>1, <4>2, <4>3, <4>4, StartMoves
    <3>3. rd'[s] = rd[s]
      BY <1>1, <1>3, PastMoves
    <3> QED
      BY <1>0, <3>1, <3>2, <3>3 DEF TypeOK, OptProc
  <2>2. PICK c \in Procs : c = rd[s] /\ buf[c] = Byte(said[c]) /\ c # NoProc
    BY <1>0, <2>1 DEF ReportArrives
  <2>3. ASSUME NEW t \in Procs, StartAwait(t), rd[t] = c PROVE FALSE
    <3>1. pc[t] = "await" /\ cmd[t] = "start"
      BY <1>0, <2>3 DEF StartAwait, ReadsItsFifo, StartPcs
    <3>2. Past(t) /\ Same(s, t)
      BY <2>2, <2>3, <3>1 DEF Past, PastPcs, Same
    <3> QED
      BY <1>0, <1>3, <2>1, <2>3, <3>2 DEF OnePast
  <2>4. CASE said'[c] = said[c] /\ buf'[c] = buf[c]
    BY <2>1, <2>2, <2>4
  <2>5. CASE said'[c] \in {"ok", "err"} /\ buf'[c] = said'[c]
    BY <2>1, <2>2, <2>5
  <2>6. CASE said' = said /\ buf'[c] = Found(c)
    <3>1. Found(c) = buf[c]
      BY <2>2 DEF Found
    <3> QED
      BY <2>1, <2>2, <2>6, <3>1
  <2> QED
    BY <1>0, <2>3, <2>4, <2>5, <2>6, Speaks
<1> QED
  BY <1>1, <1>2, <1>3, PastMoves

\* ReportInv is an invariant, whatever fails and whoever is killed.
LEMMA ReportInvariant == Spec => []ReportInv
<1>1. Init => ReportInv
  <2> SUFFICES ASSUME Init PROVE ReportInv
    OBVIOUS
  <2>1. FoundInv
    BY FoundInit
  <2>2. SpawnedByCreate /\ ReportsOnce /\ CreateMakesFifo
    BY DEF Init, SpawnedByCreate, ReportsOnce, CreateMakesFifo, CreatePcs
  <2>3. FifoOfState /\ ReadsItsFifo /\ LiveFifo
    BY DEF Init, FifoOfState, ReadsItsFifo, LiveFifo, StartPcs, DeletePcs
  <2>4. Released /\ OnePast /\ GoesOnAfterOk
    BY DEF Init, Released, OnePast, GoesOnAfterOk, Past
  <2>5. RunningMeansReported /\ ReportArrives
    BY DEF Init, RunningMeansReported, ReportArrives, NoState
  <2> QED
    BY <2>1, <2>2, <2>3, <2>4, <2>5 DEF ReportInv
<1>2. ReportInv /\ [Next]_vars => ReportInv'
  <2> SUFFICES ASSUME ReportInv, [Next]_vars PROVE ReportInv'
    OBVIOUS
  <2>1. FoundInv'
    BY FoundStep DEF ReportInv
  <2>2. SpawnedByCreate' /\ ReportsOnce' /\ CreateMakesFifo'
    BY SpawnedStep, ReportsOnceStep, CreateMakesFifoStep
  <2>3. FifoOfState' /\ ReadsItsFifo' /\ LiveFifo'
    BY FifoOfStateStep, ReadsItsFifoStep, LiveFifoStep
  <2>4. Released' /\ OnePast' /\ GoesOnAfterOk'
    BY OnePastStep, GoesOnStep
  <2>5. RunningMeansReported' /\ ReportArrives'
    BY RunningStep, ArrivesStep
  <2> QED
    BY <2>1, <2>2, <2>3, <2>4, <2>5 DEF ReportInv
<1> QED
  BY <1>1, <1>2, PTL DEF Spec

\* SetRunningState is reached only by a start whose monitor has reported readyOK.
THEOREM MonitorReported == Spec => []RunningMeansReported
<1>1. ReportInv => RunningMeansReported
  BY DEF ReportInv
<1> QED
  BY <1>1, ReportInvariant, PTL

\* Of all the starts of a container, overlapping or not, startMonitorInit lets one
\* succeed.
THEOREM MonitorStartedOnce == Spec => []StartedOnce
<1>1. ReportInv => StartedOnce
  <2> SUFFICES ASSUME OnePast PROVE StartedOnce
    BY DEF ReportInv
  <2>1. \A s \in Procs : Succeeds(s) => Past(s)
    BY DEF Succeeds, Past, PastPcs
  <2> QED
    BY <2>1 DEF OnePast, StartedOnce, Same
<1> QED
  BY <1>1, ReportInvariant, PTL

\* signalReady's byte reaches the start that released the monitor, and nobody
\* else takes it (openReadReadyPipe, awaitReadyPipe).
THEOREM ReportReachesStart == Spec => []ReportArrives
<1>1. ReportInv => ReportArrives
  BY DEF ReportInv
<1> QED
  BY <1>1, ReportInvariant, PTL
=============================================================================
