----------------------------- MODULE OCIContainer -----------------------------
(***************************************************************************)
(* What the container engine is promised about one container ID: the OCI   *)
(* runtime lifecycle as urunc implements it, with saves of the state that  *)
(* are atomic unless the writer is killed, and one container process that  *)
(* is released once, reports at most once and is never outlived by the     *)
(* record of it.                                                           *)
(***************************************************************************)
VARIABLES
    status,    \* the recorded state of the container
    proc,      \* its process: not there, held until start, ready to run the
               \* monitor or running it, gone
    reported   \* the process has reported a successful start

vars == <<status, proc, reported>>

TypeOK ==
    /\ status \in {"none", "creating", "created", "running", "lost"}
    /\ proc \in {"none", "held", "ready", "gone"}
    /\ reported \in BOOLEAN

Init == status = "none" /\ proc = "none" /\ reported = FALSE

Create ==
    /\ status = "none" /\ proc = "none" /\ ~reported
    /\ status' = "creating"
    /\ UNCHANGED <<proc, reported>>

Created ==
    /\ status = "creating"
    /\ status' = "created"
    /\ UNCHANGED <<proc, reported>>

\* create hands the process over to start.
Release ==
    /\ status = "created" /\ proc = "none"
    /\ proc' = "held"
    /\ UNCHANGED <<status, reported>>

Report ==
    /\ proc = "held"
    /\ proc' = "ready"
    /\ reported' = TRUE
    /\ UNCHANGED status

\* A running container has reported; its process may already be gone again.
Run ==
    /\ status = "created" /\ reported
    /\ status' = "running"
    /\ UNCHANGED <<proc, reported>>

Exit ==
    /\ proc # "gone"
    /\ proc' = "gone"
    /\ UNCHANGED <<status, reported>>

\* A writer is killed in the middle of a save.
Lose ==
    /\ status # "lost"
    /\ status' = "lost"
    /\ UNCHANGED <<proc, reported>>

Delete ==
    /\ proc \in {"none", "gone"}
    /\ status' = "none" /\ proc' = "none" /\ reported' = FALSE

Next == Create \/ Created \/ Release \/ Report \/ Run \/ Exit \/ Lose \/ Delete

Spec == Init /\ [][Next]_vars
=============================================================================
