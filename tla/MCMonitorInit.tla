----------------------------- MODULE MCMonitorInit -----------------------------
(* Instances of MonitorInit for TLC. *)
EXTENDS MonitorInit, TLC

Symmetry == Permutations(Procs)
=============================================================================
