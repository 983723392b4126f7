----------------------------- MODULE MCPodNetwork -----------------------------
(* Instances of PodNetwork for TLC: two containers with the dynamic network   *)
(* and one with the static network.                                           *)
EXTENDS PodNetwork, TLC

CONSTANTS d1, d2, s1

MCContainers == {d1, d2, s1}
MCStatic     == {s1}
Symmetry     == Permutations({d1, d2})
=============================================================================
