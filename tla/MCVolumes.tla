------------------------------- MODULE MCVolumes -------------------------------
(* Instances of Volumes for TLC: two containers that take the same two volumes, *)
(* a loop device and a plain block device, in opposite orders.                  *)
EXTENDS Volumes

CONSTANTS c1, c2, v1, v2

MCContainers == {c1, c2}
MCVolumes    == {v1, v2}
MCLoops      == {v1}
MCMounts     == [c \in MCContainers |-> IF c = c1 THEN <<v1, v2>> ELSE <<v2, v1>>]
=============================================================================
