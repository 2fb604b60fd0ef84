----------------------------- MODULE MCBalancer -----------------------------
(* Small instance of Balancer: two instances, three endpoints, two callers. *)
EXTENDS Balancer, TLC

CONSTANTS p1, p2

MCInstances == 1 .. 2
MCCallers == {p1, p2}
MCStrategies == {"least", "random"}
Symmetry == Permutations(MCCallers)
=============================================================================
