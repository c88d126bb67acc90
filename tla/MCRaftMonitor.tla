--------------------------- MODULE MCRaftMonitor ---------------------------
(* Managers with their monitors: the operator's one, or two processes that *)
(* share the resource.                                                     *)
EXTENDS RaftMonitor, TLC

CONSTANTS m1, m2

Symmetry == Permutations({m1, m2})

OneManager  == {m1}
TwoManagers == {m1, m2}
============================================================================
