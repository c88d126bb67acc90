--------------------------- MODULE MCRaftManager ---------------------------
(* Two managers, the members of one cluster, whose ConfigMaps an external  *)
(* reader hands to the handlers.                                           *)
EXTENDS RaftManager, TLC, Functions

CONSTANTS m1, m2

Symmetry == Permutations({m1, m2})

TwoManagers == {m1, m2}
TwoMembers  == {m1, m2}

(* Bound: a failing call or a restart of one of the managers; after the    *)
(* restart they do not both come to the last term again.                   *)
Total(f) == FoldFunction(+, 0, f)

OneFault ==
    /\ failures + Total(restarts) <= 1
    /\ Total(restarts) = 1 => Total(currentTerm) < 2 * MaxTerm
============================================================================
