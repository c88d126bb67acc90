----------------------------- MODULE LeaderView -----------------------------
(***************************************************************************)
(* What the reconciler relies on when it reads the state of its Raft       *)
(* manager: a manager that leads goes on leading until its process ends,   *)
(* and one that runs is elected in the end.                                *)
(***************************************************************************)
EXTENDS Naturals

CONSTANT Managers

VARIABLES leading, epoch

view == <<leading, epoch>>

Init ==
    /\ leading = [n \in Managers |-> FALSE]
    /\ epoch = [n \in Managers |-> 0]

Elected(n) ==
    /\ ~leading[n]
    /\ leading' = [leading EXCEPT ![n] = TRUE]
    /\ UNCHANGED epoch

Restarted(n) ==
    /\ leading' = [leading EXCEPT ![n] = FALSE]
    /\ epoch' = [epoch EXCEPT ![n] = @ + 1]

Next == \E n \in Managers : Elected(n) \/ Restarted(n)

Spec == Init /\ [][Next]_view

FairSpec == Spec /\ \A n \in Managers : WF_view(Elected(n))
=============================================================================
