-------------------------- MODULE MCMasterElection --------------------------
(* The election by data with a few faults.                                 *)
EXTENDS MasterElection

NoEdits == {}
OneToThree == 1..3

Bounded(calls, deletes, crashes, breaks, restarts) ==
    [call |-> calls, delete |-> deletes, crash |-> crashes,
     break |-> breaks, edit |-> 0, restart |-> restarts]

AnyFault == Bounded(1, 1, 1, 1, 1)
MasterCrash == Bounded(0, 0, 1, 0, 0)
=============================================================================
