------------------------- MODULE MCMysqlReconciler -------------------------
(* The reconciler with a few faults of each kind.                          *)
EXTENDS MysqlReconciler

NoEdits  == {}
OneToThree == 1..3
ZeroToTwo == 0..2

Bounded(calls, deletes, crashes, breaks, edits, restarts) ==
    [call |-> calls, delete |-> deletes, crash |-> crashes,
     break |-> breaks, edit |-> edits, restart |-> restarts]

SafetyFaults == Bounded(1, 1, 1, 1, 1, 1)
LivenessFaults == Bounded(1, 1, 1, 1, 0, 1)
MasterDeleted == Bounded(0, 1, 0, 0, 0, 0)
ScaledDown == Bounded(0, 1, 0, 0, 1, 0)
============================================================================
