--------------------------- MODULE MCRaftMetrics ---------------------------
(* The operator's process: one manager for three members, and its metrics. *)
EXTENDS RaftMetrics

CONSTANTS m1, m2, m3

OneManager == {m1}
ThreeMembers == {m1, m2, m3}
============================================================================
