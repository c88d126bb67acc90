------------------------- MODULE MCRaftIntegration -------------------------
(* One process and three members, of which any may exist as pods.          *)
EXTENDS RaftIntegration

CONSTANTS m1, m2, m3

OneManager == {m1}
ThreeMembers == {m1, m2, m3}
============================================================================
