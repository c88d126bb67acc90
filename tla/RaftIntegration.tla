-------------------------- MODULE RaftIntegration --------------------------
(***************************************************************************)
(* HandleRaftBasedFailover of raft_mysql_integration.go with all it calls, *)
(* run by the worker of the process whose Raft node is Node.  The manager  *)
(* is seen through LeaderView, which RaftManager implements.               *)
(* Definitions named for a defect (..AnyState) are mutants, as elsewhere.  *)
(*                                                                         *)
(* The code takes the names of Raft nodes for names of pods, as README.md  *)
(* does (mysql-raft-cluster-0).  The operator creates mysql-01 and so on:  *)
(* for it no member exists as a pod, and GetMasterPod is the last step     *)
(* (Failover in MysqlReconciler).  Here any of the members may exist.      *)
(***************************************************************************)
EXTENDS LeaderView, FiniteSets

CONSTANTS Members,     \* the names that getClusterNodes returns
          Node,        \* nodeId of this process's manager
          MaxErrors,   \* bound: calls that fail
          MaxChanges,  \* bound: changes of pods by others
          MaxRestarts  \* bound: restarts of the process

ASSUME IntegrationAssumption ==
    /\ Node \in Managers \cap Members
    /\ MaxErrors \in Nat /\ MaxChanges \in Nat /\ MaxRestarts \in Nat

VARIABLES
    pods, role,   \* the members that exist as pods, and the role label
    pc, todo,     \* the worker, and the slaves that are left
    target,       \* the pod it has fetched
    current,      \* nobody has written that pod since
    result,       \* how the last fail-over ended
    errors, changes

cluster == <<pods, role>>
worker  == <<pc, todo, target, current, result>>
integrationVars == <<view, cluster, worker, errors, changes>>

(* A master was there before, or none.                                     *)
IntegrationInit ==
    /\ Init
    /\ pods \in SUBSET Members
    /\ role \in [Members -> {"none", "master", "slave"}]
    /\ \A m \in Members \ pods : role[m] = "none"
    /\ Cardinality({m \in Members : role[m] = "master"}) <= 1
    /\ pc = "idle" /\ todo = {} /\ target = Node /\ current = FALSE
    /\ result = "none"
    /\ errors = 0 /\ changes = 0

----------------------------------------------------------------------------
(* The end of HandleRaftBasedFailover.                                     *)
Return(outcome) ==
    /\ pc' = "idle" /\ todo' = {} /\ target' = Node /\ current' = FALSE
    /\ result' = outcome

CallFails == errors < MaxErrors /\ errors' = errors + 1

(* Reconcile has found no master.  A manager that does not lead is made to *)
(* start an election, which LeaderView does not show.                      *)
HandleRaftBasedFailover ==
    /\ pc = "idle"
    /\ pc' = "election"
    /\ result' = "running"
    /\ UNCHANGED <<view, cluster, todo, target, current, errors, changes>>

(* RaftBasedMasterElection polls the state for 30 s.                       *)
ElectionCompletedAnyState ==
    /\ pc = "election"
    /\ pc' = "getMaster"
    /\ todo' = Members \ {Node}
    /\ UNCHANGED <<view, cluster, target, current, result, errors, changes>>

ElectionCompletedKeepsNode ==
    /\ pc = "election"
    /\ leading[Node]
    /\ pc' = "getMaster"
    /\ todo' = Members
    /\ UNCHANGED <<view, cluster, target, current, result, errors, changes>>

ElectionCompleted ==
    /\ pc = "election"
    /\ leading[Node]
    /\ pc' = "getMaster"
    /\ todo' = Members \ {Node}
    /\ UNCHANGED <<view, cluster, target, current, result, errors, changes>>

ElectionTimedOutOnlyLeading ==
    /\ pc = "election" /\ leading[Node]
    /\ Return("error")
    /\ UNCHANGED <<view, cluster, errors, changes>>

ElectionTimedOut ==
    /\ pc = "election"
    /\ Return("error")
    /\ UNCHANGED <<view, cluster, errors, changes>>

(* getPodByName; a pod that does not exist is an error.                    *)
GetPod(m, next) ==
    /\ \/ /\ m \in pods
          /\ pc' = next /\ target' = m /\ current' = TRUE
          /\ UNCHANGED <<todo, result, errors>>
       \/ m \notin pods /\ Return("error") /\ UNCHANGED errors
       \/ CallFails /\ Return("error")
    /\ UNCHANGED <<view, cluster, changes>>

(* Update with the fetched copy, which fails if the pod was written since. *)
(* A fetched pod without a single label would make the assignment to       *)
(* pod.Labels panic, which ends the process: that is ProcessRestarts.      *)
UpdateLabel(r, next) ==
    /\ \/ /\ current
          /\ role' = [role EXCEPT ![target] = r]
          /\ pc' = next /\ current' = FALSE
          /\ UNCHANGED <<target, result, errors>>
       \/ /\ ~current /\ Return("error")
          /\ UNCHANGED <<role, errors>>
       \/ CallFails /\ Return("error") /\ UNCHANGED role
    /\ UNCHANGED <<view, pods, changes>>

(* ensureMySQLMasterRole.  Its SQL goes to the integration's own           *)
(* execCommandOnPod, which does nothing and returns the empty string.      *)
GetMasterPod == pc = "getMaster" /\ GetPod(Node, "labelMaster")

LabelMasterPod ==
    /\ pc = "labelMaster"
    /\ UpdateLabel("master", IF todo = {} THEN "semiSync" ELSE "getSlave")
    /\ pc' # "idle" => UNCHANGED todo

(* ensureMySQLSlaveRole for the other members, in whatever order.          *)
GetSlavePod(m) ==
    /\ pc = "getSlave" /\ m \in todo
    /\ GetPod(m, "labelSlave")

LabelSlavePodIgnoresConflict ==
    LET rest == todo \ {target}
    IN /\ pc = "labelSlave"
       /\ role' = IF current THEN [role EXCEPT ![target] = "slave"] ELSE role
       /\ pc' = IF rest = {} THEN "semiSync" ELSE "getSlave"
       /\ todo' = rest /\ current' = FALSE
       /\ UNCHANGED <<view, pods, target, result, errors, changes>>

LabelSlavePod ==
    LET rest == todo \ {target}
    IN /\ pc = "labelSlave"
       /\ UpdateLabel("slave", IF rest = {} THEN "semiSync" ELSE "getSlave")
       /\ pc' # "idle" => todo' = rest

(* ConfigureSemiSyncReplication: VerifySemiSyncStatus looks for ON in the  *)
(* empty string, so it always ends in an error, which is only logged.      *)
ConfigureSemiSync ==
    /\ pc = "semiSync"
    /\ Return("ok")
    /\ UNCHANGED <<view, cluster, errors, changes>>

----------------------------------------------------------------------------
(* The manager, and everyone else who writes pods.                         *)

LeaderElected ==
    /\ Elected(Node)
    /\ UNCHANGED <<cluster, worker, errors, changes>>

ProcessRestarts ==
    /\ epoch[Node] < MaxRestarts
    /\ Restarted(Node)
    /\ Return("interrupted")
    /\ UNCHANGED <<cluster, errors, changes>>

Change(m) ==
    /\ changes < MaxChanges
    /\ changes' = changes + 1
    /\ current' = (current /\ target # m)
    /\ UNCHANGED <<view, pc, todo, target, result, errors>>

(* The kubelet writes the pod's status, or a user its spec.                *)
PodWritten(m) == m \in pods /\ Change(m) /\ UNCHANGED cluster

(* A pod goes or comes; a new one has no role.                             *)
PodReplaced(m) ==
    /\ Change(m)
    /\ pods' = IF m \in pods THEN pods \ {m} ELSE pods \cup {m}
    /\ role' = [role EXCEPT ![m] = "none"]

FailoverStep ==
    \/ ElectionCompleted \/ ElectionTimedOut
    \/ GetMasterPod \/ LabelMasterPod
    \/ \E m \in Members : GetSlavePod(m)
    \/ LabelSlavePod \/ ConfigureSemiSync

IntegrationNext ==
    \/ HandleRaftBasedFailover \/ FailoverStep
    \/ LeaderElected \/ ProcessRestarts
    \/ \E m \in Members : PodWritten(m) \/ PodReplaced(m)

IntegrationSpec == IntegrationInit /\ [][IntegrationNext]_integrationVars

(* The worker goes on.  That the manager is ever elected is not assumed:   *)
(* with one replica it never is.                                           *)
IntegrationFairSpec ==
    IntegrationSpec /\ WF_integrationVars(FailoverStep)

----------------------------------------------------------------------------
(* Properties.                                                             *)

(* Every variable keeps its type; a label belongs to a pod; and the new    *)
(* master is never one of the slaves that are left, whose turn would have  *)
(* it replicate from itself and take its label away again.                 *)
IntegrationTypeOK ==
    /\ pods \subseteq Members
    /\ role \in [Members -> {"none", "master", "slave"}]
    /\ \A m \in Members \ pods : role[m] = "none"
    /\ pc \in {"idle", "election", "getMaster", "labelMaster", "getSlave",
               "labelSlave", "semiSync"}
    /\ todo \subseteq Members \ {Node}
    /\ target \in Members /\ current \in BOOLEAN
    /\ result \in {"none", "running", "ok", "error", "interrupted"}
    /\ (result = "running") = (pc # "idle")

(* The new master is labelled before the old one loses its label, so an    *)
(* error or a restart in between leaves two.  When the last fail-over      *)
(* succeeded there is no master but this node, whatever was written,       *)
(* deleted and created while it ran and since.                             *)
SuccessLeavesOneMaster ==
    result = "ok" => \A m \in Members : role[m] = "master" => m = Node

(* The state is read once, and the label is written some calls later: a    *)
(* pod becomes master only while its manager leads.                        *)
MasterLabelMeansLeader ==
    [][\A m \in Members :
         role[m] # "master" /\ role'[m] = "master"
             => m = Node /\ leading[Node]]_integrationVars

(* Every fail-over ends, also one that waits for a leader in vain.         *)
FailoverEnds == pc # "idle" ~> pc = "idle"
============================================================================
