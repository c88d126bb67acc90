----------------------- MODULE RaftIntegrationProofs -----------------------
(***************************************************************************)
(* HandleRaftBasedFailover for every set of members and every number of    *)
(* errors, changes of pods and restarts.                                   *)
(***************************************************************************)
EXTENDS RaftIntegration, TLAPS

AfterElection == {"getMaster", "labelMaster", "getSlave", "labelSlave",
                  "semiSync"}
SlaveLoop == {"getSlave", "labelSlave", "semiSync"}

(* Once its election is over the worker relies on the state it has read:   *)
(* only a restart, which also ends the worker, takes it back.              *)
ElectionInv ==
    /\ leading \in [Managers -> BOOLEAN]
    /\ pc \in AfterElection => leading[Node]

(* A pod that nobody has written since it was fetched still exists; and    *)
(* the slaves that have had their turn are not masters.                    *)
SlavesInv ==
    /\ current => target \in pods
    /\ pc = "getMaster" \/ pc = "labelMaster" => todo = Members \ {Node}
    /\ pc = "labelMaster" => target = Node
    /\ pc = "getSlave" => todo # {}
    /\ pc = "labelSlave" => target \in todo
    /\ pc = "semiSync" => todo = {}
    /\ pc \in SlaveLoop =>
          \A m \in Members \ todo : role[m] = "master" => m = Node

FailoverInv ==
    /\ IntegrationTypeOK
    /\ ElectionInv
    /\ SlavesInv
    /\ SuccessLeavesOneMaster


(* It holds before the first fail-over.                                    *)
LEMMA FailoverInitInv == IntegrationInit => FailoverInv
  BY IntegrationAssumption
  DEF IntegrationInit, Init, FailoverInv, IntegrationTypeOK, ElectionInv,
      SlavesInv, SuccessLeavesOneMaster, AfterElection, SlaveLoop

(* The end of a fail-over, with a success or without.                      *)
LEMMA ReturnInv ==
    ASSUME FailoverInv, NEW outcome \in {"ok", "error", "interrupted"},
           Return(outcome), UNCHANGED cluster,
           leading' \in [Managers -> BOOLEAN],
           outcome = "ok" =>
               \A m \in Members : role[m] = "master" => m = Node
    PROVE  FailoverInv'
  BY IntegrationAssumption
  DEF Return, cluster, FailoverInv, IntegrationTypeOK, ElectionInv, SlavesInv,
      SuccessLeavesOneMaster, AfterElection, SlaveLoop

(* A pod is fetched: nothing but the worker's place changes.               *)
LEMMA GetPodInv ==
    ASSUME FailoverInv, NEW m \in Members, NEW next, GetPod(m, next),
           \/ pc = "getMaster" /\ m = Node /\ next = "labelMaster"
           \/ pc = "getSlave" /\ m \in todo /\ next = "labelSlave"
    PROVE  FailoverInv'
<1>1. UNCHANGED <<view, cluster>>
  BY DEF GetPod
<1>2. CASE Return("error")
  BY <1>1, <1>2, ReturnInv DEF view, FailoverInv, ElectionInv
<1>3. CASE /\ m \in pods /\ pc' = next /\ target' = m /\ current' = TRUE
           /\ UNCHANGED <<todo, result>>
  BY <1>1, <1>3
  DEF view, cluster, FailoverInv, IntegrationTypeOK, ElectionInv, SlavesInv,
      SuccessLeavesOneMaster, AfterElection, SlaveLoop
<1> QED
  BY <1>2, <1>3 DEF GetPod

(* ensureMySQLMasterRole writes its label, or the update fails: the other  *)
(* members are still to come.                                              *)
LEMMA LabelMasterInv ==
    ASSUME FailoverInv, LabelMasterPod
    PROVE  FailoverInv'
<1>1. UNCHANGED <<view, pods>> /\ pc = "labelMaster"
  BY DEF LabelMasterPod, UpdateLabel
<1>2. CASE Return("error") /\ UNCHANGED role
  BY <1>1, <1>2, ReturnInv DEF view, cluster, FailoverInv, ElectionInv
<1>3. CASE /\ current
           /\ role' = [role EXCEPT ![target] = "master"]
           /\ pc' = IF todo = {} THEN "semiSync" ELSE "getSlave"
           /\ current' = FALSE
           /\ UNCHANGED <<target, result>>
  <2>1. UNCHANGED todo
    BY <1>3 DEF LabelMasterPod
  <2> QED
    BY <1>1, <1>3, <2>1, IntegrationAssumption
    DEF view, FailoverInv, IntegrationTypeOK, ElectionInv, SlavesInv,
        SuccessLeavesOneMaster, AfterElection, SlaveLoop
<1> QED
  BY <1>2, <1>3 DEF LabelMasterPod, UpdateLabel

(* ensureMySQLSlaveRole writes its label: one more member is no master.    *)
LEMMA LabelSlaveInv ==
    ASSUME FailoverInv, LabelSlavePod
    PROVE  FailoverInv'
<1>1. UNCHANGED <<view, pods>> /\ pc = "labelSlave"
  BY DEF LabelSlavePod, UpdateLabel
<1>2. CASE Return("error") /\ UNCHANGED role
  BY <1>1, <1>2, ReturnInv DEF view, cluster, FailoverInv, ElectionInv
<1>3. CASE /\ current
           /\ role' = [role EXCEPT ![target] = "slave"]
           /\ pc' = IF todo \ {target} = {} THEN "semiSync" ELSE "getSlave"
           /\ current' = FALSE
           /\ UNCHANGED <<target, result>>
  <2>1. todo' = todo \ {target}
    BY <1>3 DEF LabelSlavePod
  <2> QED
    BY <1>1, <1>3, <2>1
    DEF view, FailoverInv, IntegrationTypeOK, ElectionInv, SlavesInv,
        SuccessLeavesOneMaster, AfterElection, SlaveLoop
<1> QED
  BY <1>2, <1>3 DEF LabelSlavePod, UpdateLabel

(* Another's write, deletion or creation of a pod makes nobody a master.   *)
LEMMA ChangeInv ==
    ASSUME FailoverInv, NEW m \in Members, PodWritten(m) \/ PodReplaced(m)
    PROVE  FailoverInv'
<1>1. /\ UNCHANGED <<view, pc, todo, target, result>>
      /\ current' = (current /\ target # m)
  BY DEF PodWritten, PodReplaced, Change
<1>2. \/ UNCHANGED cluster
      \/ /\ pods' = IF m \in pods THEN pods \ {m} ELSE pods \cup {m}
         /\ role' = [role EXCEPT ![m] = "none"]
  BY DEF PodWritten, PodReplaced
<1>3. IntegrationTypeOK'
  BY <1>1, <1>2 DEF FailoverInv, IntegrationTypeOK, cluster
<1>4. ElectionInv'
  BY <1>1 DEF FailoverInv, ElectionInv, view
<1>5. \A k \in Members : role'[k] = "master" => role[k] = "master"
  BY <1>2 DEF FailoverInv, IntegrationTypeOK, cluster
<1>6. current' => target' \in pods'
  BY <1>1, <1>2 DEF FailoverInv, IntegrationTypeOK, SlavesInv, cluster
<1>7. SlavesInv' /\ SuccessLeavesOneMaster'
  BY <1>1, <1>5, <1>6 DEF FailoverInv, SlavesInv, SuccessLeavesOneMaster
<1> QED
  BY <1>3, <1>4, <1>7 DEF FailoverInv

(* Every step of the fail-over and of its surroundings keeps FailoverInv.  *)
LEMMA FailoverStepInv ==
    ASSUME FailoverInv, [IntegrationNext]_integrationVars
    PROVE  FailoverInv'
<1>1. CASE HandleRaftBasedFailover
  BY <1>1
  DEF HandleRaftBasedFailover, view, cluster, FailoverInv, IntegrationTypeOK,
      ElectionInv, SlavesInv, SuccessLeavesOneMaster, AfterElection, SlaveLoop
<1>2. CASE ElectionCompleted
  BY <1>2, IntegrationAssumption
  DEF ElectionCompleted, view, cluster, FailoverInv, IntegrationTypeOK,
      ElectionInv, SlavesInv, SuccessLeavesOneMaster, AfterElection, SlaveLoop
<1>3. CASE ElectionTimedOut
  BY <1>3, ReturnInv DEF ElectionTimedOut, view, FailoverInv, ElectionInv
<1>4. CASE GetMasterPod
  BY <1>4, GetPodInv, IntegrationAssumption DEF GetMasterPod
<1>5. CASE LabelMasterPod
  BY <1>5, LabelMasterInv
<1>6. ASSUME NEW m \in Members, GetSlavePod(m)
      PROVE  FailoverInv'
  BY <1>6, GetPodInv DEF GetSlavePod
<1>7. CASE LabelSlavePod
  BY <1>7, LabelSlaveInv
<1>8. CASE ConfigureSemiSync
  <2>1. \A m \in Members : role[m] = "master" => m = Node
    BY <1>8 DEF ConfigureSemiSync, FailoverInv, SlavesInv, SlaveLoop
  <2> QED
    BY <1>8, <2>1, ReturnInv
    DEF ConfigureSemiSync, view, FailoverInv, ElectionInv
<1>9. CASE LeaderElected
  <2>1. /\ leading' = [leading EXCEPT ![Node] = TRUE]
        /\ UNCHANGED <<cluster, worker>>
    BY <1>9 DEF LeaderElected, Elected
  <2> QED
    BY <2>1, IntegrationAssumption
    DEF cluster, worker, FailoverInv, IntegrationTypeOK, ElectionInv,
        SlavesInv, SuccessLeavesOneMaster
<1>10. CASE ProcessRestarts
  BY <1>10, ReturnInv, IntegrationAssumption
  DEF ProcessRestarts, Restarted, FailoverInv, ElectionInv
<1>11. ASSUME NEW m \in Members, PodWritten(m) \/ PodReplaced(m)
       PROVE  FailoverInv'
  BY <1>11, ChangeInv
<1>12. CASE UNCHANGED integrationVars
  BY <1>12
  DEF integrationVars, view, cluster, worker, FailoverInv, IntegrationTypeOK,
      ElectionInv, SlavesInv, SuccessLeavesOneMaster
<1> QED
  BY <1>1, <1>2, <1>3, <1>4, <1>5, <1>6, <1>7, <1>8, <1>9, <1>10, <1>11, <1>12
  DEF IntegrationNext, FailoverStep

----------------------------------------------------------------------------
(* Theorems.                                                               *)

(* The invariant of the fail-over.                                         *)
THEOREM FailoverInvariance == IntegrationSpec => []FailoverInv
  BY FailoverInitInv, FailoverStepInv, PTL DEF IntegrationSpec

(* The variables of the fail-over keep their types.                        *)
THEOREM FailoverTypes == IntegrationSpec => []IntegrationTypeOK
<1>1. FailoverInv => IntegrationTypeOK
  BY DEF FailoverInv
<1> QED
  BY <1>1, FailoverInvariance, PTL

(* A fail-over that returns without an error leaves no master but this     *)
(* node, for any number of members, errors, restarts and changes of pods.  *)
THEOREM SuccessIsSafe == IntegrationSpec => []SuccessLeavesOneMaster
<1>1. FailoverInv => SuccessLeavesOneMaster
  BY DEF FailoverInv
<1> QED
  BY <1>1, FailoverInvariance, PTL

(* The state that RaftBasedMasterElection has read is still true when the  *)
(* master label is written.                                                *)
THEOREM LabelFollowsLeadership == IntegrationSpec => MasterLabelMeansLeader
<1>1. ASSUME FailoverInv, IntegrationNext, NEW m \in Members,
             role[m] # "master", role'[m] = "master"
      PROVE  m = Node /\ leading[Node]
  <2>0. role \in [Members -> {"none", "master", "slave"}]
    BY <1>1 DEF FailoverInv, IntegrationTypeOK
  <2>1. role' # role
    BY <1>1
  <2>2. ~ \E k \in Members : PodReplaced(k)
    BY <1>1, <2>0 DEF PodReplaced
  <2>3. ~LabelSlavePod
    BY <1>1, <2>0, <2>1 DEF LabelSlavePod, UpdateLabel
  <2>4. LabelMasterPod
    BY <1>1, <2>1, <2>2, <2>3
    DEF IntegrationNext, FailoverStep, HandleRaftBasedFailover, cluster,
        ElectionCompleted, ElectionTimedOut, GetMasterPod, GetSlavePod, GetPod,
        ConfigureSemiSync, LeaderElected, ProcessRestarts, PodWritten
  <2>5. pc = "labelMaster" /\ role' = [role EXCEPT ![target] = "master"]
    BY <2>1, <2>4 DEF LabelMasterPod, UpdateLabel
  <2>6. target = Node /\ leading[Node]
    BY <1>1, <2>5
    DEF FailoverInv, SlavesInv, ElectionInv, AfterElection
  <2> QED
    BY <1>1, <2>0, <2>5, <2>6
<1>2. FailoverInv /\ [IntegrationNext]_integrationVars =>
        [\A m \in Members :
            role[m] # "master" /\ role'[m] = "master"
                => m = Node /\ leading[Node]]_integrationVars
  BY <1>1
<1> QED
  BY <1>2, FailoverInvariance, PTL DEF IntegrationSpec, MasterLabelMeansLeader
============================================================================
