----------------------- MODULE MysqlReconcilerProofs -----------------------
(***************************************************************************)
(* Theorems about MysqlReconciler, for every size of the cluster, every    *)
(* set of edits and every number of faults.                                *)
(*                                                                         *)
(* ReconcilerInv is the inductive invariant.  What the worker has done so  *)
(* far is known from where it stands (pc) and from what is left of the     *)
(* loop it is in (todo); each part below says so for one kind of object.   *)
(***************************************************************************)
EXTENDS MysqlReconciler, TLAPS

InitPhase  == {"services", "configMaps", "pvcs", "pods", "annotate"}
RunPhase   == {"replicas", "missing", "missingConfigMap", "missingPod",
               "checkMaster", "checkEndpoints", "failover", "replicaStatus",
               "listReplicas", "checkReplica", "slaveRoles", "demote"}
SetupPhase == {"labelMaster", "execMaster", "execSlave", "labelSlave"}

(* The sizes the worker knows are values the resource had.                 *)
SizeInv ==
    /\ want \in Sizes \cup {Replicas}
    /\ replicas \in Sizes \cup {Replicas, 0}

(* init runs before the annotation is there, reconcileReplicas and what    *)
(* follows it afterwards; setupMasterSlaveReplication returns to its       *)
(* caller.                                                                 *)
PhaseInv ==
    /\ pc \in InitPhase => ~initialized
    /\ pc \in RunPhase => initialized
    /\ pc = "checkReplica" => after = "slaveRoles"
    /\ pc \in SetupPhase =>
          after = IF initialized THEN "slaveRoles" ELSE "annotate"

(* The loops over numbers stay within spec.replicas, and at is the number  *)
(* whose turn it is.                                                       *)
LoopInv ==
    /\ pc \in {"configMaps", "pvcs", "pods", "missing", "missingConfigMap",
               "missingPod", "wait"} => todo \subseteq 1..replicas
    /\ pc \in {"missingConfigMap", "missingPod", "wait", "labelSlave"} =>
          at \in todo
    /\ pc = "annotate" => todo = {}

(* A pod has its claim and its my.cnf, and so have the numbers a loop of   *)
(* init has left behind and the missing number whose turn it is.           *)
StorageInv ==
    /\ pods \subseteq pvcs \cap configMaps
    /\ pc = "configMaps" => (1..replicas) \ todo \subseteq configMaps
    /\ pc = "pvcs" => /\ 1..replicas \subseteq configMaps
                      /\ (1..replicas) \ todo \subseteq pvcs
    /\ pc = "pods" \/ (pc = "wait" /\ ~initialized) =>
          1..replicas \subseteq pvcs \cap configMaps
    /\ pc = "missingConfigMap" => at \in pvcs
    /\ pc = "missingPod" => at \in pvcs \cap configMaps

(* Only mysql-01 is ever labelled master, is found in the Endpoints, or is *)
(* set up as the master, and no loop that labels slaves comes to it.       *)
MasterInv ==
    /\ \A i \in Numbers : role[i] = "master" => i = 1
    /\ endpoints \subseteq {1}
    /\ pc \in SetupPhase => master = 1 /\ 1 \in Numbers /\ 1 \notin todo
    /\ pc \in {"listReplicas", "checkReplica"} => master = 1 /\ 1 \in Numbers
    /\ pc \in {"demote", "checkReplica"} => 1 \notin todo
    /\ 1 \notin failed

(* From the moment mysql-01 is labelled only a deletion takes the label.   *)
KeptInv ==
    initialized \/ pc \in {"execMaster", "execSlave", "labelSlave", "annotate"}
        => 1 \in Numbers /\ (role[1] = "master" \/ 1 \in lost)

(* In a first run the other replicas are still to come or were labelled.   *)
LabelledInv ==
    (pc \in SetupPhase /\ ~initialized) \/ pc = "annotate" =>
        \A i \in 2..replicas : i \in todo \/ role[i] # "none" \/ i \in lost

ReconcilerInv ==
    /\ TypeOK /\ SizeInv /\ PhaseInv /\ LoopInv
    /\ StorageInv /\ MasterInv /\ KeptInv /\ LabelledInv

----------------------------------------------------------------------------
(* Numbers and the parts that hold whatever the phase is.                  *)

(* The largest size bounds the numbers.                                    *)
LEMMA LargestSize ==
    \E k \in Sizes \cup {Replicas} :
        Numbers = 1..k /\ \A j \in Sizes \cup {Replicas} : j <= k
BY SizesAssumption DEF Numbers

(* The pods a size asks for have numbers.                                  *)
LEMMA SizesCovered ==
    ASSUME NEW n \in Sizes \cup {Replicas, 0}
    PROVE  n \in Nat /\ 1..n \subseteq Numbers
BY LargestSize, ReconcilerAssumption

(* Numbers start at 1, so None is not one of them.                         *)
LEMMA NumbersPositive ==
    \A i \in Numbers : i \in Nat /\ i >= 1 /\ i # None
BY LargestSize, ReconcilerAssumption DEF None

CoreInv == StateTypeOK /\ SizeInv /\ LoopInv

(* A turn of createPod's callers.                                          *)
LEMMA NextPodCore ==
    ASSUME CoreInv, NEW i \in Numbers, i \in todo, todo \subseteq 1..replicas,
           NextPod(i), replicas' = replicas
    PROVE  /\ todo' \subseteq Numbers
           /\ master' \in Numbers \cup {None}
           /\ after' \in {"annotate", "slaveRoles", "done"}
           /\ pc' \in {"missing", "pods"} => todo' \subseteq 1..replicas
           /\ pc' \in {"checkMaster", "missing", "labelMaster", "pods"}
<1>1. 1..replicas \subseteq Numbers /\ replicas \in Nat
  BY SizesCovered DEF CoreInv, SizeInv
<1>2. 1 \in Numbers /\ 2..replicas \subseteq Numbers
  BY <1>1
<1>3. /\ todo \subseteq Numbers /\ master \in Numbers \cup {None}
      /\ after \in {"annotate", "slaveRoles", "done"}
  BY DEF CoreInv, StateTypeOK
<1>4. CASE todo = {i} /\ ~initialized
  BY <1>2, <1>3, <1>4 DEF NextPod
<1>5. CASE ~(todo = {i} /\ ~initialized)
  BY <1>2, <1>3, <1>5 DEF NextPod
<1> QED
  BY <1>4, <1>5

(* createPod.                                                              *)
LEMMA CreatePodCore ==
    ASSUME CoreInv, NEW i \in Numbers, i \in todo, todo \subseteq 1..replicas,
           CreatePod(i), replicas' = replicas
    PROVE  /\ pods' \in {pods, pods \cup {i}} /\ queue' \in BOOLEAN
           /\ todo' \subseteq Numbers
           /\ at' \in Numbers \cup {None}
           /\ master' \in Numbers \cup {None}
           /\ after' \in {"annotate", "slaveRoles", "done"}
           /\ pc' \in {"missing", "pods", "wait"} =>
                 todo' \subseteq 1..replicas
           /\ pc' \in {"checkMaster", "missing", "labelMaster", "pods", "wait"}
           /\ pc' = "wait" => at' \in todo'
<1>1. CASE i \in pods /\ NextPod(i) /\ at' = None /\ UNCHANGED <<pods, queue>>
  BY <1>1, NextPodCore DEF CoreInv, StateTypeOK
<1>2. CASE i \notin pods
  BY <1>2 DEF CreatePod, CoreInv, StateTypeOK
<1> QED
  BY <1>1, <1>2 DEF CreatePod

(* Spending keeps the budget of every fault a natural number.              *)
LEMMA SpendType ==
    ASSUME budget \in [Faults -> Nat], NEW f \in Faults, Spend(f)
    PROVE  budget' \in [Faults -> Nat]
BY DEF Spend

(* checkReplicaStatus finds the master in the Endpoints.                   *)
LEMMA ReplicaStatusCore ==
    ASSUME StateTypeOK, ReplicaStatus
    PROVE  /\ master' \in Numbers \cup {None} /\ queue' \in BOOLEAN
           /\ pc' \in {"listReplicas", "idle"}
BY DEF StateTypeOK, ReplicaStatus, EndpointMaster, Requeue

(* It lists the other pods.                                                *)
LEMMA ListReplicasCore ==
    ASSUME StateTypeOK, NEW whenHealthy, ListReplicas(whenHealthy)
    PROVE  /\ todo' \subseteq Numbers /\ budget' \in [Faults -> Nat]
           /\ after' = "slaveRoles"
           /\ pc' \in {whenHealthy, "checkReplica"}
<1>1. "call" \in Faults
  BY DEF Faults
<1> QED
  BY <1>1, SpendType DEF StateTypeOK, ListReplicas

(* It asks one of them for its slave threads.                              *)
LEMMA CheckReplicaCore ==
    ASSUME StateTypeOK, NEW whenHealthy, NEW i \in Numbers,
           CheckReplica(i, whenHealthy)
    PROVE  /\ todo' \subseteq Numbers /\ failed' \subseteq Numbers
           /\ queue' \in BOOLEAN
           /\ pc' \in {whenHealthy, "checkReplica", "labelMaster", "idle"}
<1>1. CASE ExecCommandOnPod(i) /\ todo # {i}
  BY <1>1 DEF StateTypeOK, CheckReplica
<1>2. CASE ExecCommandOnPod(i) /\ todo = {i}
  BY <1>2 DEF StateTypeOK, CheckReplica
<1>3. CASE ~ExecCommandOnPod(i)
  BY <1>3 DEF StateTypeOK, CheckReplica, Requeue
<1> QED
  BY <1>1, <1>2, <1>3

(* Every step keeps the types, the sizes and the bounds of the loops.      *)
LEMMA CoreStep ==
    ASSUME CoreInv, [Next]_vars
    PROVE  CoreInv'
<1> USE DEF CoreInv, StateTypeOK, SizeInv, LoopInv
<1>s. /\ want \in Nat /\ replicas \in Nat
      /\ 1..replicas \subseteq Numbers
      /\ \A n \in Sizes : n \in Nat
  BY SizesCovered, ReconcilerAssumption
<1>f. /\ "call" \in Faults /\ "delete" \in Faults /\ "crash" \in Faults
      /\ "break" \in Faults /\ "edit" \in Faults /\ "restart" \in Faults
  BY DEF Faults
<1>1. CASE Begin
  BY <1>1, <1>s DEF Begin, objects, podVars
<1>2. CASE Finish
  BY <1>2, <1>s DEF Finish, objects, podVars, locals
<1>3. CASE CallFails
  BY <1>3, <1>s, <1>f, SpendType
  DEF CallFails, Requeue, objects, podVars, locals, process
<1>4. ASSUME NEW s \in {"master", "slave"}, CreateService(s)
      PROVE  CoreInv'
  <2>1. /\ services' \subseteq {"master", "slave"} /\ queue' \in BOOLEAN
        /\ \/ todo' = todo /\ pc' \in {"services", "idle"}
           \/ todo' = 1..replicas /\ pc' = "configMaps"
    BY <1>4 DEF CreateService, Requeue
  <2> QED
    BY <1>4, <2>1, <1>s DEF CreateService, podVars, process
<1>5. ASSUME NEW i \in Numbers, CreateConfigMap(i)
      PROVE  CoreInv'
  BY <1>5, <1>s DEF CreateConfigMap, First, Advance, podVars, process
<1>6. ASSUME NEW i \in Numbers, CreatePVC(i)
      PROVE  CoreInv'
  BY <1>6, <1>s DEF CreatePVC, First, Advance, podVars, process
<1>7. ASSUME NEW i \in Numbers, CreateInitialPod(i)
      PROVE  CoreInv'
  <2>1. i \in todo /\ todo \subseteq 1..replicas /\ replicas' = replicas
    BY <1>7 DEF CreateInitialPod, First
  <2> QED
    BY <1>7, <2>1, <1>s, CreatePodCore DEF CreateInitialPod, objects, process
<1>8. ASSUME NEW i \in Numbers, CreateMissingPVC(i)
      PROVE  CoreInv'
  BY <1>8, <1>s DEF CreateMissingPVC, podVars, process
<1>29. CASE CreateMissingConfigMap
  <2>1. at \in Numbers /\ at \in todo /\ todo \subseteq 1..replicas
    BY <1>29 DEF CreateMissingConfigMap
  <2> QED
    BY <1>29, <2>1, <1>s DEF CreateMissingConfigMap, podVars, locals, process
<1>30. CASE CreateMissingPod
  <2>1. /\ at \in todo /\ todo \subseteq 1..replicas /\ replicas' = replicas
        /\ at \in Numbers
    BY <1>30 DEF CreateMissingPod
  <2>2. CreatePod(at)
    BY <1>30 DEF CreateMissingPod
  <2> QED
    BY <1>30, <2>1, <2>2, <1>s, CreatePodCore
    DEF CreateMissingPod, objects, process
<1>9. CASE PodCreated
  <2>1. /\ at \in todo /\ todo \subseteq 1..replicas /\ replicas' = replicas
        /\ at \in Numbers
    BY <1>9, <1>s DEF PodCreated
  <2>2. NextPod(at)
    BY <1>9 DEF PodCreated
  <2> QED
    BY <1>9, <2>1, <2>2, <1>s, NextPodCore DEF PodCreated, objects, podVars,
                                               process
<1>10. CASE Annotate
  BY <1>10, <1>s DEF Annotate, objects, podVars, locals, process
<1>11. CASE LabelMaster
  <2>1. /\ role' \in [Numbers -> {"none", "master", "slave"}]
        /\ queue' = TRUE /\ pc' \in {"execMaster", "idle"}
    BY <1>11 DEF LabelMaster, Label, Requeue
  <2> QED
    BY <1>11, <2>1 DEF LabelMaster, objects, locals, process
<1>12. CASE ExecMaster
  <2>1. /\ running' \subseteq running /\ queue' \in BOOLEAN
        /\ \/ pc' \in {"idle", "execSlave"}
           \/ todo = {} /\ pc' = after
    BY <1>12 DEF ExecMaster, Requeue
  <2> QED
    BY <1>12, <2>1 DEF ExecMaster, objects, locals, process
<1>13. ASSUME NEW i \in Numbers, ExecSlave(i)
       PROVE  CoreInv'
  <2>1. /\ configured' \subseteq Numbers /\ running' \subseteq ready
        /\ queue' \in BOOLEAN /\ at' \in Numbers \cup {None}
        /\ pc' = "idle" \/ (pc' = "labelSlave" /\ at' \in todo)
    BY <1>13 DEF ExecSlave, ExecCommandOnPod, Requeue
  <2> QED
    BY <1>13, <2>1 DEF ExecSlave, objects, process
<1>14. CASE LabelSlave
  <2>1. /\ role' \in [Numbers -> {"none", "master", "slave"}]
        /\ queue' = TRUE /\ todo' \subseteq todo
        /\ \/ pc' \in {"idle", "execSlave"}
           \/ todo' = {} /\ pc' = after
    BY <1>14 DEF LabelSlave, Label, Requeue
  <2> QED
    BY <1>14, <2>1 DEF LabelSlave, objects, process
<1>15. CASE ReconcileReplicas
  <2>1. /\ todo' \subseteq 1..replicas /\ budget' \in [Faults -> Nat]
        /\ pc' \in {"checkMaster", "missing"}
    BY <1>15, <1>f, SpendType DEF ReconcileReplicas, FindMissing
  <2> QED
    BY <1>15, <2>1, <1>s DEF ReconcileReplicas, objects, podVars, process
<1>16. CASE ReadRaftState \/ CheckMasterStatus \/ Failover
  BY <1>16, <1>s DEF ReadRaftState, CheckMasterStatus, Failover, Requeue,
                     objects, podVars, locals, process
<1>17. CASE ReplicaStatus
  BY <1>17, ReplicaStatusCore DEF ReplicaStatus, objects, podVars, process
<1>31. CASE ListReplicas("slaveRoles")
  <2>1. /\ todo' \subseteq Numbers /\ budget' \in [Faults -> Nat]
        /\ after' = "slaveRoles"
        /\ pc' \in {"slaveRoles", "checkReplica"}
    BY <1>31, ListReplicasCore
  <2> QED
    BY <1>31, <2>1 DEF ListReplicas, objects, podVars, process
<1>32. ASSUME NEW i \in Numbers, CheckReplica(i, "slaveRoles")
       PROVE  CoreInv'
  <2>1. /\ todo' \subseteq Numbers /\ failed' \subseteq Numbers
        /\ queue' \in BOOLEAN
        /\ pc' \in {"slaveRoles", "checkReplica", "labelMaster", "idle"}
    BY <1>32, CheckReplicaCore
  <2> QED
    BY <1>32, <2>1 DEF CheckReplica, objects, podVars, process
<1>18. CASE SlaveRoles
  <2>1. /\ todo' \subseteq Numbers /\ queue' \in BOOLEAN
        /\ pc' \in {"done", "demote", "idle"}
    BY <1>18 DEF SlaveRoles, Requeue
  <2> QED
    BY <1>18, <2>1 DEF SlaveRoles, objects, podVars, process
<1>19. ASSUME NEW i \in Numbers, Demote(i)
       PROVE  CoreInv'
  <2>1. /\ role' \in [Numbers -> {"none", "master", "slave"}]
        /\ queue' = TRUE /\ todo' \subseteq todo
        /\ pc' \in {"done", "demote", "idle"}
    BY <1>19 DEF Demote, Label, Requeue
  <2> QED
    BY <1>19, <2>1 DEF Demote, objects, process
<1>20. ASSUME NEW i \in Numbers, PodReady(i)
       PROVE  CoreInv'
  BY <1>20, <1>s DEF PodReady, objects, locals, process
<1>21. ASSUME NEW i \in Numbers, PodCrashes(i)
       PROVE  CoreInv'
  BY <1>21, <1>s, <1>f, SpendType DEF PodCrashes, objects, locals, process
<1>22. ASSUME NEW i \in Numbers, PodDeleted(i)
       PROVE  CoreInv'
  BY <1>22, <1>s, <1>f, SpendType DEF PodDeleted, objects, locals, process
<1>23. ASSUME NEW i \in Numbers, ReplicationBreaks(i)
       PROVE  CoreInv'
  BY <1>23, <1>s, <1>f, SpendType DEF ReplicationBreaks, objects, locals,
                                      process
<1>24. ASSUME NEW size \in Sizes, SpecEdited(size)
       PROVE  CoreInv'
  BY <1>24, <1>s, <1>f, SpendType DEF SpecEdited, objects, podVars, locals,
                                      process
<1>25. CASE EndpointsSync
  BY <1>25 DEF EndpointsSync, objects, podVars, locals, process
<1>26. CASE LeaderElected \/ Resync
  <2>1. leading' \in BOOLEAN /\ queue' \in BOOLEAN
    BY <1>26 DEF LeaderElected, Resync, process
  <2> QED
    BY <1>26, <2>1 DEF LeaderElected, Resync, objects, podVars, locals, process
<1>27. CASE OperatorRestart
  BY <1>27, <1>s, <1>f, SpendType DEF OperatorRestart, objects, podVars
<1>28. CASE UNCHANGED vars
  BY <1>28 DEF vars, objects, podVars, locals, process
<1> QED
  BY <1>1, <1>2, <1>3, <1>4, <1>5, <1>6, <1>7, <1>8, <1>9, <1>10, <1>11, <1>12,
     <1>13, <1>14, <1>15, <1>16, <1>17, <1>18, <1>19, <1>20, <1>21, <1>22,
     <1>23, <1>24, <1>25, <1>26, <1>27, <1>28, <1>29, <1>30, <1>31, <1>32
  DEF Next, WorkerStep, Environment

----------------------------------------------------------------------------
(* Where the worker stands.                                                *)

(* The locations of TypeOK.                                                *)
LEMMA Locations ==
    pc \in InitPhase \cup RunPhase \cup SetupPhase \cup {"idle", "done", "wait"}
        /\ StateTypeOK <=> TypeOK
BY DEF TypeOK, InitPhase, RunPhase, SetupPhase

(* What happens around the worker leaves it where it is, or ends it.       *)
LEMMA AroundTheWorker ==
    ASSUME Environment \/ UNCHANGED vars
    PROVE  /\ initialized' = initialized
           /\ configMaps' = configMaps /\ pvcs' = pvcs
           /\ pc' = "idle" \/ UNCHANGED <<pc, locals>>
BY DEF Environment, PodReady, PodCrashes, PodDeleted, ReplicationBreaks,
       SpecEdited, EndpointsSync, LeaderElected, Resync, OperatorRestart,
       vars, objects, locals

(* Every step keeps to the phases.                                         *)
LEMMA PhaseStep ==
    ASSUME TypeOK, PhaseInv, [Next]_vars, StateTypeOK'
    PROVE  TypeOK' /\ PhaseInv'
<1> DEFINE All == InitPhase \cup RunPhase \cup SetupPhase \cup {"idle", "done", "wait"}
<1> SUFFICES pc' \in All /\ PhaseInv'
  BY DEF TypeOK, InitPhase, RunPhase, SetupPhase
<1>0. pc \in All
  BY DEF TypeOK, InitPhase, RunPhase, SetupPhase
<1> USE DEF PhaseInv, InitPhase, RunPhase, SetupPhase
<1>1. CASE Environment \/ UNCHANGED vars
  BY <1>0, <1>1, AroundTheWorker DEF locals
<1>2. CASE CallFails \/ Begin \/ Finish
  BY <1>2 DEF CallFails, Requeue, Begin, Finish
<1>3. ASSUME NEW s \in {"master", "slave"}, CreateService(s)
      PROVE  pc' \in All /\ PhaseInv'
  BY <1>3 DEF CreateService, Requeue
<1>4. ASSUME NEW i \in Numbers, CreateConfigMap(i) \/ CreatePVC(i)
      PROVE  pc' \in All /\ PhaseInv'
  BY <1>4 DEF CreateConfigMap, CreatePVC, Advance
<1>5. ASSUME NEW i \in Numbers, CreateInitialPod(i)
      PROVE  pc' \in All /\ PhaseInv'
  BY <1>5 DEF CreateInitialPod, CreatePod, NextPod
<1>6. ASSUME NEW i \in Numbers, CreateMissingPVC(i)
      PROVE  pc' \in All /\ PhaseInv'
  BY <1>6 DEF CreateMissingPVC
<1>15. CASE CreateMissingConfigMap \/ CreateMissingPod
  BY <1>15 DEF CreateMissingConfigMap, CreateMissingPod, CreatePod, NextPod
<1>7. CASE PodCreated
  BY <1>7 DEF PodCreated, NextPod
<1>8. CASE Annotate
  BY <1>8 DEF Annotate
<1>9. CASE LabelMaster \/ ExecMaster
  BY <1>9 DEF LabelMaster, ExecMaster, Requeue, locals
<1>10. ASSUME NEW i \in Numbers, ExecSlave(i) \/ Demote(i)
       PROVE  pc' \in All /\ PhaseInv'
  BY <1>10 DEF ExecSlave, Demote, Requeue
<1>11. CASE LabelSlave
  BY <1>11 DEF LabelSlave, Requeue
<1>12. CASE ReconcileReplicas \/ ReadRaftState \/ CheckMasterStatus \/ Failover
  BY <1>12 DEF ReconcileReplicas, ReadRaftState, CheckMasterStatus, Failover,
               Requeue
<1>13. CASE ReplicaStatus \/ ListReplicas("slaveRoles")
  BY <1>13 DEF ReplicaStatus, ListReplicas, Requeue
<1>16. ASSUME NEW i \in Numbers, CheckReplica(i, "slaveRoles")
       PROVE  pc' \in All /\ PhaseInv'
  BY <1>16 DEF CheckReplica, Requeue
<1>14. CASE SlaveRoles
  BY <1>14 DEF SlaveRoles, Requeue
<1> QED
  BY <1>1, <1>2, <1>3, <1>4, <1>5, <1>6, <1>7, <1>8, <1>9, <1>10, <1>11, <1>12,
     <1>13, <1>14, <1>15, <1>16
  DEF Next, WorkerStep

----------------------------------------------------------------------------
(* Volume claims and ConfigMaps come before the pod.                       *)

(* Claims and ConfigMaps are never deleted.                                *)
LEMMA StorageGrows ==
    ASSUME [Next]_vars
    PROVE  pvcs \subseteq pvcs' /\ configMaps \subseteq configMaps'
<1>1. CASE Environment \/ UNCHANGED vars
  BY <1>1, AroundTheWorker
<1>2. CASE CallFails
  BY <1>2 DEF CallFails, objects
<1>3. CASE WorkerStep
  BY <1>3
  DEF WorkerStep, Begin, Finish, CreateService, CreateConfigMap, CreatePVC,
      CreateInitialPod, ExecSlave, CreateMissingPVC, CreateMissingConfigMap,
      CreateMissingPod, Demote, PodCreated, Annotate, LabelMaster, ExecMaster,
      LabelSlave, ReconcileReplicas, ReadRaftState, CheckMasterStatus,
      Failover, ReplicaStatus, ListReplicas, CheckReplica, SlaveRoles, objects
<1> QED
  BY <1>1, <1>2, <1>3 DEF Next

(* The set of pods grows in createPod only.                                *)
LEMMA PodSource ==
    ASSUME [Next]_vars
    PROVE  \/ pods' \subseteq pods
           \/ \E i : /\ pods' = pods \cup {i}
                     /\ \/ CreateInitialPod(i)
                        \/ CreateMissingPod /\ i = at
<1>1. CASE Environment \/ UNCHANGED vars
  BY <1>1
  DEF Environment, PodReady, PodCrashes, PodDeleted, ReplicationBreaks,
      SpecEdited, EndpointsSync, LeaderElected, Resync, OperatorRestart,
      vars, podVars
<1>2. CASE CallFails
  BY <1>2 DEF CallFails, podVars
<1>3. ASSUME NEW i, CreateInitialPod(i) \/ (CreateMissingPod /\ i = at)
      PROVE  pods' = pods \/ pods' = pods \cup {i}
  BY <1>3 DEF CreateInitialPod, CreateMissingPod, CreatePod
<1>4. CASE WorkerStep
  BY <1>3, <1>4
  DEF WorkerStep, Begin, Finish, CreateService, CreateConfigMap, CreatePVC,
      CreateMissingPVC, CreateMissingConfigMap, ExecSlave, Demote, PodCreated,
      Annotate, LabelMaster, ExecMaster, LabelSlave, ReconcileReplicas,
      ReadRaftState, CheckMasterStatus, Failover, ReplicaStatus, ListReplicas,
      CheckReplica, SlaveRoles, podVars
<1> QED
  BY <1>1, <1>2, <1>4 DEF Next

(* Every step keeps the storage ahead of the pods.                         *)
LEMMA StorageStep ==
    ASSUME CoreInv, PhaseInv, StorageInv, [Next]_vars
    PROVE  StorageInv'
<1>1. pvcs \subseteq pvcs' /\ configMaps \subseteq configMaps'
  BY StorageGrows
<1>2. pods' \subseteq pvcs' \cap configMaps'
  <2>1. CASE pods' \subseteq pods
    BY <1>1, <2>1 DEF StorageInv
  <2>2. ASSUME NEW i, pods' = pods \cup {i},
               CreateInitialPod(i) \/ (CreateMissingPod /\ i = at)
        PROVE  pods' \subseteq pvcs' \cap configMaps'
    <3>1. CASE CreateInitialPod(i)
      BY <1>1, <2>2, <3>1
      DEF StorageInv, CoreInv, LoopInv, CreateInitialPod, First
    <3>2. CASE CreateMissingPod /\ i = at
      BY <1>1, <2>2, <3>2 DEF StorageInv, CreateMissingPod
    <3> QED
      BY <2>2, <3>1, <3>2
  <2> QED
    BY <2>1, <2>2, PodSource
<1> DEFINE Loops ==
              /\ pc = "configMaps" => (1..replicas) \ todo \subseteq configMaps
              /\ pc = "pvcs" => /\ 1..replicas \subseteq configMaps
                                /\ (1..replicas) \ todo \subseteq pvcs
              /\ pc = "pods" \/ (pc = "wait" /\ ~initialized) =>
                    1..replicas \subseteq pvcs \cap configMaps
              /\ pc = "missingConfigMap" => at \in pvcs
              /\ pc = "missingPod" => at \in pvcs \cap configMaps
           Kept == {"configMaps", "pvcs", "pods", "wait", "missingConfigMap",
                    "missingPod"}
<1> SUFFICES Loops'
  BY <1>2 DEF StorageInv
<1>3. Loops
  BY DEF StorageInv
<1>4. CASE Environment \/ UNCHANGED vars
  BY <1>3, <1>4, AroundTheWorker DEF locals
<1>5. CASE pc' \notin Kept
  BY <1>5
<1>6. ASSUME NEW s \in {"master", "slave"}, CreateService(s)
      PROVE  Loops'
  BY <1>3, <1>6 DEF CreateService, Requeue
<1>7. ASSUME NEW i \in Numbers, CreateConfigMap(i)
      PROVE  Loops'
  BY <1>3, <1>7 DEF CreateConfigMap, Advance
<1>8. ASSUME NEW i \in Numbers, CreatePVC(i)
      PROVE  Loops'
  BY <1>3, <1>8 DEF CreatePVC, Advance
<1>9. ASSUME NEW i \in Numbers, CreateInitialPod(i)
      PROVE  Loops'
  BY <1>3, <1>9 DEF CreateInitialPod, CreatePod, NextPod, objects
<1>10. ASSUME NEW i \in Numbers, CreateMissingPVC(i)
       PROVE  Loops'
  BY <1>10 DEF CreateMissingPVC
<1>13. CASE CreateMissingConfigMap
  BY <1>3, <1>13 DEF CreateMissingConfigMap, locals
<1>14. CASE CreateMissingPod
  BY <1>14 DEF CreateMissingPod, CreatePod, NextPod, PhaseInv, RunPhase
<1>11. CASE PodCreated
  BY <1>3, <1>11 DEF PodCreated, NextPod, objects
<1>12. \/ Environment \/ UNCHANGED vars \/ PodCreated
       \/ \E s \in {"master", "slave"} : CreateService(s)
       \/ CreateMissingConfigMap \/ CreateMissingPod
       \/ \E i \in Numbers : \/ CreateConfigMap(i) \/ CreatePVC(i)
                             \/ CreateInitialPod(i) \/ CreateMissingPVC(i)
       \/ pc' \notin Kept
  BY CoreStep
  DEF Next, CallFails, WorkerStep, Begin, Finish, ExecSlave, Demote, Annotate,
      LabelMaster, ExecMaster, LabelSlave, ReconcileReplicas, ReadRaftState,
      CheckMasterStatus, Failover, ReplicaStatus, ListReplicas, CheckReplica,
      SlaveRoles, Requeue, CoreInv, StateTypeOK
<1> QED
  BY <1>4, <1>5, <1>6, <1>7, <1>8, <1>9, <1>10, <1>11, <1>12, <1>13, <1>14

----------------------------------------------------------------------------
(* The master label.                                                       *)

(* Every step keeps the label, the Endpoints and the setup with mysql-01.  *)
LEMMA MasterStep ==
    ASSUME CoreInv, MasterInv, [Next]_vars, StateTypeOK'
    PROVE  MasterInv'
<1> DEFINE Labels == \A i \in Numbers : role[i] = "master" => i = 1
           Work == /\ pc \in SetupPhase =>
                         master = 1 /\ 1 \in Numbers /\ 1 \notin todo
                   /\ pc \in {"listReplicas", "checkReplica"} =>
                         master = 1 /\ 1 \in Numbers
                   /\ pc \in {"demote", "checkReplica"} => 1 \notin todo
           Checks == \E i \in Numbers : CheckReplica(i, "slaveRoles")
<1>0. /\ Labels /\ Work /\ endpoints \subseteq {1} /\ 1 \notin failed
      /\ role \in [Numbers -> {"none", "master", "slave"}]
  BY DEF MasterInv, CoreInv, StateTypeOK
<1>1. Labels'
  <2>1. CASE role' = role
    BY <1>0, <2>1
  <2>2. ASSUME NEW i, NEW r \in {"none", "slave"}, role' = [role EXCEPT ![i] = r]
        PROVE  Labels'
    BY <1>0, <2>2
  <2>3. CASE LabelMaster
    BY <1>0, <2>3 DEF LabelMaster, Label, SetupPhase
  <2>4. \/ role' = role \/ LabelMaster
        \/ \E i : \E r \in {"none", "slave"} : role' = [role EXCEPT ![i] = r]
    BY DEF Next, WorkerStep, Environment, CallFails, Begin, Finish,
           CreateService, CreateConfigMap, CreatePVC, CreateInitialPod,
           ExecSlave, CreateMissingPVC, CreateMissingConfigMap,
           CreateMissingPod, Demote, PodCreated, Annotate, ExecMaster,
           LabelSlave, ReconcileReplicas, ReadRaftState, CheckMasterStatus,
           Failover, ReplicaStatus, ListReplicas, CheckReplica, SlaveRoles,
           PodReady, PodCrashes, PodDeleted, ReplicationBreaks, SpecEdited,
           EndpointsSync, LeaderElected, Resync, OperatorRestart, Label,
           podVars, vars
  <2> QED
    BY <2>1, <2>2, <2>3, <2>4
<1>2. endpoints' \subseteq {1}
  <2>1. CASE EndpointsSync
    BY <1>0, <2>1 DEF EndpointsSync, CoreInv, StateTypeOK
  <2>2. endpoints' = endpoints \/ EndpointsSync
    BY DEF Next, WorkerStep, Environment, CallFails, Begin, Finish,
           CreateService, CreateConfigMap, CreatePVC, CreateInitialPod,
           ExecSlave, CreateMissingPVC, CreateMissingConfigMap,
           CreateMissingPod, Demote, PodCreated, Annotate, LabelMaster,
           ExecMaster, LabelSlave, ReconcileReplicas, ReadRaftState,
           CheckMasterStatus, Failover, ReplicaStatus, ListReplicas,
           CheckReplica, SlaveRoles, PodReady, PodCrashes, PodDeleted,
           ReplicationBreaks, SpecEdited, LeaderElected, Resync,
           OperatorRestart, vars
  <2> QED
    BY <1>0, <2>1, <2>2
<1>3. Work'
  <2> USE DEF SetupPhase
  <2>1. CASE Environment \/ UNCHANGED vars
    BY <1>0, <2>1, AroundTheWorker DEF locals
  <2>2. ASSUME NEW i \in Numbers, i \in todo, todo \subseteq 1..replicas,
               NextPod(i), replicas' = replicas
        PROVE  Work'
    <3>1. replicas \in Nat /\ 1..replicas \subseteq Numbers
      BY SizesCovered DEF CoreInv, SizeInv
    <3>2. 1 \in Numbers
      BY <2>2, <3>1
    <3> QED
      BY <2>2, <3>2 DEF NextPod
  <2>3. ASSUME NEW i \in Numbers,
               CreateInitialPod(i) \/ (CreateMissingPod /\ i = at)
        PROVE  Work'
    <3>1. i \in todo /\ todo \subseteq 1..replicas /\ replicas' = replicas
      BY <2>3 DEF CreateInitialPod, CreateMissingPod, First, CoreInv, LoopInv
    <3>2. NextPod(i) \/ pc' = "wait"
      BY <2>3 DEF CreateInitialPod, CreateMissingPod, CreatePod
    <3> QED
      BY <2>2, <3>1, <3>2
  <2>11. CASE CreateMissingPod
    <3>1. at \in Numbers
      BY <2>11 DEF CreateMissingPod, CoreInv, LoopInv, StateTypeOK
    <3> QED
      BY <2>3, <2>11, <3>1
  <2>4. CASE PodCreated
    BY <2>2, <2>4 DEF PodCreated, CoreInv, LoopInv, StateTypeOK
  <2>5. CASE LabelMaster \/ ExecMaster
    BY <1>0, <2>5
    DEF LabelMaster, ExecMaster, Requeue, locals, CoreInv, StateTypeOK
  <2>6. ASSUME NEW i \in Numbers, ExecSlave(i) \/ Demote(i)
        PROVE  Work'
    BY <1>0, <2>6 DEF ExecSlave, Demote, Requeue
  <2>7. CASE LabelSlave
    BY <1>0, <2>7 DEF LabelSlave, Requeue, CoreInv, StateTypeOK
  <2>8. CASE ReplicaStatus \/ ListReplicas("slaveRoles")
    BY <1>0, <2>8
    DEF ReplicaStatus, ListReplicas, EndpointMaster, Requeue, CoreInv,
        StateTypeOK
  <2>12. ASSUME NEW i \in Numbers, CheckReplica(i, "slaveRoles")
         PROVE  Work'
    BY <1>0, <2>12 DEF CheckReplica, Requeue
  <2>9. CASE SlaveRoles
    BY <1>0, <2>9 DEF SlaveRoles, Requeue
  <2>10. \/ Environment \/ UNCHANGED vars \/ PodCreated \/ LabelMaster
         \/ ExecMaster \/ LabelSlave \/ ReplicaStatus \/ SlaveRoles
         \/ ListReplicas("slaveRoles") \/ CreateMissingPod
         \/ \E i \in Numbers : \/ CreateInitialPod(i) \/ ExecSlave(i)
                               \/ CheckReplica(i, "slaveRoles") \/ Demote(i)
         \/ pc' \notin SetupPhase \cup {"listReplicas", "checkReplica",
                                       "demote"}
    BY DEF Next, WorkerStep, CallFails, Begin, Finish, CreateService,
           CreateConfigMap, CreatePVC, Advance, Annotate, ReconcileReplicas,
           CreateMissingPVC, CreateMissingConfigMap, ReadRaftState,
           CheckMasterStatus, Failover, Requeue
  <2> QED
    BY <2>1, <2>3, <2>4, <2>5, <2>6, <2>7, <2>8, <2>9, <2>10, <2>11, <2>12
<1>4. 1 \notin failed'
  <2>1. CASE Checks
    BY <1>0, <2>1 DEF CheckReplica
  <2>2. failed' \in {failed, {}} \/ Checks
    BY DEF Next, WorkerStep, Environment, CallFails, Begin, Finish,
           CreateService, CreateConfigMap, CreatePVC, CreateInitialPod,
           ExecSlave, CreateMissingPVC, CreateMissingConfigMap,
           CreateMissingPod, Demote, PodCreated, Annotate, LabelMaster,
           ExecMaster, LabelSlave, ReconcileReplicas, ReadRaftState,
           CheckMasterStatus, Failover, ReplicaStatus, ListReplicas,
           SlaveRoles, PodReady, PodCrashes, PodDeleted, ReplicationBreaks,
           SpecEdited, EndpointsSync, LeaderElected, Resync, OperatorRestart,
           locals, vars
  <2> QED
    BY <1>0, <2>1, <2>2
<1> QED
  BY <1>1, <1>2, <1>3, <1>4 DEF MasterInv

(* A label is changed by the steps that give one and by a deletion, which  *)
(* is remembered.                                                          *)
LEMMA RoleSource ==
    ASSUME StateTypeOK, [Next]_vars, NEW k \in Numbers
    PROVE  /\ lost \subseteq lost'
           /\ \/ role'[k] = role[k]
              \/ k \in lost'
              \/ LabelMaster /\ k = master /\ role'[k] = "master"
              \/ LabelSlave /\ k = at /\ role'[k] = "slave"
              \/ Demote(k) /\ role'[k] = "slave"
<1> DEFINE Goal == /\ lost \subseteq lost'
                   /\ \/ role'[k] = role[k]
                      \/ k \in lost'
                      \/ LabelMaster /\ k = master /\ role'[k] = "master"
                      \/ LabelSlave /\ k = at /\ role'[k] = "slave"
                      \/ Demote(k) /\ role'[k] = "slave"
<1>0. role \in [Numbers -> {"none", "master", "slave"}]
  BY DEF StateTypeOK
<1>1. ASSUME NEW i \in Numbers, PodDeleted(i)
      PROVE  Goal
  BY <1>0, <1>1 DEF PodDeleted
<1>2. CASE LabelMaster
  BY <1>0, <1>2 DEF LabelMaster, Label
<1>3. CASE LabelSlave
  BY <1>0, <1>3 DEF LabelSlave, Label
<1>4. ASSUME NEW i \in Numbers, Demote(i)
      PROVE  Goal
  BY <1>0, <1>4 DEF Demote, Label
<1>5. \/ role' = role /\ lost' = lost
      \/ LabelMaster \/ LabelSlave
      \/ \E i \in Numbers : PodDeleted(i) \/ Demote(i)
  BY DEF Next, WorkerStep, Environment, CallFails, Begin, Finish,
         CreateService, CreateConfigMap, CreatePVC, CreateInitialPod,
         ExecSlave, CreateMissingPVC, CreateMissingConfigMap, CreateMissingPod,
         PodCreated, Annotate, ExecMaster, ReconcileReplicas, ReadRaftState,
         CheckMasterStatus, Failover, ReplicaStatus, ListReplicas,
         CheckReplica, SlaveRoles, PodReady, PodCrashes, ReplicationBreaks,
         SpecEdited, EndpointsSync, LeaderElected, Resync, OperatorRestart,
         podVars, vars
<1> QED
  BY <1>1, <1>2, <1>3, <1>4, <1>5

(* What carries the label of mysql-01 carries it on.                       *)
LEMMA KeptStep ==
    ASSUME CoreInv, PhaseInv, MasterInv, KeptInv, [Next]_vars
    PROVE  KeptInv'
<1> DEFINE Labelled == {"execMaster", "execSlave", "labelSlave", "annotate"}
           Kept == role[1] = "master" \/ 1 \in lost
<1>1. ASSUME 1 \in Numbers, Kept
      PROVE  Kept'
  <2>1. ~(LabelSlave /\ 1 = at) /\ ~Demote(1)
    BY DEF LabelSlave, Demote, CoreInv, LoopInv, MasterInv, SetupPhase
  <2> QED
    BY <1>1, <2>1, RoleSource DEF CoreInv
<1>2. CASE initialized \/ pc \in Labelled
  BY <1>1, <1>2 DEF KeptInv
<1>3. CASE ~initialized /\ pc \notin Labelled
  <2>1. CASE LabelMaster
    <3>1. CASE master \in pods
      BY <2>1, <3>1 DEF LabelMaster, Label, CoreInv, StateTypeOK, MasterInv,
                        SetupPhase, KeptInv
    <3>2. CASE master \notin pods
      BY <1>3, <2>1, <3>2 DEF LabelMaster, Requeue, KeptInv
    <3> QED
      BY <3>1, <3>2
  <2>2. CASE Environment \/ UNCHANGED vars
    BY <1>3, <2>2, AroundTheWorker DEF KeptInv, locals
  <2>3. CASE ~(LabelMaster \/ Environment \/ UNCHANGED vars)
    <3>1. initialized' = initialized /\ pc' \notin Labelled
      BY <1>3, <2>3
      DEF Next, WorkerStep, CallFails, Begin, Finish, CreateService,
          CreateConfigMap, CreatePVC, Advance, CreateInitialPod, ExecSlave,
          CreateMissingPVC, CreateMissingConfigMap, CreateMissingPod,
          CreatePod, NextPod, Demote, PodCreated, Annotate, ExecMaster,
          LabelSlave, ReconcileReplicas, ReadRaftState, CheckMasterStatus,
          Failover, ReplicaStatus, ListReplicas, CheckReplica, SlaveRoles,
          Requeue
    <3> QED
      BY <1>3, <3>1 DEF KeptInv
  <2> QED
    BY <2>1, <2>2, <2>3
<1> QED
  BY <1>2, <1>3

(* Every replica of a first run is labelled or left to do.                 *)
LEMMA LabelledStep ==
    ASSUME CoreInv, PhaseInv, MasterInv, LabelledInv, [Next]_vars
    PROVE  LabelledInv'
<1> DEFINE Setup == (pc \in SetupPhase /\ ~initialized) \/ pc = "annotate"
           Labelled(i) == role[i] # "none" \/ i \in lost
<1> SUFFICES ASSUME Setup', NEW k \in 2..replicas'
             PROVE  k \in todo' \/ Labelled(k)'
  BY DEF LabelledInv
<1>1. CASE ~Setup
  <2>1. todo' = 2..replicas'
    BY <1>1, AroundTheWorker
    DEF Next, WorkerStep, CallFails, Begin, Finish, CreateService,
        CreateConfigMap, CreatePVC, Advance, CreateInitialPod, ExecSlave,
        CreateMissingPVC, CreateMissingConfigMap, CreateMissingPod, CreatePod,
        NextPod, Demote, PodCreated, Annotate, LabelMaster, ExecMaster,
        LabelSlave, ReconcileReplicas, ReadRaftState, CheckMasterStatus,
        Failover, ReplicaStatus, ListReplicas, CheckReplica, SlaveRoles,
        Requeue, locals, PhaseInv, SetupPhase, InitPhase, RunPhase
  <2> QED
    BY <2>1
<1>2. CASE Setup
  <2>1. /\ replicas' = replicas
        /\ todo' = todo \/ (LabelSlave /\ todo' = todo \ {at} /\ at \in pods)
    BY <1>2, AroundTheWorker
    DEF Next, WorkerStep, CallFails, Begin, Finish, CreateService,
        CreateConfigMap, CreatePVC, CreateInitialPod, ExecSlave,
        CreateMissingPVC, CreateMissingConfigMap, CreateMissingPod, Demote,
        PodCreated, Annotate, LabelMaster, ExecMaster, LabelSlave,
        ReconcileReplicas, ReadRaftState, CheckMasterStatus, Failover,
        ReplicaStatus, ListReplicas, CheckReplica, SlaveRoles, Requeue, locals,
        SetupPhase
  <2>2. k \in Numbers
    <3>1. 1..replicas \subseteq Numbers /\ replicas \in Nat
      BY SizesCovered DEF CoreInv, SizeInv
    <3> QED
      BY <2>1, <3>1
  <2>3. k \in todo \/ Labelled(k)
    BY <1>2, <2>1 DEF LabelledInv
  <2>4. Labelled(k) => Labelled(k)'
    BY <2>2, RoleSource DEF CoreInv
  <2>5. ASSUME LabelSlave, at \in pods, k = at
        PROVE  Labelled(k)'
    BY <2>2, <2>5 DEF LabelSlave, Label, CoreInv, StateTypeOK
  <2> QED
    BY <2>1, <2>3, <2>4, <2>5
<1> QED
  BY <1>1, <1>2

----------------------------------------------------------------------------
(* The inductive invariant.                                                *)

(* A new resource without any object satisfies every part of it.           *)
LEMMA ReconcilerInit == Init => ReconcilerInv
<1> SUFFICES ASSUME Init PROVE ReconcilerInv
  OBVIOUS
<1>1. TypeOK
  BY ReconcilerAssumption DEF Init, TypeOK, StateTypeOK
<1>2. SizeInv /\ PhaseInv /\ LoopInv
  BY DEF Init, SizeInv, PhaseInv, LoopInv, InitPhase, RunPhase, SetupPhase
<1>3. StorageInv /\ MasterInv /\ KeptInv /\ LabelledInv
  BY DEF Init, StorageInv, MasterInv, KeptInv, LabelledInv, SetupPhase
<1> QED
  BY <1>1, <1>2, <1>3 DEF ReconcilerInv

(* Every step preserves it.                                                *)
LEMMA ReconcilerStep == ReconcilerInv /\ [Next]_vars => ReconcilerInv'
<1> SUFFICES ASSUME ReconcilerInv, [Next]_vars PROVE ReconcilerInv'
  OBVIOUS
<1>1. /\ TypeOK /\ CoreInv /\ PhaseInv /\ StorageInv /\ MasterInv /\ KeptInv
      /\ LabelledInv
  BY DEF ReconcilerInv, CoreInv, TypeOK
<1>2. CoreInv'
  BY <1>1, CoreStep
<1>3. StateTypeOK' /\ SizeInv' /\ LoopInv'
  BY <1>2 DEF CoreInv
<1>4. TypeOK' /\ PhaseInv'
  BY <1>1, <1>3, PhaseStep
<1>5. StorageInv' /\ MasterInv'
  BY <1>1, <1>3, StorageStep, MasterStep
<1>6. KeptInv' /\ LabelledInv'
  BY <1>1, KeptStep, LabelledStep
<1> QED
  BY <1>3, <1>4, <1>5, <1>6 DEF ReconcilerInv

(* ReconcilerInv is an invariant of Reconcile, with every interleaving of  *)
(* pods that come and go, late Endpoints, edits, failing calls and ends of *)
(* the process.                                                            *)
THEOREM ReconcilerInvariance == Spec => []ReconcilerInv
<1> QED
  BY ReconcilerInit, ReconcilerStep, PTL DEF Spec

(* The worker's loops and locals never leave the numbers of the cluster,   *)
(* and only ready pods replicate.                                          *)
THEOREM ReconcilerTypes == Spec => []TypeOK
<1>1. ReconcilerInv => TypeOK
  BY DEF ReconcilerInv
<1> QED
  BY <1>1, ReconcilerInvariance, PTL

(* createPod is never reached for a number whose PersistentVolumeClaim or  *)
(* ConfigMap does not exist.                                               *)
THEOREM StorageFirst == Spec => []PodHasStorage
<1>1. ReconcilerInv => PodHasStorage
  BY DEF ReconcilerInv, StorageInv, PodHasStorage
<1> QED
  BY <1>1, ReconcilerInvariance, PTL

(* setupMasterSlaveReplication and ensureSlaveRoles never leave two pods   *)
(* with the master label.                                                  *)
THEOREM SingleMaster == Spec => []AtMostOneMaster
<1>1. ReconcilerInv => AtMostOneMaster
  BY DEF ReconcilerInv, MasterInv, AtMostOneMaster, TypeOK, StateTypeOK
<1> QED
  BY <1>1, ReconcilerInvariance, PTL

(* Once initialized, only a deletion takes the label from mysql-01.        *)
THEOREM MasterLabelKept == Spec => []MasterKept
<1>1. ReconcilerInv => MasterKept
  BY DEF ReconcilerInv, KeptInv, MasterKept
<1> QED
  BY <1>1, ReconcilerInvariance, PTL

(* The annotation "initialized" is written only after every replica was    *)
(* labelled, whichever runs of init failed before.                         *)
THEOREM AnnotatedWhenConfigured == Spec => InitializedMeansConfigured
<1>1. ReconcilerInv /\ [Next]_vars =>
          (initialized' /\ ~initialized =>
             \A i \in 1..replicas : role[i] # "none" \/ i \in lost)
  <2> SUFFICES ASSUME ReconcilerInv, [Next]_vars, initialized', ~initialized,
                      NEW i \in 1..replicas
               PROVE  role[i] # "none" \/ i \in lost
    OBVIOUS
  <2>1. Annotate
    BY AroundTheWorker
    DEF Next, WorkerStep, CallFails, Begin, Finish, CreateService,
        CreateConfigMap, CreatePVC, CreateInitialPod, ExecSlave,
        CreateMissingPVC, CreateMissingConfigMap, CreateMissingPod, Demote,
        PodCreated, LabelMaster, ExecMaster, LabelSlave, ReconcileReplicas,
        ReadRaftState, CheckMasterStatus, Failover, ReplicaStatus,
        ListReplicas, CheckReplica, SlaveRoles
  <2>2. /\ role[1] = "master" \/ 1 \in lost
        /\ \A k \in 2..replicas : role[k] # "none" \/ k \in lost
    BY <2>1 DEF Annotate, ReconcilerInv, KeptInv, LabelledInv, LoopInv
  <2>3. i = 1 \/ i \in 2..replicas
    BY DEF ReconcilerInv, TypeOK, StateTypeOK
  <2> QED
    BY <2>2, <2>3
<1> QED
  BY <1>1, ReconcilerInvariance, PTL DEF Spec, InitializedMeansConfigured

============================================================================
