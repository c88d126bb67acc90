-------------------------- MODULE MysqlReconciler --------------------------
(***************************************************************************)
(* The MysqlClusterReconciler: Reconcile and everything it calls.  A step  *)
(* is one write to the API server or one exec session, with the read of    *)
(* the same object before it, or one read whose answer decides where the   *)
(* worker goes; SlaveRoles joins two.  Beside it is what moves around it:  *)
(* pods that start, crash and are deleted, the Endpoints controller that   *)
(* follows with a delay, edits of the resource, failing calls, and the end *)
(* of the operator process.                                                *)
(*                                                                         *)
(* Pod mysql-%02d is its number.  There is one worker.  Reconcile runs     *)
(* when the resource or a pod has changed since the last run began, and    *)
(* again after an error; a change of the Endpoints does not trigger it.    *)
(*                                                                         *)
(* The Raft manager is seen through its state field only (leading): once   *)
(* leader, the operator's only manager leads until the process ends.       *)
(*                                                                         *)
(* A definition named for a defect (..SkipsLast, ..IgnoresError) that      *)
(* stands before the definition without it is a mutant: no specification   *)
(* uses it.                                                                *)
(***************************************************************************)
EXTENDS Integers, FiniteSets

CONSTANTS Replicas,   \* spec.replicas when the resource is created
          Sizes,      \* the values an edit may give spec.replicas
          Budget      \* bound: how often each kind of fault may happen

Faults == {"call", "delete", "crash", "break", "edit", "restart"}

ASSUME ReconcilerAssumption ==
    /\ Replicas \in Nat
    /\ Sizes \subseteq Nat
    /\ Budget \in [Faults -> Nat]

(* spec.replicas is an int32, so its values have a largest one.            *)
ASSUME SizesAssumption ==
    \E k \in Sizes \cup {Replicas} : \A j \in Sizes \cup {Replicas} : j <= k

Numbers == 1..(CHOOSE k \in Sizes \cup {Replicas} :
                  \A j \in Sizes \cup {Replicas} : j <= k)

VARIABLES
    want,         \* spec.replicas
    initialized,  \* the annotation of the same name
    services,     \* the two Services that exist
    configMaps, pvcs, pods,   \* the numbers whose object exists
    ready,        \* pods that isPodHealthy accepts and exec can enter
    role,         \* the pods' role label
    configured,   \* data directories on which CHANGE MASTER was run
    running,      \* pods whose two slave threads run
    endpoints,    \* the pods in the master service's Endpoints
    queue,        \* a reconcile request is waiting
    pc, replicas, todo, at, master, leaderSeen,  \* the worker and its locals
    failed,       \* failedReplicas of checkReplicaStatus
    after,        \* where setupMasterSlaveReplication returns to
    edited,       \* the resource was changed since the worker read it
    raftRunning, leading,    \* RaftManager # nil, and its state is leader
    snapEnabled,  \* SnapGoIsEnabled
    budget,
    lost          \* history: pods that were deleted at some time

objects == <<services, configMaps, pvcs>>
podVars == <<pods, ready, role, configured, running>>
locals  == <<replicas, todo, at, master, leaderSeen, failed, after>>
process == <<raftRunning, leading, snapEnabled>>
vars == <<want, initialized, objects, podVars, endpoints, queue, pc, locals,
          edited, process, budget, lost>>

None == 0

Spend(fault) ==
    /\ budget[fault] > 0
    /\ budget' = [budget EXCEPT ![fault] = @ - 1]

Init ==
    /\ want = Replicas
    /\ initialized = FALSE
    /\ services = {} /\ configMaps = {} /\ pvcs = {} /\ pods = {}
    /\ ready = {} /\ configured = {} /\ running = {}
    /\ role = [i \in Numbers |-> "none"]
    /\ endpoints = {}
    /\ queue = TRUE
    /\ pc = "idle"
    /\ replicas = 0 /\ todo = {} /\ at = None /\ master = None
    /\ leaderSeen = FALSE /\ failed = {} /\ after = "done"
    /\ edited = FALSE
    /\ raftRunning = FALSE /\ leading = FALSE /\ snapEnabled = FALSE
    /\ budget = Budget
    /\ lost = {}

----------------------------------------------------------------------------
(* Reconcile: how a run begins and ends.                                   *)

Begin ==
    /\ pc = "idle" /\ queue
    /\ queue' = FALSE
    /\ replicas' = want
    /\ edited' = FALSE
    /\ todo' = {} /\ at' = None /\ master' = None
    /\ leaderSeen' = FALSE /\ failed' = {} /\ after' = "done"
    /\ pc' = IF initialized THEN "replicas" ELSE "services"
    /\ raftRunning' = (raftRunning \/ initialized)
    /\ UNCHANGED <<want, initialized, objects, podVars, endpoints, leading,
                   snapEnabled, budget, lost>>

(* Every error is returned and the request is queued again.                *)
Requeue == pc' = "idle" /\ queue' = TRUE

(* A run without an error ends with ensureSemiSyncReplication, which has   *)
(* nothing to do because status.master is never set, and the start of the  *)
(* snapshot goroutine, once in the life of the process.                    *)
Finish ==
    /\ pc = "done"
    /\ pc' = "idle"
    /\ snapEnabled' = TRUE
    /\ UNCHANGED <<want, initialized, objects, podVars, endpoints, queue,
                   locals, edited, raftRunning, leading, budget, lost>>

(* Any call may fail: the API server refuses it, or it carries an outdated *)
(* resourceVersion, or the exec session breaks off.  The two Lists of      *)
(* getActualReplicaInfo fail without an error (below).                     *)
CallFails ==
    /\ pc \notin {"idle", "done", "wait", "replicas", "checkMaster",
                  "listReplicas"}
    /\ Spend("call")
    /\ Requeue
    /\ UNCHANGED <<want, initialized, objects, podVars, endpoints, locals,
                   edited, process, lost>>

----------------------------------------------------------------------------
(* init.                                                                   *)

CreateService(s) ==
    /\ pc = "services"
    /\ s = IF "master" \in services THEN "slave" ELSE "master"
    /\ services' = services \cup {s}
    /\ IF services' # {"master", "slave"}
       THEN UNCHANGED <<pc, queue, todo>>
       ELSE IF replicas < 1
            THEN Requeue /\ UNCHANGED todo
            ELSE pc' = "configMaps" /\ todo' = 1..replicas /\ UNCHANGED queue
    /\ UNCHANGED <<want, initialized, configMaps, pvcs, podVars, endpoints,
                   replicas, at, master, leaderSeen, failed, after, edited,
                   process, budget, lost>>

(* The loops of init go up from 1.                                         *)
First(i) == i \in todo /\ \A j \in todo : i <= j

(* One turn of a loop, and what comes after the last one.                  *)
Advance(i, next, rest) ==
    IF todo = {i} THEN pc' = next /\ todo' = rest
                  ELSE todo' = todo \ {i} /\ UNCHANGED pc

CreateConfigMap(i) ==
    /\ pc = "configMaps" /\ First(i)
    /\ configMaps' = configMaps \cup {i}
    /\ Advance(i, "pvcs", 1..replicas)
    /\ UNCHANGED <<want, initialized, services, pvcs, podVars, endpoints,
                   queue, replicas, at, master, leaderSeen, failed, after,
                   edited, process, budget, lost>>

CreatePVC(i) ==
    /\ pc = "pvcs" /\ First(i)
    /\ pvcs' = pvcs \cup {i}
    /\ Advance(i, "pods", 1..replicas)
    /\ UNCHANGED <<want, initialized, services, configMaps, podVars, endpoints,
                   queue, replicas, at, master, leaderSeen, failed, after,
                   edited, process, budget, lost>>

(* createPod: nothing to do, or create the pod without a role and wait.    *)
(* In init the pods are followed by the replication of mysql-01.           *)
NextPodSkipsLast(i) ==
    LET last == todo = {i}
    IN /\ todo' = IF last /\ ~initialized THEN 2..(replicas - 1)
                  ELSE todo \ {i}
       /\ master' = IF last /\ ~initialized THEN 1 ELSE master
       /\ after' = IF last /\ ~initialized THEN "annotate" ELSE after
       /\ pc' = IF initialized
                THEN IF last THEN "checkMaster" ELSE "missing"
                ELSE IF last THEN "labelMaster" ELSE "pods"

NextPod(i) ==
    LET last == todo = {i}
    IN /\ todo' = IF last /\ ~initialized THEN 2..replicas ELSE todo \ {i}
       /\ master' = IF last /\ ~initialized THEN 1 ELSE master
       /\ after' = IF last /\ ~initialized THEN "annotate" ELSE after
       /\ pc' = IF initialized
                THEN IF last THEN "checkMaster" ELSE "missing"
                ELSE IF last THEN "labelMaster" ELSE "pods"

CreatePod(i) ==
    \/ i \in pods /\ NextPod(i) /\ at' = None /\ UNCHANGED <<pods, queue>>
    \/ /\ i \notin pods
       /\ pods' = pods \cup {i}
       /\ queue' = TRUE
       /\ pc' = "wait" /\ at' = i
       /\ UNCHANGED <<todo, master, after>>

CreateInitialPod(i) ==
    /\ pc = "pods" /\ First(i)
    /\ CreatePod(i)
    /\ UNCHANGED <<want, initialized, objects, ready, role, configured,
                   running, endpoints, replicas, leaderSeen, failed, edited,
                   process, budget, lost>>

(* The loop at the end of createPod leaves only when the pod is healthy: a *)
(* pod that is gone is waited for like one that is starting.               *)
PodHealthy == at \in ready

PodCreated ==
    /\ pc = "wait" /\ PodHealthy
    /\ at' = None
    /\ NextPod(at)
    /\ UNCHANGED <<want, initialized, objects, podVars, endpoints, queue,
                   replicas, leaderSeen, failed, edited, process, budget,
                   lost>>

(* The update fails if the resource was edited since it was read.          *)
Annotate ==
    /\ pc = "annotate"
    /\ initialized' = ~edited
    /\ pc' = IF edited THEN "idle" ELSE "done"
    /\ queue' = TRUE
    /\ UNCHANGED <<want, objects, podVars, endpoints, locals, edited, process,
                   budget, lost>>

----------------------------------------------------------------------------
(* setupMasterSlaveReplication, called by init and for failed replicas.    *)

(* execCommandOnPod: a shell in the pod's container.                       *)
ExecCommandOnPod(i) == i \in ready

Label(i, r) == role' = [role EXCEPT ![i] = r] /\ queue' = TRUE

LabelMaster ==
    /\ pc = "labelMaster"
    /\ \/ master \in pods /\ Label(master, "master") /\ pc' = "execMaster"
       \/ master \notin pods /\ Requeue /\ UNCHANGED role
    /\ UNCHANGED <<want, initialized, objects, pods, ready, configured,
                   running, endpoints, locals, edited, process, budget, lost>>

ExecMaster ==
    /\ pc = "execMaster"
    /\ \/ /\ ExecCommandOnPod(master)
          /\ running' = running \ {master}
          /\ pc' = IF todo = {} THEN after ELSE "execSlave"
          /\ UNCHANGED queue
       \/ ~ExecCommandOnPod(master) /\ Requeue /\ UNCHANGED running
    /\ UNCHANGED <<want, initialized, objects, pods, ready, role, configured,
                   endpoints, locals, edited, process, budget, lost>>

ExecSlaveIgnoresError(i) ==
    /\ pc = "execSlave" /\ i \in todo
    /\ configured' = configured \cup {i}
    /\ running' = running \cup {i}
    /\ pc' = "labelSlave" /\ at' = i
    /\ UNCHANGED <<want, initialized, objects, pods, ready, role, endpoints,
                   queue, replicas, todo, master, leaderSeen, failed, after,
                   edited, process, budget, lost>>

ExecSlave(i) ==
    /\ pc = "execSlave" /\ i \in todo
    /\ \/ /\ ExecCommandOnPod(i)
          /\ configured' = configured \cup {i}
          /\ running' = running \cup {i}
          /\ pc' = "labelSlave" /\ at' = i
          /\ UNCHANGED queue
       \/ /\ ~ExecCommandOnPod(i)
          /\ Requeue
          /\ UNCHANGED <<configured, running, at>>
    /\ UNCHANGED <<want, initialized, objects, pods, ready, role, endpoints,
                   replicas, todo, master, leaderSeen, failed, after, edited,
                   process, budget, lost>>

LabelSlave ==
    /\ pc = "labelSlave"
    /\ at' = None
    /\ \/ /\ at \in pods
          /\ Label(at, "slave")
          /\ todo' = todo \ {at}
          /\ pc' = IF todo' = {} THEN after ELSE "execSlave"
       \/ at \notin pods /\ Requeue /\ UNCHANGED <<role, todo>>
    /\ UNCHANGED <<want, initialized, objects, pods, ready, configured,
                   running, endpoints, replicas, master, leaderSeen, failed,
                   after, edited, process, budget, lost>>

----------------------------------------------------------------------------
(* reconcileReplicas.                                                      *)

FindMissingBelow(n) == {i \in 1..n : i < n} \ pods

FindMissing(n) == (1..n) \ pods

(* Only the count of pods is compared with spec.replicas.  A failed List   *)
(* is no error: getActualReplicaInfo then reports no pods.                 *)
ReconcileReplicas ==
    /\ pc = "replicas"
    /\ \/ /\ todo' = IF Cardinality(pods) # replicas
                     THEN FindMissing(replicas) ELSE {}
          /\ UNCHANGED budget
       \/ Spend("call") /\ todo' = 1..replicas
    /\ pc' = IF todo' = {} THEN "checkMaster" ELSE "missing"
    /\ UNCHANGED <<want, initialized, objects, podVars, endpoints, queue,
                   replicas, at, master, leaderSeen, failed, after, edited,
                   process, lost>>

(* PVC, ConfigMap and pod of a missing number.  The numbers come in the    *)
(* order of a Go map.  The worker may fail, end or be overtaken by an edit *)
(* between any two of the three.                                           *)
CreateMissingPVCSkipped(i) ==
    /\ pc = "missing" /\ i \in todo
    /\ pc' = "missingPod" /\ at' = i
    /\ UNCHANGED <<want, initialized, objects, podVars, endpoints, queue,
                   replicas, todo, master, leaderSeen, failed, after, edited,
                   process, budget, lost>>

CreateMissingPVC(i) ==
    /\ pc = "missing" /\ i \in todo
    /\ pvcs' = pvcs \cup {i}
    /\ pc' = "missingConfigMap" /\ at' = i
    /\ UNCHANGED <<want, initialized, services, configMaps, podVars, endpoints,
                   queue, replicas, todo, master, leaderSeen, failed, after,
                   edited, process, budget, lost>>

CreateMissingConfigMap ==
    /\ pc = "missingConfigMap"
    /\ configMaps' = configMaps \cup {at}
    /\ pc' = "missingPod"
    /\ UNCHANGED <<want, initialized, services, pvcs, podVars, endpoints,
                   queue, locals, edited, process, budget, lost>>

CreateMissingPod ==
    /\ pc = "missingPod"
    /\ CreatePod(at)
    /\ UNCHANGED <<want, initialized, objects, ready, role, configured,
                   running, endpoints, replicas, leaderSeen, failed, edited,
                   process, budget, lost>>

----------------------------------------------------------------------------
(* reconcileRaftBasedMasterSlave.                                          *)

ReadRaftState ==
    /\ pc = "checkMaster"
    /\ leaderSeen' = leading
    /\ pc' = "checkEndpoints"
    /\ UNCHANGED <<want, initialized, objects, podVars, endpoints, queue,
                   replicas, todo, at, master, failed, after, edited, process,
                   budget, lost>>

(* checkMasterStatus, and the end of the run for a manager that does not   *)
(* lead.  ensureSemiSyncReplication then finds status.master empty: it is  *)
(* assigned nowhere.                                                       *)
CheckMasterStatus ==
    /\ pc = "checkEndpoints"
    /\ pc' = IF endpoints = {} THEN "failover"
             ELSE IF leaderSeen THEN "replicaStatus" ELSE "done"
    /\ UNCHANGED <<want, initialized, objects, podVars, endpoints, queue,
                   locals, edited, process, budget, lost>>

(* HandleRaftBasedFailover.  The wait for leadership times out, or the     *)
(* Raft node <cluster>-0 is looked up as a pod; pods are called mysql-NN,  *)
(* so this ends in an error either way.                                    *)
Failover ==
    /\ pc = "failover"
    /\ Requeue
    /\ UNCHANGED <<want, initialized, objects, podVars, endpoints, locals,
                   edited, process, budget, lost>>

(* checkReplicaStatus.  The master is the first address of the Endpoints,  *)
(* which are read once more: none is an error now.                         *)
AnyMaster == pods
EndpointMaster == endpoints

ReplicaStatus ==
    /\ pc = "replicaStatus"
    /\ \/ \E m \in EndpointMaster :
             master' = m /\ pc' = "listReplicas" /\ UNCHANGED queue
       \/ EndpointMaster = {} /\ Requeue /\ UNCHANGED master
    /\ UNCHANGED <<want, initialized, objects, podVars, endpoints, replicas,
                   todo, at, leaderSeen, failed, after, edited, process,
                   budget, lost>>

(* getReplicaPodsNames.  After a failed List there are no replicas, so     *)
(* none has failed.  whenHealthy is where the caller goes on without       *)
(* failed replicas.                                                        *)
ListReplicas(whenHealthy) ==
    /\ pc = "listReplicas"
    /\ \/ todo' = pods \ {master} /\ UNCHANGED budget
       \/ Spend("call") /\ todo' = {}
    /\ after' = "slaveRoles"
    /\ pc' = IF todo' = {} THEN whenHealthy ELSE "checkReplica"
    /\ UNCHANGED <<want, initialized, objects, podVars, endpoints, queue,
                   replicas, at, master, leaderSeen, failed, edited, process,
                   lost>>

(* SHOW SLAVE STATUS of one replica of the list.  One that cannot be       *)
(* entered, or is gone since, is an error.                                 *)
CheckReplica(i, whenHealthy) ==
    LET found == failed \cup ({i} \ running)
    IN /\ pc = "checkReplica" /\ i \in todo
       /\ \/ /\ ExecCommandOnPod(i) /\ todo # {i}
             /\ todo' = todo \ {i} /\ failed' = found
             /\ UNCHANGED <<pc, queue>>
          \/ /\ ExecCommandOnPod(i) /\ todo = {i}
             /\ todo' = found /\ failed' = {}
             /\ pc' = IF found = {} THEN whenHealthy ELSE "labelMaster"
             /\ UNCHANGED queue
          \/ ~ExecCommandOnPod(i) /\ Requeue /\ UNCHANGED <<todo, failed>>
       /\ UNCHANGED <<want, initialized, objects, podVars, endpoints, replicas,
                      at, master, leaderSeen, after, edited, process, budget,
                      lost>>

(* ensureSlaveRoles reads the Endpoints again.                             *)
SlaveRolesWithoutMaster ==
    /\ pc = "slaveRoles"
    /\ todo' = {i \in pods \ endpoints : role[i] # "slave"}
    /\ pc' = IF todo' = {} THEN "done" ELSE "demote"
    /\ UNCHANGED <<want, initialized, objects, podVars, endpoints, queue,
                   replicas, at, master, leaderSeen, failed, after, edited,
                   process, budget, lost>>

SlaveRoles ==
    /\ pc = "slaveRoles"
    /\ \/ \E m \in endpoints :
             /\ todo' = {i \in pods \ {m} : role[i] # "slave"}
             /\ pc' = IF todo' = {} THEN "done" ELSE "demote"
             /\ UNCHANGED queue
       \/ endpoints = {} /\ Requeue /\ UNCHANGED todo
    /\ UNCHANGED <<want, initialized, objects, podVars, endpoints, replicas,
                   at, master, leaderSeen, failed, after, edited, process,
                   budget, lost>>

Demote(i) ==
    /\ pc = "demote" /\ i \in todo
    /\ \/ /\ i \in pods
          /\ Label(i, "slave")
          /\ todo' = todo \ {i}
          /\ pc' = IF todo' = {} THEN "done" ELSE "demote"
       \/ i \notin pods /\ Requeue /\ UNCHANGED <<role, todo>>
    /\ UNCHANGED <<want, initialized, objects, pods, ready, configured,
                   running, endpoints, replicas, at, master, leaderSeen,
                   failed, after, edited, process, budget, lost>>

----------------------------------------------------------------------------
(* The cluster around the operator.  Every change of a pod queues a        *)
(* request (Owns).                                                         *)

(* The kubelet starts the container; mysqld resumes what CHANGE MASTER     *)
(* left in the data directory.                                             *)
PodReady(i) ==
    /\ i \in pods \ ready
    /\ ready' = ready \cup {i}
    /\ running' = running \cup ({i} \cap configured)
    /\ queue' = TRUE
    /\ UNCHANGED <<want, initialized, objects, pods, role, configured,
                   endpoints, pc, locals, edited, process, budget, lost>>

PodCrashes(i) ==
    /\ i \in ready
    /\ Spend("crash")
    /\ ready' = ready \ {i} /\ running' = running \ {i}
    /\ queue' = TRUE
    /\ UNCHANGED <<want, initialized, objects, pods, role, configured,
                   endpoints, pc, locals, edited, process, lost>>

PodDeleted(i) ==
    /\ i \in pods
    /\ Spend("delete")
    /\ pods' = pods \ {i}
    /\ ready' = ready \ {i} /\ running' = running \ {i}
    /\ role' = [role EXCEPT ![i] = "none"]
    /\ lost' = lost \cup {i}
    /\ queue' = TRUE
    /\ UNCHANGED <<want, initialized, objects, configured, endpoints, pc,
                   locals, edited, process>>

(* A slave thread stops; nobody is told.                                   *)
ReplicationBreaks(i) ==
    /\ i \in running
    /\ Spend("break")
    /\ running' = running \ {i}
    /\ UNCHANGED <<want, initialized, objects, pods, ready, role, configured,
                   endpoints, queue, pc, locals, edited, process, lost>>

(* The Endpoints controller catches up with labels and readiness.          *)
EndpointsSync ==
    /\ "master" \in services
    /\ endpoints' = {i \in ready : role[i] = "master"}
    /\ UNCHANGED <<want, initialized, objects, podVars, queue, pc, locals,
                   edited, process, budget, lost>>

(* The Raft manager becomes leader and tries to store its status.          *)
LeaderElected ==
    /\ raftRunning /\ ~leading
    /\ leading' = TRUE
    /\ queue' \in {queue, TRUE}
    /\ UNCHANGED <<want, initialized, objects, podVars, endpoints, pc, locals,
                   edited, raftRunning, snapEnabled, budget, lost>>

SpecEdited(size) ==
    /\ Spend("edit")
    /\ want' = size
    /\ edited' = TRUE
    /\ queue' = TRUE
    /\ UNCHANGED <<initialized, objects, podVars, endpoints, pc, locals,
                   process, lost>>

(* The informer of controller-runtime hands every object to the handlers   *)
(* again, ten hours apart unless main.go sets a period, which it does not. *)
(* It is the only source of requests that depends on nobody: the status    *)
(* writes of the Raft manager and of the monitor raise an event only when  *)
(* the API server accepts them, and none of them has to be accepted.       *)
Resync ==
    /\ ~queue
    /\ queue' = TRUE
    /\ UNCHANGED <<want, initialized, objects, podVars, endpoints, pc, locals,
                   edited, process, budget, lost>>

(* The operator process ends and starts again.                             *)
OperatorRestart ==
    /\ Spend("restart")
    /\ pc' = "idle" /\ queue' = TRUE
    /\ replicas' = 0 /\ todo' = {} /\ at' = None /\ master' = None
    /\ leaderSeen' = FALSE /\ failed' = {} /\ after' = "done"
    /\ raftRunning' = FALSE /\ leading' = FALSE /\ snapEnabled' = FALSE
    /\ UNCHANGED <<want, initialized, objects, podVars, endpoints, edited,
                   lost>>

WorkerStep ==
    \/ Begin
    \/ \E s \in {"master", "slave"} : CreateService(s)
    \/ \E i \in Numbers :
          \/ CreateConfigMap(i) \/ CreatePVC(i) \/ CreateInitialPod(i)
          \/ ExecSlave(i) \/ CreateMissingPVC(i) \/ Demote(i)
          \/ CheckReplica(i, "slaveRoles")
    \/ CreateMissingConfigMap \/ CreateMissingPod
    \/ PodCreated \/ Annotate
    \/ LabelMaster \/ ExecMaster \/ LabelSlave
    \/ ReconcileReplicas \/ ReadRaftState \/ CheckMasterStatus \/ Failover
    \/ ReplicaStatus \/ ListReplicas("slaveRoles") \/ SlaveRoles \/ Finish

Environment ==
    \/ \E i \in Numbers : \/ PodReady(i) \/ PodCrashes(i) \/ PodDeleted(i)
                          \/ ReplicationBreaks(i)
    \/ \E size \in Sizes : SpecEdited(size)
    \/ EndpointsSync \/ LeaderElected \/ Resync \/ OperatorRestart

Next == WorkerStep \/ CallFails \/ Environment

Spec == Init /\ [][Next]_vars

(* The worker goes on, containers start, the Endpoints controller comes    *)
(* round, and the manager is elected (RaftManager implements LeaderView).  *)
(* Nothing obliges a fault to happen, or a request to come without a       *)
(* change of the resource or of a pod.                                     *)
EventFairness ==
    /\ WF_vars(WorkerStep)
    /\ \A i \in Numbers : WF_vars(PodReady(i))
    /\ WF_vars(EndpointsSync)
    /\ WF_vars(LeaderElected)

EventFairSpec == Spec /\ EventFairness

(* In addition, the informer's resync comes in the end.                    *)
Fairness == EventFairness /\ WF_vars(Resync)

FairSpec == Spec /\ Fairness

----------------------------------------------------------------------------
(* Properties.                                                             *)

(* The objects of the cluster and the locals of the worker.                *)
StateTypeOK ==
    /\ want \in Nat /\ replicas \in Nat
    /\ initialized \in BOOLEAN /\ queue \in BOOLEAN /\ edited \in BOOLEAN
    /\ raftRunning \in BOOLEAN /\ leading \in BOOLEAN /\ leaderSeen \in BOOLEAN
    /\ snapEnabled \in BOOLEAN /\ after \in {"annotate", "slaveRoles", "done"}
    /\ services \subseteq {"master", "slave"}
    /\ configMaps \subseteq Numbers /\ pvcs \subseteq Numbers
    /\ pods \subseteq Numbers /\ ready \subseteq pods
    /\ running \subseteq ready /\ configured \subseteq Numbers
    /\ role \in [Numbers -> {"none", "master", "slave"}]
    /\ endpoints \subseteq Numbers /\ todo \subseteq Numbers
    /\ failed \subseteq Numbers /\ lost \subseteq Numbers
    /\ at \in Numbers \cup {None} /\ master \in Numbers \cup {None}
    /\ budget \in [Faults -> Nat]

(* The sets and locals of the worker keep their types; in particular, no   *)
(* loop of the worker leaves the numbers of the cluster, and only ready    *)
(* pods replicate.                                                         *)
TypeOK ==
    /\ StateTypeOK
    /\ pc \in {"idle", "done", "services", "configMaps", "pvcs", "pods",
               "wait", "labelMaster", "execMaster", "execSlave", "labelSlave",
               "annotate", "replicas", "missing", "missingConfigMap",
               "missingPod", "checkMaster", "checkEndpoints", "failover",
               "replicaStatus", "listReplicas", "checkReplica", "slaveRoles",
               "demote"}

(* No pod is created before its volume claim and its my.cnf, whichever     *)
(* call of which run failed before, and whatever spec.replicas was edited  *)
(* to in between.                                                          *)
PodHasStorage == pods \subseteq pvcs \cap configMaps

(* The master service never selects two pods: failed runs, repeated setups *)
(* and stale Endpoints never leave a second master label.                  *)
AtMostOneMaster ==
    \A i, j \in pods : role[i] = "master" /\ role[j] = "master" => i = j

(* Once initialized, mysql-01 carries the master label for as long as the  *)
(* pod is never deleted: neither ensureSlaveRoles acting on old Endpoints  *)
(* nor a restart in mid-run takes it away.                                 *)
MasterKept == initialized /\ 1 \notin lost => role[1] = "master"

(* The annotation is written only when every replica was made a master or  *)
(* a slave in this or an earlier run of init.  Not held to this are the    *)
(* numbers whose pod was deleted at some time: init creates such a pod     *)
(* again, but may have left it behind already.                             *)
InitializedMeansConfigured ==
    [][initialized' /\ ~initialized =>
         \A i \in 1..replicas : role[i] # "none" \/ i \in lost]_vars

Healthy ==
    /\ initialized
    /\ role[1] = "master" /\ 1 \in ready
    /\ \A i \in 2..want : role[i] = "slave" /\ i \in running

(* createPod waits for a pod that no longer exists; the worker is the only *)
(* one who could create it again.                                          *)
WaitsForNobody == pc = "wait" /\ at \notin pods

MasterGone == role[1] # "master" /\ endpoints = {}

Happened(fault) == budget[fault] < Budget[fault]

(* The pods run and mysql-01 is the master, but the replication is not     *)
(* complete and nothing is queued: slave threads stopped without an event, *)
(* or the last run found a manager that did not lead yet, and left a pod   *)
(* that had been deleted without its label; winning need not raise an      *)
(* event, because the status write may be refused.                         *)
Unnoticed ==
    /\ pc = "idle" /\ ~queue /\ ~Healthy
    /\ 1..want \subseteq ready /\ role[1] = "master"
    /\ Happened("break") \/ ~leaderSeen

(* By events alone: after finitely many faults the replication is complete *)
(* for good, or the system is in one of three dead ends: the worker waits  *)
(* in createPod for a pod that was deleted under it; mysql-01 came back    *)
(* without its label; or the replication is broken and no event tells.     *)
(* The last is what the comment at mysqlcluster_controller.go:132-135      *)
(* reports of late Endpoints: "no event comes afterwards either, so the    *)
(* replication cannot recover".  Late Endpoints and failing calls alone do *)
(* not lead there: slave threads must stop after the run that the crash    *)
(* has queued, or the manager must win too late.  What leaves this dead    *)
(* end is the informer's resync (Resync), which is not assumed here.       *)
Settles ==
    <>[]Healthy \/ <>[]WaitsForNobody \/ <>[]MasterGone \/ <>[]Unnoticed

----------------------------------------------------------------------------
(* Statements of the documentation that the code does not meet.            *)

(* README.md:12 and RAFT_DEPLOYMENT_GUIDE.md:8: fail-over is automatic.    *)
MasterReplaced ==
    []( (initialized /\ \A i \in Numbers : role[i] # "master")
        => <>(\E i \in Numbers : role[i] = "master") )

(* reconcile_replicas.go:34: the missing pods are created.                 *)
MissingPodsCreated ==
    \A i \in Numbers :
        [](initialized /\ i <= want /\ i \notin pods
           => <>(i \in pods \/ i > want))
============================================================================
