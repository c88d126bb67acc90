--------------------------- MODULE MasterElection ---------------------------
(***************************************************************************)
(* The election by data that README.md describes: reconcileMasterSlave,    *)
(* handleMasterFailure and electNewMaster, and the goroutine that keeps    *)
(* the GTID snapshot they use.  Reconcile starts the goroutine but calls   *)
(* reconcileRaftBasedMasterSlave in the place of reconcileMasterSlave;     *)
(* this module is the reconciler with the call put back.                   *)
(*                                                                         *)
(* A transaction is <<source, n>>.  What SHOW MASTER STATUS and SHOW SLAVE *)
(* STATUS print of a set of them goes through grep, awk and a split at the *)
(* commas; a text below is the sequence of items that this yields.         *)
(***************************************************************************)
EXTENDS MysqlReconciler, Sequences, Functions

CONSTANTS DataSizes,   \* what du may report of a data directory, in bytes
          MaxWrites,   \* bound: transactions that are told apart
          MaxFaults    \* bound: faults of all kinds together

(* init refuses a cluster without replicas.                                *)
ASSUME ElectionAssumption ==
    /\ Replicas >= 1
    /\ DataSizes \subseteq Nat
    /\ MaxWrites \in Nat /\ MaxFaults \in Nat

VARIABLES
    executed,    \* the transactions in each data directory
    retrieved,   \* those in its relay logs
    snapshot,    \* MasterGTIDSnapshot
    snapPc, snapPod, snapText,       \* the goroutine and its locals
    slaves, seen, best, highest,     \* electNewMaster and its locals
    compared     \* history: size and transactions of each slave scored

data  == <<executed, retrieved>>
snap  == <<snapshot, snapPc, snapPod, snapText>>
elect == <<slaves, seen, best, highest, compared>>
electionVars == <<vars, data, snap, elect>>

NoText == <<>>

(* The reconciler after a first run: mysql-01 is the master of the others. *)
ElectionInit ==
    /\ want = Replicas /\ initialized = TRUE
    /\ services = {"master", "slave"}
    /\ configMaps = Numbers /\ pvcs = Numbers /\ pods = Numbers
    /\ ready = Numbers
    /\ configured = Numbers \ {1} /\ running = Numbers \ {1}
    /\ role = [i \in Numbers |-> IF i = 1 THEN "master" ELSE "slave"]
    /\ endpoints = {1}
    /\ queue = TRUE /\ pc = "idle"
    /\ replicas = 0 /\ todo = {} /\ at = None /\ master = None
    /\ leaderSeen = FALSE /\ failed = {} /\ after = "done"
    /\ edited = FALSE
    /\ raftRunning = FALSE /\ leading = FALSE /\ snapEnabled = TRUE
    /\ budget = Budget /\ lost = {}
    /\ executed = [i \in Numbers |-> {}]
    /\ retrieved = [i \in Numbers |-> {}]
    /\ snapshot = NoText /\ snapPc = "list" /\ snapPod = None
    /\ snapText = NoText
    /\ slaves = {} /\ seen = NoText /\ best = None /\ highest = -1
    /\ compared = <<>>

(* The locals of electNewMaster and getDataScore outside of a call.        *)
ForgetLocals ==
    slaves' = {} /\ seen' = NoText /\ best' = None /\ highest' = -1

Forget == ForgetLocals /\ compared' = <<>>

----------------------------------------------------------------------------
(* The scores.                                                             *)

(* A set of several sources is printed on as many lines, of which grep     *)
(* keeps the first, with its comma; the last item ends in a line feed, as  *)
(* does an empty set.  Lines are in the order of the sources.              *)
GtidText(S) ==
    LET first == {t \in S : \A u \in S : t[1] <= u[1]}
    IN IF first = S
       THEN << [gtids |-> S, eol |-> TRUE] >>
       ELSE << [gtids |-> first, eol |-> FALSE],
               [gtids |-> {}, eol |-> TRUE] >>

(* SHOW SLAVE STATUS prints nothing where CHANGE MASTER was never run.     *)
SlaveText(i) == IF i \in configured THEN GtidText(retrieved[i]) ELSE NoText

(* calculateGTIDScore in sixths: the share of the master's items, of which *)
(* there are up to three, that are found, as they are written, among the   *)
(* slave's.                                                                *)
GtidScore(masterText, slaveText) ==
    IF masterText = NoText \/ slaveText = NoText THEN 0
    ELSE LET found == {k \in 1..Len(masterText) :
                          \E l \in 1..Len(slaveText) :
                              masterText[k] = slaveText[l]}
         IN (6 * Cardinality(found)) \div Len(masterText)

(* calculateDataScore, in sixths: what du printed and ParseInt has read,   *)
(* in bytes.                                                               *)
DataScore(size) == 6 * size

(* getDataScore adds the two.                                              *)
FinalScoreIgnoresSize(gtidScore, size) == gtidScore

FinalScore(gtidScore, size) == gtidScore + DataScore(size)

----------------------------------------------------------------------------
(* reconcileMasterSlave.                                                   *)

LegacyCheckMasterEmptyIsError ==
    /\ pc = "checkMaster"
    /\ \/ endpoints # {} /\ pc' = "replicaStatus" /\ UNCHANGED queue
       \/ endpoints = {} /\ Requeue
    /\ UNCHANGED <<want, initialized, objects, podVars, endpoints, locals,
                   edited, process, budget, lost, data, snap, elect>>

LegacyCheckMasterWantsOne ==
    /\ pc = "checkMaster"
    /\ pc' = IF Cardinality(endpoints) # 1 THEN "elect" ELSE "replicaStatus"
    /\ UNCHANGED <<want, initialized, objects, podVars, endpoints, queue,
                   locals, edited, process, budget, lost, data, snap, elect>>

LegacyCheckMaster ==
    /\ pc = "checkMaster"
    /\ \/ /\ pc' = IF endpoints = {} THEN "elect" ELSE "replicaStatus"
          /\ UNCHANGED <<queue, budget>>
       \/ Spend("call") /\ Requeue
    /\ UNCHANGED <<want, initialized, objects, podVars, endpoints, locals,
                   edited, process, lost, data, snap, elect>>

(* checkReplicaStatus as in the reconciler, but                            *)
(* setupMasterSlaveReplication is called without failed replicas, too.     *)
LegacyReplicaStatus ==
    /\ \/ ReplicaStatus \/ ListReplicas("labelMaster")
       \/ \E i \in Numbers : CheckReplica(i, "labelMaster")
    /\ UNCHANGED <<data, snap, elect>>

(* electNewMaster: the pods labelled slave are listed once; those healthy  *)
(* by that list are scored, the others only become slaves again.           *)
ElectNewMaster ==
    /\ pc = "elect"
    /\ slaves' = {i \in pods : role[i] = "slave"}
    /\ todo' = slaves' \cap ready
    /\ \/ todo' # {} /\ pc' = "score" /\ UNCHANGED queue
       \/ todo' = {} /\ Requeue
    /\ UNCHANGED <<want, initialized, objects, podVars, endpoints, replicas,
                   at, master, leaderSeen, failed, after, edited, process,
                   budget, lost, data, snap, seen, best, highest, compared>>

Transactions == UNION {executed[i] : i \in Numbers}

(* A string is a pointer and a length.  One that is read while the other   *)
(* half is being assigned is cut short or goes on past its end: what is    *)
(* left of its items may be followed by a piece of one, or by bytes that   *)
(* are no transaction (the empty piece).  Bound: one piece.  A nil pointer *)
(* with a length ends the process, as LegacyRestart does.                  *)
TornTexts(text) ==
    LET pieces == {[gtids |-> S, eol |-> FALSE] : S \in SUBSET Transactions}
        kept   == {SubSeq(text, 1, k) : k \in 0..Len(text)}
    IN kept \cup {Append(t, piece) : t \in kept, piece \in pieces}

(* getDataScore first reads the snapshot.  Nothing guards it: while the    *)
(* goroutine assigns it, the old, the new and a mixed string can be read.  *)
ReadSnapshot(i) ==
    /\ pc = "score" /\ i \in todo
    /\ \/ seen' = snapshot
       \/ /\ snapPc = "write"
          /\ seen' \in {snapText} \cup TornTexts(snapshot)
                                 \cup TornTexts(snapText)
    /\ at' = i
    /\ pc' = "scoreExec"
    /\ UNCHANGED <<want, initialized, objects, podVars, endpoints, queue,
                   replicas, todo, master, leaderSeen, failed, after, edited,
                   process, budget, lost, data, snap, slaves, best, highest,
                   compared>>

(* The rest of getDataScore, and the comparison that electNewMaster makes. *)
(* The strict comparison keeps the first of equals.                        *)
GetDataScore ==
    /\ pc = "scoreExec"
    /\ at' = None
    /\ \/ /\ ExecCommandOnPod(at)
          /\ \E size \in DataSizes :
                LET score  == FinalScore(GtidScore(seen, SlaveText(at)), size)
                    winner == IF score > highest THEN at ELSE best
                IN /\ compared' = [i \in DOMAIN compared \cup {at} |->
                         IF i = at
                         THEN [size |-> size, gtids |-> retrieved[at]]
                         ELSE compared[i]]
                   /\ IF todo = {at}
                      THEN /\ pc' = "labelMaster" /\ after' = "done"
                           /\ master' = winner /\ todo' = slaves \ {winner}
                           /\ ForgetLocals
                      ELSE /\ pc' = "score"
                           /\ todo' = todo \ {at}
                           /\ best' = winner
                           /\ highest' = IF score > highest THEN score
                                         ELSE highest
                           /\ UNCHANGED <<master, after, slaves, seen>>
          /\ UNCHANGED queue
       \/ /\ ~ExecCommandOnPod(at)
          /\ Requeue /\ Forget
          /\ UNCHANGED <<todo, master, after>>
    /\ UNCHANGED <<want, initialized, objects, podVars, endpoints, replicas,
                   leaderSeen, failed, edited, process, budget, lost, data,
                   snap>>

LegacyCallFails ==
    pc # "score" /\ CallFails /\ Forget /\ UNCHANGED <<data, snap>>

----------------------------------------------------------------------------
(* setupMasterSlaveReplication on the data.                                *)

LegacyLabelMaster == LabelMaster /\ Forget /\ UNCHANGED <<data, snap>>

(* A transaction of mysqld i.  Past the bound it is not told apart.        *)
Commit(i) ==
    LET t == <<i, Cardinality({u \in executed[i] : u[1] = i}) + 1>>
    IN executed' = IF Cardinality(Transactions) < MaxWrites
                   THEN [executed EXCEPT ![i] = @ \cup {t}] ELSE executed

(* GRANT is written to the binary log whether it changes anything or not.  *)
LegacyExecMaster ==
    /\ ExecMaster
    /\ IF ExecCommandOnPod(master) THEN Commit(master) ELSE UNCHANGED executed
    /\ UNCHANGED <<retrieved, snap, elect>>

(* CHANGE MASTER deletes the relay logs.                                   *)
LegacyExecSlave(i) ==
    /\ ExecSlave(i)
    /\ retrieved' = IF ExecCommandOnPod(i) THEN [retrieved EXCEPT ![i] = {}]
                    ELSE retrieved
    /\ UNCHANGED <<executed, snap, elect>>

----------------------------------------------------------------------------
(* startAndUpdateGTIDSnapshot, a goroutine from the first run that ends    *)
(* without an error until the process ends.                                *)

LegacyFinishOnlySetsFlag == Finish /\ UNCHANGED <<data, snap, elect>>

LegacyFinish ==
    /\ Finish
    /\ snapPc' = IF snapEnabled THEN snapPc ELSE "list"
    /\ UNCHANGED <<snapshot, snapPod, snapText, data, elect>>

(* Any pod labelled master is taken for the master.                        *)
SnapList ==
    /\ snapPc = "list"
    /\ \/ \E m \in pods : /\ role[m] = "master"
                          /\ snapPc' = "exec" /\ snapPod' = m
                          /\ UNCHANGED snapText
       \/ /\ \A m \in pods : role[m] # "master"
          /\ snapPc' = "write" /\ snapText' = NoText
          /\ UNCHANGED snapPod
    /\ UNCHANGED <<vars, data, snapshot, elect>>

(* After an error the old snapshot stays for another minute.               *)
SnapExec ==
    /\ snapPc = "exec"
    /\ \/ /\ ExecCommandOnPod(snapPod)
          /\ snapText' = GtidText(executed[snapPod])
          /\ snapPc' = "write"
       \/ ~ExecCommandOnPod(snapPod) /\ snapPc' = "list" /\ UNCHANGED snapText
    /\ snapPod' = None
    /\ UNCHANGED <<vars, data, snapshot, elect>>

SnapWrite ==
    /\ snapPc = "write"
    /\ snapshot' = snapText
    /\ snapText' = NoText
    /\ snapPc' = "list"
    /\ UNCHANGED <<vars, data, snapPod, elect>>

----------------------------------------------------------------------------
(* mysqld, and the end of the process.                                     *)

ClientWrites(i) ==
    /\ i \in endpoints \cap ready
    /\ Cardinality(Transactions) < MaxWrites
    /\ Commit(i)
    /\ UNCHANGED <<vars, retrieved, snap, elect>>

(* A slave reaches its master through the master service.                  *)
Replicate(i, m) ==
    /\ i \in running /\ m \in (endpoints \cap ready) \ {i}
    /\ executed[m] \ executed[i] # {}
    /\ retrieved' = [retrieved EXCEPT
                        ![i] = @ \cup (executed[m] \ executed[i])]
    /\ executed' = [executed EXCEPT ![i] = @ \cup executed[m]]
    /\ UNCHANGED <<vars, snap, elect>>

LegacyRestart ==
    /\ OperatorRestart
    /\ snapshot' = NoText /\ snapPc' = "off" /\ snapPod' = None
    /\ snapText' = NoText
    /\ Forget
    /\ UNCHANGED data

LegacyWorkerStep ==
    \/ /\ \/ Begin \/ ReconcileReplicas \/ PodCreated \/ LabelSlave
          \/ SlaveRoles \/ CreateMissingConfigMap \/ CreateMissingPod
          \/ \E i \in Numbers : CreateMissingPVC(i) \/ Demote(i)
       /\ UNCHANGED <<data, snap, elect>>
    \/ LegacyCheckMaster \/ LegacyReplicaStatus
    \/ LegacyLabelMaster \/ LegacyExecMaster
    \/ ElectNewMaster \/ GetDataScore \/ LegacyFinish
    \/ \E i \in Numbers : ReadSnapshot(i) \/ LegacyExecSlave(i)

SnapStep == SnapList \/ SnapExec \/ SnapWrite

LegacyEnvironment ==
    \/ /\ \/ EndpointsSync \/ Resync
          \/ \E i \in Numbers : \/ PodReady(i) \/ PodCrashes(i)
                                \/ PodDeleted(i) \/ ReplicationBreaks(i)
       /\ UNCHANGED <<data, snap, elect>>
    \/ \E i \in Numbers : \/ ClientWrites(i)
                          \/ \E m \in Numbers : Replicate(i, m)
    \/ LegacyRestart

FaultsBounded ==
    FoldFunction(+, 0, [f \in Faults |-> Budget[f] - budget[f]]) <= MaxFaults

ElectionNext ==
    /\ LegacyWorkerStep \/ LegacyCallFails \/ SnapStep \/ LegacyEnvironment
    /\ FaultsBounded'

ElectionSpec == ElectionInit /\ [][ElectionNext]_electionVars

(* As in EventFairness: no request is owed without an event.  The snapshot *)
(* goroutine owes nothing.                                                 *)
ElectionFairness ==
    /\ WF_electionVars(LegacyWorkerStep)
    /\ \A i \in Numbers :
          WF_electionVars(PodReady(i) /\ UNCHANGED <<data, snap, elect>>)
    /\ WF_electionVars(EndpointsSync /\ UNCHANGED <<data, snap, elect>>)

ElectionFairSpec == ElectionSpec /\ ElectionFairness

----------------------------------------------------------------------------
(* Properties.                                                             *)

(* The variables of the reconciler, of the goroutine and of the election   *)
(* keep their types.                                                       *)
ElectionTypeOK ==
    /\ pc \in {"idle", "done", "wait", "replicas", "missing",
               "missingConfigMap", "missingPod", "checkMaster",
               "replicaStatus", "listReplicas", "checkReplica", "elect",
               "score", "scoreExec", "labelMaster", "execMaster", "execSlave",
               "labelSlave", "slaveRoles", "demote"}
    /\ \A i \in Numbers : retrieved[i] \subseteq executed[i]
    /\ snapPc \in {"off", "list", "exec", "write"}
    /\ (snapPc = "off") = ~snapEnabled
    /\ slaves \subseteq Numbers /\ best \in Numbers \cup {None}
    /\ highest \in {-1} \cup {FinalScore(g, s) : g \in 0..6, s \in DataSizes}
    /\ DOMAIN compared \subseteq Numbers

(* An election of electNewMaster has just been decided.                    *)
Decided == pc = "labelMaster" /\ after = "done"

(* The snapshot may be a minute old, of another pod, or torn by the        *)
(* goroutine's assignment: the slave that is elected still has, up to one  *)
(* byte, the largest data directory of those that were compared.           *)
SizeDecides ==
    Decided => \A i \in DOMAIN compared :
                   compared[master].size + 1 >= compared[i].size

NoMaster == \A i \in Numbers : role[i] # "master"
NobodyToElect == \A i \in Numbers : role[i] # "slave"

(* A cluster without a master label, whose master pod was deleted, gets a  *)
(* master again, unless the worker waits in createPod for a deleted pod or *)
(* no pod is labelled slave any more.  (A master whose container crashes   *)
(* keeps its label.)  The events of the pods are enough for this, late as  *)
(* the Endpoints may be: the comment at mysqlcluster_controller.go:132-135 *)
(* fears that they are not.                                                *)
MasterReelected ==
    [](NoMaster => <>(~NoMaster \/ WaitsForNobody \/ NobodyToElect))

(* Two pods can be labelled master: the worker elects again while the      *)
(* Endpoints lag behind its first choice, or the old master's container    *)
(* comes back.  The second label always goes away again, by the events of  *)
(* the pods alone.                                                         *)
TwoMastersEnd == []<>(AtMostOneMaster \/ WaitsForNobody)

----------------------------------------------------------------------------
(* A statement of the code's own comment that the code does not meet.      *)

(* elect_new_master.go:20: the slave with the largest share of the         *)
(* master's GTIDs is elected.                                              *)
BestGtidElected ==
    Decided => \A i \in DOMAIN compared :
                   ~(compared[master].gtids \subseteq compared[i].gtids
                     /\ compared[master].gtids # compared[i].gtids)
=============================================================================
