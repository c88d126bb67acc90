------------------------ MODULE MasterElectionProofs ------------------------
(***************************************************************************)
(* The election by data for every number of slaves, every set of data      *)
(* sizes and every state of the snapshot, torn or not: the size decides.   *)
(*                                                                         *)
(* Most steps of ElectionSpec are steps of the reconciler, so its proofs   *)
(* of types and loop bounds are used again.  ScoreInv is the loop          *)
(* invariant of electNewMaster.                                            *)
(***************************************************************************)
EXTENDS MasterElection, MysqlReconcilerProofs, FiniteSetTheorems,
        SequenceTheorems

Scoring == {"score", "scoreExec"}

(* A text of at most n items.                                              *)
TextOK(text, n) ==
    \/ text = NoText
    \/ (\E T : text \in Seq(T)) /\ Len(text) \in 1..n

(* grep and awk leave one or two items of what mysqld prints; a torn read  *)
(* may add a piece.                                                        *)
SnapshotInv ==
    /\ TextOK(snapshot, 2) /\ TextOK(snapText, 2)
    /\ TextOK(seen, 3)

DataInv == DOMAIN executed = Numbers /\ DOMAIN retrieved = Numbers

(* The election runs on an initialized cluster.                            *)
LegacyPhaseInv ==
    /\ initialized = TRUE
    /\ after \in {"slaveRoles", "done"}
    /\ pc = "checkReplica" => after = "slaveRoles"
    /\ pc \in Scoring => todo \subseteq slaves
    /\ pc = "scoreExec" => at \in todo

(* highest is the score of best in sixths: its size and at most one whole  *)
(* share of GTIDs more; no slave scored so far exceeds it, and nobody is   *)
(* scored twice.                                                           *)
ScoreInv ==
    /\ pc \notin Scoring => best = None /\ highest = -1
    /\ pc \notin Scoring \cup {"labelMaster"} => DOMAIN compared = {}
    /\ pc \in Scoring =>
          /\ todo \cap DOMAIN compared = {}
          /\ \A i \in DOMAIN compared :
                compared[i].size \in Nat /\ 6 * compared[i].size <= highest
          /\ \/ DOMAIN compared = {} /\ best = None /\ highest = -1
             \/ /\ best \in DOMAIN compared
                /\ highest <= 6 * compared[best].size + 6

ElectionInv ==
    /\ CoreInv /\ ElectionTypeOK /\ SnapshotInv /\ DataInv
    /\ LegacyPhaseInv /\ ScoreInv /\ SizeDecides

----------------------------------------------------------------------------
(* The scores.                                                             *)

(* How a sequence is seen to be a text.                                    *)
LEMMA SequenceOK ==
    ASSUME NEW T, NEW text \in Seq(T), NEW n, Len(text) \in 1..n
    PROVE  TextOK(text, n)
BY DEF TextOK

(* However many sources there are, one or two items are left.              *)
LEMMA GtidTextOK == \A S : TextOK(GtidText(S), 2)
<1>1. ASSUME NEW x, NEW y
      PROVE  TextOK(<<x>>, 2) /\ TextOK(<<x, y>>, 2)
  <2>1. /\ <<x>> \in Seq({x, y}) /\ Len(<<x>>) \in 1..2
        /\ <<x, y>> \in Seq({x, y}) /\ Len(<<x, y>>) \in 1..2
    OBVIOUS
  <2> QED
    BY <2>1, SequenceOK
<1> QED
  BY <1>1 DEF GtidText

(* A torn read leaves at most three items.                                 *)
LEMMA TornTextOK ==
    ASSUME NEW text, TextOK(text, 2), NEW t \in TornTexts(text)
    PROVE  TextOK(t, 3)
<1>1. PICK T : text \in Seq(T) /\ Len(text) \in 0..2
  <2>1. CASE text = NoText
    <3>1. text \in Seq({}) /\ Len(text) \in 0..2
      BY <2>1, EmptySeq DEF NoText
    <3> QED
      BY <3>1
  <2>2. CASE text # NoText
    BY <2>2 DEF TextOK
  <2> QED
    BY <2>1, <2>2
<1>2. ASSUME NEW k \in 0..Len(text)
      PROVE  /\ SubSeq(text, 1, k) \in Seq(T)
             /\ Len(SubSeq(text, 1, k)) = k
             /\ k \in 0..2
  <2>1. k \in 0..2 /\ k \in Int /\ \A i \in 1..k : text[i] \in T
    BY <1>1, <1>2, ElementOfSeq
  <2>2. /\ SubSeq(text, 1, k) \in Seq(T)
        /\ Len(SubSeq(text, 1, k)) = IF 1 <= k THEN k - 1 + 1 ELSE 0
    BY <2>1, SubSeqProperties
  <2> QED
    BY <2>1, <2>2
<1>3. ASSUME NEW k \in 0..Len(text)
      PROVE  TextOK(SubSeq(text, 1, k), 3)
  <2> DEFINE u == SubSeq(text, 1, k)
  <2>1. u \in Seq(T) /\ Len(u) \in 0..2
    BY <1>2, <1>3
  <2>2. CASE u = NoText
    BY <2>2 DEF TextOK
  <2>3. CASE u # NoText
    <3>1. Len(u) \in 1..3
      BY <2>1, <2>3, EmptySeq DEF NoText
    <3> QED
      BY <2>1, <3>1, SequenceOK
  <2> QED
    BY <2>2, <2>3
<1>4. ASSUME NEW k \in 0..Len(text), NEW piece
      PROVE  TextOK(Append(SubSeq(text, 1, k), piece), 3)
  <2> DEFINE u == SubSeq(text, 1, k)
  <2>1. u \in Seq(T) /\ Len(u) \in 0..2
    BY <1>2, <1>4
  <2>2. u \in Seq(T \cup {piece})
    BY <2>1, SeqMonotonic
  <2>3. /\ Append(u, piece) \in Seq(T \cup {piece})
        /\ Len(Append(u, piece)) = Len(u) + 1
    BY <2>2, AppendProperties
  <2>4. Len(Append(u, piece)) \in 1..3
    BY <2>1, <2>3
  <2> QED
    BY <2>3, <2>4, SequenceOK
<1>5. \/ \E k \in 0..Len(text) : t = SubSeq(text, 1, k)
      \/ \E u \in {SubSeq(text, 1, k) : k \in 0..Len(text)} :
            \E piece : t = Append(u, piece)
  BY DEF TornTexts
<1>6. ASSUME NEW u \in {SubSeq(text, 1, k) : k \in 0..Len(text)}, NEW piece
      PROVE  TextOK(Append(u, piece), 3)
  <2>1. PICK k \in 0..Len(text) : u = SubSeq(text, 1, k)
    BY <1>6
  <2> QED
    BY <2>1, <1>4
<1> QED
  BY <1>3, <1>5, <1>6

(* calculateGTIDScore yields a share, from nothing to the whole.           *)
LEMMA GtidScoreRange ==
    ASSUME NEW a, NEW b, TextOK(a, 3)
    PROVE  GtidScore(a, b) \in 0..6
<1> DEFINE found == {k \in 1..Len(a) : \E l \in 1..Len(b) : a[k] = b[l]}
<1>1. CASE a = NoText \/ b = NoText
  BY <1>1 DEF GtidScore
<1>2. CASE ~(a = NoText \/ b = NoText)
  <2>1. Len(a) \in {1, 2, 3}
    BY <1>2 DEF TextOK
  <2>2. IsFiniteSet(1..Len(a)) /\ Cardinality(1..Len(a)) = Len(a)
    <3>1. ASSUME NEW n \in Nat, n >= 1
          PROVE  IsFiniteSet(1..n) /\ Cardinality(1..n) = n
      BY <3>1, FS_Interval
    <3> QED
      BY <2>1, <3>1
  <2>3. found \subseteq 1..Len(a)
    OBVIOUS
  <2>4. /\ IsFiniteSet(found) /\ Cardinality(found) <= Len(a)
        /\ Cardinality(found) \in Nat
    BY <2>2, <2>3, FS_Subset, FS_CardinalityType
  <2>5. ASSUME NEW c \in Nat, NEW n \in {1, 2, 3}, c <= n
        PROVE  (6 * c) \div n \in 0..6
    <3>1. c \in {0, 1, 2, 3}
      BY <2>5
    <3> QED
      BY <2>5, <3>1
  <2>6. (6 * Cardinality(found)) \div Len(a) \in 0..6
    BY <2>1, <2>4, <2>5
  <2> QED
    BY <1>2, <2>6 DEF GtidScore
<1> QED
  BY <1>1, <1>2

----------------------------------------------------------------------------
(* Types and loops.                                                        *)

(* The steps that are not the reconciler's own.                            *)
LEMMA SharedSteps ==
    ASSUME [ElectionNext]_electionVars
    PROVE  \/ [Next]_vars
           \/ LegacyCheckMaster \/ LegacyReplicaStatus \/ ElectNewMaster
           \/ GetDataScore \/ \E i \in Numbers : ReadSnapshot(i)
<1>1. CASE LegacyCallFails
  BY <1>1 DEF LegacyCallFails, Next
<1>2. CASE SnapStep \/ UNCHANGED electionVars
  BY <1>2 DEF SnapStep, SnapList, SnapExec, SnapWrite, electionVars
<1>3. CASE LegacyEnvironment
  BY <1>3
  DEF LegacyEnvironment, ClientWrites, Replicate, LegacyRestart, Next,
      Environment
<1>4. CASE LegacyWorkerStep
  BY <1>4
  DEF LegacyWorkerStep, LegacyLabelMaster, LegacyExecMaster, LegacyFinish,
      LegacyExecSlave, Next, WorkerStep
<1> QED
  BY <1>1, <1>2, <1>3, <1>4 DEF ElectionNext

(* They keep the reconciler's types and loops like the others.             *)
LEMMA LegacyCoreStep ==
    ASSUME CoreInv, ElectionTypeOK, LegacyPhaseInv, [ElectionNext]_electionVars
    PROVE  CoreInv'
<1> USE DEF CoreInv, StateTypeOK, SizeInv, LoopInv
<1>1. CASE [Next]_vars
  BY <1>1, CoreStep
<1>2. CASE LegacyCheckMaster
  <2>1. /\ budget' \in [Faults -> Nat] /\ queue' \in BOOLEAN
        /\ pc' \in {"elect", "replicaStatus", "idle"}
    BY <1>2, SpendType DEF LegacyCheckMaster, Requeue, Faults
  <2> QED
    BY <1>2, <2>1 DEF LegacyCheckMaster, objects, podVars, locals, process
<1>3. CASE LegacyReplicaStatus
  <2>1. CASE ReplicaStatus
    BY <2>1, CoreStep DEF Next, WorkerStep
  <2>2. CASE ListReplicas("labelMaster")
    <3>1. /\ todo' \subseteq Numbers /\ budget' \in [Faults -> Nat]
          /\ after' = "slaveRoles"
          /\ pc' \in {"labelMaster", "checkReplica"}
      BY <2>2, ListReplicasCore
    <3> QED
      BY <2>2, <3>1 DEF ListReplicas, objects, podVars, process
  <2>3. ASSUME NEW i \in Numbers, CheckReplica(i, "labelMaster")
        PROVE  CoreInv'
    <3>1. /\ todo' \subseteq Numbers /\ failed' \subseteq Numbers
          /\ queue' \in BOOLEAN
          /\ pc' \in {"checkReplica", "labelMaster", "idle"}
      BY <2>3, CheckReplicaCore
    <3> QED
      BY <2>3, <3>1 DEF CheckReplica, objects, podVars, process
  <2> QED
    BY <1>3, <2>1, <2>2, <2>3 DEF LegacyReplicaStatus
<1>4. CASE ElectNewMaster
  <2>1. /\ todo' \subseteq Numbers /\ queue' \in BOOLEAN
        /\ pc' \in {"score", "idle"}
    BY <1>4 DEF ElectNewMaster, Requeue
  <2> QED
    BY <1>4, <2>1 DEF ElectNewMaster, objects, podVars, process
<1>5. ASSUME NEW i \in Numbers, ReadSnapshot(i)
      PROVE  CoreInv'
  BY <1>5 DEF ReadSnapshot, objects, podVars, process
<1>6. CASE GetDataScore
  <2>1. /\ todo' \subseteq Numbers /\ queue' \in BOOLEAN
        /\ master' \in Numbers \cup {None}
        /\ after' \in {"annotate", "slaveRoles", "done"}
        /\ pc' \in {"labelMaster", "score", "idle"} /\ at' = None
    <3>1. at' = None /\ pc = "scoreExec" /\ at \in Numbers
      BY <1>6 DEF GetDataScore, LegacyPhaseInv
    <3>2. CASE ~ExecCommandOnPod(at)
      BY <1>6, <3>1, <3>2 DEF GetDataScore, Requeue
    <3>3. ASSUME NEW winner \in {at, best},
                 \/ /\ pc' = "labelMaster" /\ after' = "done"
                    /\ master' = winner /\ todo' = slaves \ {winner}
                 \/ /\ pc' = "score" /\ todo' = todo \ {at}
                    /\ UNCHANGED <<master, after>>,
                 UNCHANGED queue
          PROVE  /\ todo' \subseteq Numbers /\ queue' \in BOOLEAN
                 /\ master' \in Numbers \cup {None}
                 /\ after' \in {"annotate", "slaveRoles", "done"}
                 /\ pc' \in {"labelMaster", "score", "idle"} /\ at' = None
      BY <3>1, <3>3 DEF ElectionTypeOK
    <3>4. CASE ExecCommandOnPod(at)
      BY <1>6, <3>3, <3>4 DEF GetDataScore
    <3> QED
      BY <3>2, <3>4
  <2> QED
    BY <1>6, <2>1 DEF GetDataScore, objects, podVars, process
<1> QED
  BY <1>1, <1>2, <1>3, <1>4, <1>5, <1>6, SharedSteps

LegacyLocations ==
    {"idle", "done", "wait", "replicas", "missing", "missingConfigMap",
     "missingPod", "checkMaster", "replicaStatus", "listReplicas",
     "checkReplica", "elect", "score", "scoreExec", "labelMaster",
     "execMaster", "execSlave", "labelSlave", "slaveRoles", "demote"}

(* checkReplicaStatus leaves the election alone, and its caller has the    *)
(* setup return to ensureSlaveRoles.                                       *)
LEMMA ReplicaStatusKind ==
    ASSUME LegacyReplicaStatus, pc = "checkReplica" => after = "slaveRoles"
    PROVE  /\ pc \in {"replicaStatus", "listReplicas", "checkReplica"}
           /\ pc' \in {"listReplicas", "checkReplica", "labelMaster", "idle"}
           /\ pc' \in {"checkReplica", "labelMaster"} => after' = "slaveRoles"
           /\ after' \in {after, "slaveRoles"}
           /\ initialized' = initialized
           /\ UNCHANGED <<process, data, snap, elect>>
<1>1. CASE ReplicaStatus
  BY <1>1 DEF LegacyReplicaStatus, ReplicaStatus, Requeue
<1>2. CASE ListReplicas("labelMaster")
  BY <1>2 DEF LegacyReplicaStatus, ListReplicas
<1>3. ASSUME NEW i \in Numbers, CheckReplica(i, "labelMaster")
      PROVE  /\ pc = "checkReplica" /\ after' = after
             /\ pc' \in {"checkReplica", "labelMaster", "idle"}
             /\ initialized' = initialized
             /\ UNCHANGED process
  BY <1>3 DEF CheckReplica, Requeue
<1> QED
  BY <1>1, <1>2, <1>3 DEF LegacyReplicaStatus

(* How the steps divide for the locals of electNewMaster: the election     *)
(* itself, the returns that forget them, and the steps that leave them     *)
(* alone, inside and outside of an election.                               *)
LEMMA ElectionKinds ==
    ASSUME LegacyPhaseInv, pc \in LegacyLocations, [ElectionNext]_electionVars
    PROVE  /\ initialized' = TRUE /\ pc' \in LegacyLocations
           /\ after' \in {"slaveRoles", "done"}
           /\ \/ ElectNewMaster \/ GetDataScore \/ LegacyReplicaStatus
              \/ \E i \in Numbers : ReadSnapshot(i)
              \/ Forget /\ pc' \notin Scoring \cup {"labelMaster"}
              \/ UNCHANGED <<elect, pc, locals>>
              \/ /\ UNCHANGED elect
                 /\ pc \notin Scoring \cup {"labelMaster"}
                 /\ pc' \notin Scoring \cup {"labelMaster"}
<1> DEFINE Outside == Scoring \cup {"labelMaster"}
           Kind == \/ ElectNewMaster \/ GetDataScore \/ LegacyReplicaStatus
                   \/ \E i \in Numbers : ReadSnapshot(i)
                   \/ Forget /\ pc' \notin Outside
                   \/ UNCHANGED <<elect, pc, locals>>
                   \/ UNCHANGED elect /\ pc \notin Outside /\ pc' \notin Outside
           Goal == /\ initialized' = TRUE /\ pc' \in LegacyLocations
                   /\ after' \in {"slaveRoles", "done"} /\ Kind
<1> USE DEF LegacyLocations, Scoring
<1>0. initialized = TRUE /\ after \in {"slaveRoles", "done"}
  BY DEF LegacyPhaseInv
<1>1. CASE LegacyCallFails
  BY <1>0, <1>1 DEF LegacyCallFails, CallFails, Requeue, locals
<1>2. CASE SnapStep \/ UNCHANGED electionVars
  BY <1>0, <1>2 DEF SnapStep, SnapList, SnapExec, SnapWrite, electionVars,
                    vars, locals
<1>3. CASE LegacyRestart
  BY <1>0, <1>3 DEF LegacyRestart, OperatorRestart
<1>4. CASE LegacyEnvironment /\ ~LegacyRestart
  <2>1. /\ UNCHANGED elect
        /\ \/ UNCHANGED vars
           \/ EndpointsSync \/ Resync
           \/ \E i \in Numbers : \/ PodReady(i) \/ PodCrashes(i)
                                 \/ PodDeleted(i) \/ ReplicationBreaks(i)
    BY <1>4 DEF LegacyEnvironment, ClientWrites, Replicate
  <2>2. UNCHANGED <<initialized, pc, locals>>
    BY <2>1 DEF vars, EndpointsSync, Resync, PodReady, PodCrashes, PodDeleted,
                ReplicationBreaks
  <2> QED
    BY <1>0, <2>1, <2>2 DEF locals
<1>5. CASE Begin /\ UNCHANGED elect
  BY <1>0, <1>5 DEF Begin
<1>6. CASE (ReconcileReplicas \/ SlaveRoles) /\ UNCHANGED elect
  BY <1>0, <1>6 DEF ReconcileReplicas, SlaveRoles, Requeue
<1>7. CASE PodCreated /\ UNCHANGED elect
  BY <1>0, <1>7 DEF PodCreated, NextPod
<1>8. CASE LabelSlave /\ UNCHANGED elect
  BY <1>0, <1>8 DEF LabelSlave, Requeue
<1>9. ASSUME NEW i \in Numbers, CreateMissingPVC(i) \/ Demote(i),
             UNCHANGED elect
      PROVE  Goal
  BY <1>0, <1>9 DEF CreateMissingPVC, Demote, Requeue
<1>18. CASE (CreateMissingConfigMap \/ CreateMissingPod) /\ UNCHANGED elect
  BY <1>0, <1>18
  DEF CreateMissingConfigMap, CreateMissingPod, CreatePod, NextPod, locals
<1>10. CASE LegacyCheckMaster
  BY <1>0, <1>10 DEF LegacyCheckMaster, Requeue, locals
<1>11. CASE LegacyReplicaStatus
  BY <1>0, <1>11, ReplicaStatusKind DEF LegacyPhaseInv
<1>12. CASE LegacyLabelMaster
  BY <1>0, <1>12 DEF LegacyLabelMaster, LabelMaster, Requeue, locals
<1>13. CASE LegacyExecMaster
  BY <1>0, <1>13 DEF LegacyExecMaster, ExecMaster, Requeue, locals
<1>14. CASE ElectNewMaster
  BY <1>0, <1>14 DEF ElectNewMaster, Requeue
<1>15. CASE GetDataScore
  BY <1>0, <1>15 DEF GetDataScore, Requeue
<1>16. CASE LegacyFinish
  BY <1>0, <1>16 DEF LegacyFinish, Finish, locals
<1>17. ASSUME NEW i \in Numbers, ReadSnapshot(i) \/ LegacyExecSlave(i)
       PROVE  Goal
  BY <1>0, <1>17 DEF ReadSnapshot, LegacyExecSlave, ExecSlave, Requeue
<1> QED
  BY <1>1, <1>2, <1>3, <1>4, <1>5, <1>6, <1>7, <1>8, <1>9, <1>10, <1>11, <1>12,
     <1>13, <1>14, <1>15, <1>16, <1>17, <1>18
  DEF ElectionNext, LegacyWorkerStep

(* A replica is checked only on behalf of a caller that goes on with       *)
(* ensureSlaveRoles.                                                       *)
LEMMA ReplicaCheckReached ==
    ASSUME LegacyPhaseInv, pc \in LegacyLocations, [ElectionNext]_electionVars
    PROVE  pc' = "checkReplica" => after' = "slaveRoles"
<1> SUFFICES ASSUME pc' = "checkReplica" PROVE after' = "slaveRoles"
  OBVIOUS
<1>1. /\ pc = "checkReplica" => after = "slaveRoles"
      /\ after \in {"slaveRoles", "done"}
  BY DEF LegacyPhaseInv
<1>2. CASE LegacyReplicaStatus
  BY <1>1, <1>2, ReplicaStatusKind
<1>3. CASE UNCHANGED <<pc, locals>>
  BY <1>1, <1>3 DEF locals
<1>4. CASE LegacyEnvironment
  BY <1>3, <1>4
  DEF LegacyEnvironment, EndpointsSync, Resync, PodReady, PodCrashes,
      PodDeleted, ReplicationBreaks, ClientWrites, Replicate, LegacyRestart,
      OperatorRestart, vars
<1>5. CASE SnapStep \/ LegacyCallFails \/ UNCHANGED electionVars
  BY <1>3, <1>5
  DEF SnapStep, SnapList, SnapExec, SnapWrite, LegacyCallFails, CallFails,
      Requeue, electionVars, vars
<1>6. ASSUME LegacyWorkerStep, ~LegacyReplicaStatus
      PROVE  pc' # "checkReplica"
  BY <1>1, <1>6
  DEF LegacyWorkerStep, Begin, ReconcileReplicas, PodCreated, NextPod,
      LabelSlave, SlaveRoles, CreateMissingConfigMap, CreateMissingPod,
      CreatePod, CreateMissingPVC, Demote, LegacyCheckMaster,
      LegacyLabelMaster, LabelMaster, LegacyExecMaster, ExecMaster,
      ElectNewMaster, GetDataScore, LegacyFinish, Finish, ReadSnapshot,
      LegacyExecSlave, ExecSlave, Requeue
<1> QED
  BY <1>2, <1>3, <1>4, <1>5, <1>6 DEF ElectionNext

----------------------------------------------------------------------------
(* The loop of electNewMaster.                                             *)

(* What a scored slave adds to the comparison.                             *)
Best(size, g) == IF FinalScore(g, size) > highest THEN at ELSE best
Top(size, g) ==
    IF FinalScore(g, size) > highest THEN FinalScore(g, size) ELSE highest

(* getDataScore fails and all is forgotten, or the slave is compared with  *)
(* the best so far, and the last one decides.                              *)
LEMMA ScoreTaken ==
    ASSUME SnapshotInv, GetDataScore
    PROVE  /\ pc = "scoreExec" /\ at' = None
           /\ \/ pc' = "idle" /\ Forget /\ UNCHANGED <<after, todo>>
              \/ \E size \in DataSizes, g \in 0..6 :
                    /\ compared' = [i \in DOMAIN compared \cup {at} |->
                          IF i = at THEN [size |-> size, gtids |-> retrieved[at]]
                          ELSE compared[i]]
                    /\ \/ /\ pc' = "labelMaster" /\ after' = "done"
                          /\ master' = Best(size, g)
                          /\ ForgetLocals
                       \/ /\ pc' = "score" /\ todo' = todo \ {at}
                          /\ best' = Best(size, g) /\ highest' = Top(size, g)
                          /\ UNCHANGED <<slaves, seen>>
<1>1. GtidScore(seen, SlaveText(at)) \in 0..6
  BY GtidScoreRange DEF SnapshotInv
<1>2. CASE ~ExecCommandOnPod(at)
  BY <1>2 DEF GetDataScore, Requeue
<1>3. CASE ExecCommandOnPod(at)
  BY <1>1, <1>3 DEF GetDataScore, Best, Top
<1> QED
  BY <1>2, <1>3 DEF GetDataScore

(* A comparison keeps the loop invariant: of the old and the new score the *)
(* larger stays on top, with the slave it belongs to.                      *)
LEMMA ComparisonHolds ==
    ASSUME ElectionInv, pc = "scoreExec", NEW size \in DataSizes, NEW g \in 0..6,
           compared' = [i \in DOMAIN compared \cup {at} |->
               IF i = at THEN [size |-> size, gtids |-> retrieved[at]]
               ELSE compared[i]]
    PROVE  /\ DOMAIN compared' = DOMAIN compared \cup {at}
           /\ \A i \in DOMAIN compared' :
                 /\ compared'[i].size \in Nat
                 /\ 6 * compared'[i].size <= Top(size, g)
           /\ Best(size, g) \in DOMAIN compared'
           /\ Top(size, g) <= 6 * compared'[Best(size, g)].size + 6
           /\ Top(size, g) \in Int
<1> DEFINE score == FinalScore(g, size)
<1>1. size \in Nat /\ score = g + 6 * size /\ score \in Nat
  BY ElectionAssumption DEF FinalScore, DataScore
<1>2. /\ at \in todo /\ todo \cap DOMAIN compared = {}
      /\ \A i \in DOMAIN compared :
            compared[i].size \in Nat /\ 6 * compared[i].size <= highest
      /\ \/ DOMAIN compared = {} /\ best = None /\ highest = -1
         \/ best \in DOMAIN compared /\ highest <= 6 * compared[best].size + 6
  BY DEF ElectionInv, ScoreInv, LegacyPhaseInv, Scoring
<1>3. highest \in Int
  BY ElectionAssumption DEF ElectionInv, ElectionTypeOK, FinalScore, DataScore
<1>4. /\ DOMAIN compared' = DOMAIN compared \cup {at}
      /\ compared'[at].size = size
      /\ \A i \in DOMAIN compared : compared'[i].size = compared[i].size
  BY <1>2
<1>5. CASE score > highest
  <2>1. Best(size, g) = at /\ Top(size, g) = score
    BY <1>5 DEF Best, Top
  <2> QED
    BY <1>1, <1>2, <1>3, <1>4, <1>5, <2>1
<1>6. CASE ~(score > highest)
  <2>1. Best(size, g) = best /\ Top(size, g) = highest
    BY <1>6 DEF Best, Top
  <2>2. highest # -1
    BY <1>1, <1>3, <1>6
  <2>3. best \in DOMAIN compared /\ highest <= 6 * compared[best].size + 6
    BY <1>2, <2>2
  <2> QED
    BY <1>1, <1>2, <1>3, <1>4, <1>6, <2>1, <2>3
<1> QED
  BY <1>5, <1>6

(* Nobody is scored who was not listed, and the one whose score is being   *)
(* taken is one of those that are left.                                    *)
LEMMA LegacyPhaseStep ==
    ASSUME ElectionInv, [ElectionNext]_electionVars
    PROVE  LegacyPhaseInv'
<1>0. pc \in LegacyLocations
  BY DEF ElectionInv, ElectionTypeOK, LegacyLocations
<1>1. /\ initialized' = TRUE /\ after' \in {"slaveRoles", "done"}
      /\ \/ ElectNewMaster \/ GetDataScore \/ LegacyReplicaStatus
         \/ \E i \in Numbers : ReadSnapshot(i)
         \/ pc' \notin Scoring
         \/ UNCHANGED <<elect, pc, locals>>
  BY <1>0, ElectionKinds DEF ElectionInv
<1>2. LegacyPhaseInv
  BY DEF ElectionInv
<1>10. pc' = "checkReplica" => after' = "slaveRoles"
  BY <1>0, <1>2, ReplicaCheckReached DEF LegacyPhaseInv
<1>3. ASSUME /\ pc' \in Scoring => todo' \subseteq slaves'
             /\ pc' = "scoreExec" => at' \in todo'
      PROVE  LegacyPhaseInv'
  BY <1>1, <1>3, <1>10 DEF LegacyPhaseInv
<1>4. CASE ElectNewMaster
  BY <1>3, <1>4 DEF ElectNewMaster, Requeue, Scoring
<1>5. CASE GetDataScore
  <2>1. /\ pc' \in {"idle", "labelMaster", "score"}
        /\ pc' = "score" => todo' = todo \ {at} /\ slaves' = slaves
    BY <1>5, ScoreTaken DEF ElectionInv
  <2>2. todo \subseteq slaves
    BY <1>2, <1>5 DEF LegacyPhaseInv, GetDataScore, Scoring
  <2> QED
    BY <1>3, <2>1, <2>2 DEF Scoring
<1>6. CASE LegacyReplicaStatus
  <2>1. pc' \in {"listReplicas", "checkReplica", "labelMaster", "idle"}
    BY <1>2, <1>6, ReplicaStatusKind DEF LegacyPhaseInv
  <2> QED
    BY <1>3, <2>1 DEF Scoring
<1>7. ASSUME NEW i \in Numbers, ReadSnapshot(i)
      PROVE  LegacyPhaseInv'
  BY <1>2, <1>3, <1>7 DEF ReadSnapshot, LegacyPhaseInv, Scoring
<1>8. CASE pc' \notin Scoring
  BY <1>3, <1>8 DEF Scoring
<1>9. CASE UNCHANGED <<elect, pc, locals>>
  BY <1>2, <1>3, <1>9 DEF elect, locals, LegacyPhaseInv
<1> QED
  BY <1>1, <1>4, <1>5, <1>6, <1>7, <1>8, <1>9

(* The loop invariant of electNewMaster: it starts with nobody compared,   *)
(* every comparison keeps it, and every return forgets what was compared.  *)
LEMMA ScoreStep ==
    ASSUME ElectionInv, [ElectionNext]_electionVars
    PROVE  ScoreInv'
<1>0. pc \in LegacyLocations
  BY DEF ElectionInv, ElectionTypeOK, LegacyLocations
<1>1. /\ \/ ElectNewMaster \/ GetDataScore \/ LegacyReplicaStatus
         \/ \E i \in Numbers : ReadSnapshot(i)
         \/ Forget /\ pc' \notin Scoring \cup {"labelMaster"}
         \/ UNCHANGED <<elect, pc, locals>>
         \/ /\ UNCHANGED elect
            /\ pc \notin Scoring \cup {"labelMaster"}
            /\ pc' \notin Scoring \cup {"labelMaster"}
  BY <1>0, ElectionKinds DEF ElectionInv
<1>2. ScoreInv
  BY DEF ElectionInv
<1>3. CASE ElectNewMaster
  <2>1. /\ pc = "elect" /\ pc' \in {"score", "idle"}
        /\ UNCHANGED <<best, highest, compared>>
    BY <1>3 DEF ElectNewMaster, Requeue
  <2> QED
    BY <1>2, <2>1 DEF ScoreInv, Scoring
<1>4. CASE LegacyReplicaStatus
  <2>1. /\ pc \in {"replicaStatus", "listReplicas", "checkReplica"}
        /\ pc' \in {"listReplicas", "checkReplica", "labelMaster", "idle"}
        /\ UNCHANGED <<best, highest, compared>>
    BY <1>4, ReplicaStatusKind DEF elect, ElectionInv, LegacyPhaseInv
  <2> QED
    BY <1>2, <2>1 DEF ScoreInv, Scoring
<1>5. ASSUME NEW i \in Numbers, ReadSnapshot(i)
      PROVE  ScoreInv'
  <2>1. /\ pc = "score" /\ pc' = "scoreExec"
        /\ UNCHANGED <<todo, best, highest, compared>>
    BY <1>5 DEF ReadSnapshot
  <2> QED
    BY <1>2, <2>1 DEF ScoreInv, Scoring
<1>6. CASE Forget /\ pc' \notin Scoring \cup {"labelMaster"}
  <2>1. DOMAIN compared' = {} /\ best' = None /\ highest' = -1
    BY <1>6 DEF Forget, ForgetLocals
  <2> QED
    BY <1>6, <2>1 DEF ScoreInv
<1>7. CASE UNCHANGED <<elect, pc, locals>>
  BY <1>2, <1>7 DEF ScoreInv, elect, locals
<1>8. CASE /\ UNCHANGED elect
           /\ pc \notin Scoring \cup {"labelMaster"}
           /\ pc' \notin Scoring \cup {"labelMaster"}
  BY <1>2, <1>8 DEF ScoreInv, elect
<1>9. CASE GetDataScore
  <2>1. /\ pc = "scoreExec" /\ SnapshotInv
    BY <1>9 DEF GetDataScore, ElectionInv
  <2>2. CASE pc' = "idle" /\ Forget
    BY <2>2, <1>6 DEF Scoring
  <2>3. CASE pc' = "labelMaster" /\ ForgetLocals
    BY <2>3 DEF ScoreInv, Scoring, ForgetLocals
  <2>4. ASSUME NEW size \in DataSizes, NEW g \in 0..6,
               compared' = [i \in DOMAIN compared \cup {at} |->
                   IF i = at THEN [size |-> size, gtids |-> retrieved[at]]
                   ELSE compared[i]],
               pc' = "score", todo' = todo \ {at},
               best' = Best(size, g), highest' = Top(size, g)
        PROVE  ScoreInv'
    <3>1. todo \cap DOMAIN compared = {}
      BY <1>2, <2>1 DEF ScoreInv, Scoring
    <3>2. /\ DOMAIN compared' = DOMAIN compared \cup {at}
          /\ \A i \in DOMAIN compared' :
                compared'[i].size \in Nat /\ 6 * compared'[i].size <= highest'
          /\ best' \in DOMAIN compared'
          /\ highest' <= 6 * compared'[best'].size + 6
      BY <2>1, <2>4, ComparisonHolds
    <3> QED
      BY <2>4, <3>1, <3>2 DEF ScoreInv, Scoring
  <2> QED
    BY <1>9, <2>1, <2>2, <2>3, <2>4, ScoreTaken
<1> QED
  BY <1>1, <1>3, <1>4, <1>5, <1>6, <1>7, <1>8, <1>9

(* The last comparison decides for a slave whose score nobody exceeds, and *)
(* its size alone is at least that of every other less one byte.           *)
LEMMA DecisionStep ==
    ASSUME ElectionInv, [ElectionNext]_electionVars
    PROVE  SizeDecides'
<1>0. pc \in LegacyLocations
  BY DEF ElectionInv, ElectionTypeOK, LegacyLocations
<1>1. \/ ElectNewMaster \/ GetDataScore \/ LegacyReplicaStatus
      \/ \E i \in Numbers : ReadSnapshot(i)
      \/ pc' # "labelMaster"
      \/ UNCHANGED <<elect, pc, locals>>
  BY <1>0, ElectionKinds DEF ElectionInv
<1>2. SizeDecides
  BY DEF ElectionInv
<1>3. CASE ElectNewMaster \/ \E i \in Numbers : ReadSnapshot(i)
  BY <1>3 DEF ElectNewMaster, ReadSnapshot, Requeue, SizeDecides, Decided
<1>4. CASE LegacyReplicaStatus
  <2>1. pc' = "labelMaster" => after' = "slaveRoles"
    BY <1>4, ReplicaStatusKind DEF ElectionInv, LegacyPhaseInv
  <2> QED
    BY <2>1 DEF SizeDecides, Decided
<1>5. CASE pc' # "labelMaster"
  BY <1>5 DEF SizeDecides, Decided
<1>6. CASE UNCHANGED <<elect, pc, locals>>
  BY <1>2, <1>6 DEF SizeDecides, Decided, elect, locals
<1>7. CASE GetDataScore
  <2>1. /\ pc = "scoreExec" /\ SnapshotInv
    BY <1>7 DEF GetDataScore, ElectionInv
  <2>2. ASSUME NEW size \in DataSizes, NEW g \in 0..6,
               compared' = [i \in DOMAIN compared \cup {at} |->
                   IF i = at THEN [size |-> size, gtids |-> retrieved[at]]
                   ELSE compared[i]],
               master' = Best(size, g)
        PROVE  SizeDecides'
    <3>1. /\ \A i \in DOMAIN compared' :
                compared'[i].size \in Nat
                /\ 6 * compared'[i].size <= Top(size, g)
          /\ master' \in DOMAIN compared'
          /\ Top(size, g) <= 6 * compared'[master'].size + 6
          /\ Top(size, g) \in Int
      BY <2>1, <2>2, ComparisonHolds
    <3>2. ASSUME NEW i \in DOMAIN compared'
          PROVE  compared'[master'].size + 1 >= compared'[i].size
      BY <3>1, <3>2
    <3> QED
      BY <3>2 DEF SizeDecides
  <2> QED
    BY <1>5, <1>7, <2>1, <2>2, ScoreTaken
<1> QED
  BY <1>1, <1>3, <1>4, <1>5, <1>6, <1>7

----------------------------------------------------------------------------
(* The data and the snapshot.                                              *)

(* The data directories: transactions are only added, and a relay log that *)
(* is not deleted holds what was executed.                                 *)
LEMMA DataStep ==
    ASSUME DataInv, \A i \in Numbers : retrieved[i] \subseteq executed[i],
           [ElectionNext]_electionVars
    PROVE  DataInv' /\ \A i \in Numbers : retrieved'[i] \subseteq executed'[i]
<1> USE DEF DataInv
<1>1. \/ UNCHANGED data
      \/ LegacyExecMaster
      \/ \E i \in Numbers : LegacyExecSlave(i) \/ ClientWrites(i)
      \/ \E i, m \in Numbers : Replicate(i, m)
  BY DEF ElectionNext, LegacyWorkerStep, LegacyCallFails, SnapStep,
         LegacyEnvironment, electionVars, LegacyCheckMaster,
         LegacyReplicaStatus, LegacyLabelMaster, ElectNewMaster, GetDataScore,
         LegacyFinish, ReadSnapshot, SnapList, SnapExec, SnapWrite,
         LegacyRestart
<1>2. CASE UNCHANGED data
  BY <1>2 DEF data
<1>3. ASSUME NEW i, Commit(i) \/ UNCHANGED executed, UNCHANGED retrieved
      PROVE  DataInv' /\ \A j \in Numbers : retrieved'[j] \subseteq executed'[j]
  BY <1>3 DEF Commit
<1>4. CASE LegacyExecMaster
  BY <1>3, <1>4 DEF LegacyExecMaster
<1>5. ASSUME NEW i \in Numbers, LegacyExecSlave(i) \/ ClientWrites(i)
      PROVE  DataInv' /\ \A j \in Numbers : retrieved'[j] \subseteq executed'[j]
  BY <1>3, <1>5 DEF LegacyExecSlave, ClientWrites
<1>6. ASSUME NEW i \in Numbers, NEW m \in Numbers, Replicate(i, m)
      PROVE  DataInv' /\ \A j \in Numbers : retrieved'[j] \subseteq executed'[j]
  <2>1. /\ retrieved' = [retrieved EXCEPT
                            ![i] = @ \cup (executed[m] \ executed[i])]
        /\ executed' = [executed EXCEPT ![i] = @ \cup executed[m]]
    BY <1>6 DEF Replicate
  <2> QED
    BY <2>1
<1> QED
  BY <1>1, <1>2, <1>4, <1>5, <1>6

(* Whatever getDataScore reads of the snapshot is a text of SHOW MASTER    *)
(* STATUS, nothing at all, or what a torn read makes of one.               *)
LEMMA SnapshotStep ==
    ASSUME SnapshotInv, [ElectionNext]_electionVars
    PROVE  SnapshotInv'
<1> USE DEF SnapshotInv
<1>0. TextOK(NoText, 2) /\ TextOK(NoText, 3)
  BY DEF TextOK
<1>1. TextOK(snapshot', 2) /\ TextOK(snapText', 2)
  <2>1. \/ UNCHANGED <<snapshot, snapText>>
        \/ SnapStep \/ LegacyRestart
    BY DEF ElectionNext, LegacyWorkerStep, LegacyCallFails, LegacyEnvironment,
           electionVars, snap, LegacyCheckMaster, LegacyReplicaStatus,
           LegacyLabelMaster, LegacyExecMaster, LegacyExecSlave,
           ElectNewMaster, GetDataScore, LegacyFinish, ReadSnapshot,
           ClientWrites, Replicate
  <2>2. CASE UNCHANGED <<snapshot, snapText>>
    BY <2>2
  <2>3. CASE SnapStep \/ LegacyRestart
    BY <1>0, <2>3, GtidTextOK
    DEF SnapStep, SnapList, SnapExec, SnapWrite, LegacyRestart
  <2> QED
    BY <2>1, <2>2, <2>3
<1>2. TextOK(seen', 3)
  <2>1. \/ UNCHANGED seen \/ ForgetLocals
        \/ \E i \in Numbers : ReadSnapshot(i)
    BY DEF ElectionNext, LegacyWorkerStep, LegacyCallFails, LegacyEnvironment,
           electionVars, elect, LegacyCheckMaster, LegacyReplicaStatus,
           LegacyLabelMaster, LegacyExecMaster, LegacyExecSlave,
           ElectNewMaster, GetDataScore, LegacyFinish, ClientWrites, Replicate,
           Forget, SnapStep, SnapList, SnapExec, SnapWrite, LegacyRestart
  <2>2. CASE UNCHANGED seen
    BY <2>2
  <2>3. CASE ForgetLocals
    BY <1>0, <2>3 DEF ForgetLocals
  <2>4. ASSUME NEW i \in Numbers, ReadSnapshot(i)
        PROVE  TextOK(seen', 3)
    <3>1. seen' \in {snapshot, snapText} \cup TornTexts(snapshot)
                                        \cup TornTexts(snapText)
      BY <2>4 DEF ReadSnapshot
    <3>2. ASSUME NEW text, TextOK(text, 2)
          PROVE  TextOK(text, 3)
      BY <3>2 DEF TextOK
    <3> QED
      BY <3>1, <3>2, TornTextOK
  <2> QED
    BY <2>1, <2>2, <2>3, <2>4
<1> QED
  BY <1>1, <1>2

(* The goroutine runs exactly while SnapGoIsEnabled is set.                *)
LEMMA GoroutineStep ==
    ASSUME snapPc \in {"off", "list", "exec", "write"}, snapEnabled \in BOOLEAN,
           (snapPc = "off") = ~snapEnabled, [ElectionNext]_electionVars
    PROVE  /\ snapPc' \in {"off", "list", "exec", "write"}
           /\ (snapPc' = "off") = ~snapEnabled'
<1>1. CASE LegacyFinish
  BY <1>1 DEF LegacyFinish, Finish
<1>2. CASE LegacyRestart
  BY <1>2 DEF LegacyRestart, OperatorRestart
<1>3. CASE SnapStep
  BY <1>3 DEF SnapStep, SnapList, SnapExec, SnapWrite, vars, process
<1>4. CASE UNCHANGED electionVars \/ LegacyCallFails
  BY <1>4 DEF electionVars, vars, process, snap, LegacyCallFails, CallFails
<1>5. CASE LegacyEnvironment /\ ~LegacyRestart
  BY <1>5
  DEF LegacyEnvironment, ClientWrites, Replicate, vars, process, snap,
      EndpointsSync, Resync, PodReady, PodCrashes, PodDeleted,
      ReplicationBreaks
<1>6. CASE LegacyWorkerStep /\ ~LegacyFinish
  <2>1. UNCHANGED snapPc
    BY <1>6
    DEF LegacyWorkerStep, snap, LegacyCheckMaster, LegacyReplicaStatus,
        LegacyLabelMaster, LegacyExecMaster, LegacyExecSlave, ElectNewMaster,
        GetDataScore, ReadSnapshot
  <2>2. UNCHANGED snapEnabled
    BY <1>6
    DEF LegacyWorkerStep, process, LegacyCheckMaster, LegacyReplicaStatus,
        LegacyLabelMaster, LegacyExecMaster, LegacyExecSlave, ElectNewMaster,
        GetDataScore, ReadSnapshot, Begin, ReconcileReplicas, PodCreated,
        LabelSlave, SlaveRoles, CreateMissingPVC, CreateMissingConfigMap,
        CreateMissingPod, Demote, LabelMaster, ExecMaster, ExecSlave,
        ReplicaStatus, ListReplicas, CheckReplica
  <2> QED
    BY <2>1, <2>2
<1> QED
  BY <1>1, <1>2, <1>3, <1>4, <1>5, <1>6 DEF ElectionNext

(* The locals of electNewMaster keep their types.                          *)
LEMMA ElectLocalsStep ==
    ASSUME ElectionInv, [ElectionNext]_electionVars
    PROVE  /\ slaves' \subseteq Numbers /\ best' \in Numbers \cup {None}
           /\ highest' \in {-1} \cup
                 {FinalScore(g, s) : g \in 0..6, s \in DataSizes}
           /\ DOMAIN compared' \subseteq Numbers
<1>0. pc \in LegacyLocations
  BY DEF ElectionInv, ElectionTypeOK, LegacyLocations
<1>1. \/ ElectNewMaster \/ GetDataScore \/ LegacyReplicaStatus
      \/ \E i \in Numbers : ReadSnapshot(i)
      \/ Forget \/ UNCHANGED elect
  BY <1>0, ElectionKinds DEF ElectionInv
<1>2. /\ slaves \subseteq Numbers /\ best \in Numbers \cup {None}
      /\ highest \in {-1} \cup
            {FinalScore(g, s) : g \in 0..6, s \in DataSizes}
      /\ DOMAIN compared \subseteq Numbers
  BY DEF ElectionInv, ElectionTypeOK
<1>3. CASE ElectNewMaster
  BY <1>2, <1>3 DEF ElectNewMaster, ElectionInv, CoreInv, StateTypeOK
<1>4. CASE Forget
  <2>1. DOMAIN compared' = {}
    BY <1>4 DEF Forget
  <2> QED
    BY <1>4, <2>1 DEF Forget, ForgetLocals
<1>5. CASE UNCHANGED elect \/ LegacyReplicaStatus
  BY <1>2, <1>5 DEF elect, LegacyReplicaStatus
<1>6. ASSUME NEW i \in Numbers, ReadSnapshot(i)
      PROVE  UNCHANGED <<slaves, best, highest, compared>>
  BY <1>6 DEF ReadSnapshot
<1>7. CASE GetDataScore
  <2>1. at \in Numbers
    BY <1>7 DEF GetDataScore, ElectionInv, LegacyPhaseInv, CoreInv, StateTypeOK
  <2>2. SnapshotInv
    BY DEF ElectionInv
  <2>3. ASSUME NEW size \in DataSizes, NEW g \in 0..6,
               compared' = [i \in DOMAIN compared \cup {at} |->
                   IF i = at THEN [size |-> size, gtids |-> retrieved[at]]
                   ELSE compared[i]]
        PROVE  /\ DOMAIN compared' \subseteq Numbers
               /\ Best(size, g) \in Numbers \cup {None}
               /\ Top(size, g) \in {-1} \cup
                     {FinalScore(h, s) : h \in 0..6, s \in DataSizes}
    BY <1>2, <2>1, <2>3 DEF Best, Top
  <2>4. ASSUME ForgetLocals
        PROVE  /\ slaves' \subseteq Numbers /\ best' \in Numbers \cup {None}
               /\ highest' \in {-1} \cup
                     {FinalScore(g, s) : g \in 0..6, s \in DataSizes}
    BY <2>4 DEF ForgetLocals
  <2> QED
    BY <1>2, <1>4, <1>7, <2>2, <2>3, <2>4, ScoreTaken
<1> QED
  BY <1>1, <1>2, <1>3, <1>4, <1>5, <1>6, <1>7

----------------------------------------------------------------------------
(* The theorems.                                                           *)

(* The cluster the election starts from, with mysql-01 its master.         *)
LEMMA ElectionStart == ElectionInit => ElectionInv
<1> SUFFICES ASSUME ElectionInit PROVE ElectionInv
  OBVIOUS
<1> USE DEF ElectionInit
<1>1. 1 \in Numbers
  <2>1. Replicas \in Nat /\ 1..Replicas \subseteq Numbers
    BY SizesCovered
  <2> QED
    BY <2>1, ElectionAssumption
<1>2. CoreInv
  BY <1>1, ReconcilerAssumption DEF CoreInv, StateTypeOK, SizeInv, LoopInv
<1>3. ElectionTypeOK
  <2>1. DOMAIN compared = {}
    OBVIOUS
  <2> QED
    BY <2>1 DEF ElectionTypeOK
<1>4. SnapshotInv
  BY DEF SnapshotInv, TextOK
<1>5. DataInv
  BY DEF DataInv
<1>6. LegacyPhaseInv /\ SizeDecides
  BY DEF LegacyPhaseInv, SizeDecides, Decided, Scoring
<1>7. ScoreInv
  <2>1. DOMAIN compared = {}
    OBVIOUS
  <2> QED
    BY <2>1 DEF ScoreInv, Scoring
<1> QED
  BY <1>2, <1>3, <1>4, <1>5, <1>6, <1>7 DEF ElectionInv

(* ElectionInv is inductive: elections, failing calls, the goroutine and   *)
(* restarts in any order keep it.                                          *)
THEOREM ElectionInvariance == ElectionSpec => []ElectionInv
<1>1. ASSUME ElectionInv, [ElectionNext]_electionVars
      PROVE  ElectionInv'
  <2>0. /\ CoreInv /\ ElectionTypeOK /\ SnapshotInv /\ DataInv
        /\ LegacyPhaseInv
    BY <1>1 DEF ElectionInv
  <2>1. CoreInv'
    BY <1>1, <2>0, LegacyCoreStep
  <2>2. LegacyPhaseInv' /\ ScoreInv' /\ SizeDecides'
    BY <1>1, LegacyPhaseStep, ScoreStep, DecisionStep
  <2>3. SnapshotInv'
    BY <1>1, <2>0, SnapshotStep
  <2>4. DataInv' /\ \A i \in Numbers : retrieved'[i] \subseteq executed'[i]
    BY <1>1, <2>0, DataStep DEF ElectionTypeOK
  <2>5. /\ snapPc' \in {"off", "list", "exec", "write"}
        /\ (snapPc' = "off") = ~snapEnabled'
    BY <1>1, <2>0, GoroutineStep DEF ElectionTypeOK, CoreInv, StateTypeOK
  <2>6. pc' \in LegacyLocations
    <3>1. pc \in LegacyLocations
      BY <2>0 DEF ElectionTypeOK, LegacyLocations
    <3> QED
      BY <1>1, <2>0, <3>1, ElectionKinds
  <2>7. ElectionTypeOK'
    BY <1>1, <2>4, <2>5, <2>6, ElectLocalsStep
    DEF ElectionTypeOK, LegacyLocations
  <2> QED
    BY <2>1, <2>2, <2>3, <2>4, <2>7 DEF ElectionInv
<1> QED
  BY <1>1, ElectionStart, PTL DEF ElectionSpec

(* The variables of the reconciler, of the snapshot goroutine and of       *)
(* electNewMaster keep their types, the goroutine runs exactly while       *)
(* SnapGoIsEnabled says so, and no relay log holds what its data directory *)
(* lacks.                                                                  *)
THEOREM ElectionTypes == ElectionSpec => []ElectionTypeOK
BY ElectionInvariance, PTL DEF ElectionInv

(* electNewMaster elects a slave whose data directory is, up to one byte,  *)
(* the largest of those compared, for any number of slaves and any sizes,  *)
(* however old, wrong or torn the snapshot is that their GTIDs were        *)
(* compared with.                                                          *)
THEOREM LargestIsElected == ElectionSpec => []SizeDecides
BY ElectionInvariance, PTL DEF ElectionInv

=============================================================================
