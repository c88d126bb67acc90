---------------------------- MODULE RaftMonitor ----------------------------
(***************************************************************************)
(* The RaftMonitor of internal/controller/raft_monitoring.go beside the    *)
(* RaftManager it was made for.  Both hold the same pointer to the         *)
(* resource, so they share the in-memory status and its resourceVersion.   *)
(*                                                                         *)
(* This is its updateClusterStatus loop; collectMetrics is in RaftMetrics, *)
(* and healthCheck only logs.  leaderId and peers of the manager, which    *)
(* all three read, are assigned nowhere.                                   *)
(***************************************************************************)
EXTENDS RaftManager

VARIABLES
    sync,     \* where syncClusterStatus stands, per manager's monitor
    encoded   \* the raftLeader the encoder has read from the shared status

monitorVars == <<sync, encoded>>
allVars == <<vars, monitorVars>>

MonitorInit ==
    /\ Init
    /\ sync = [n \in Managers |-> "idle"]
    /\ encoded = [n \in Managers |-> None]

(* What the monitor writes: leaderId is the empty string, peers is empty.  *)
MonitorStatusNamesSelf(n) ==
    [leader |-> n, term |-> currentTerm[n], size |-> 1]

MonitorStatus(n) == [leader |-> None, term |-> currentTerm[n], size |-> 1]

(* syncClusterStatus up to RUnlock: the shared status is rewritten.        *)
SyncLocal(n) ==
    /\ sync[n] = "idle"
    /\ sync' = [sync EXCEPT ![n] = "written"]
    /\ cluster' = [cluster EXCEPT ![n] = MonitorStatus(n)]
    /\ UNCHANGED <<roleVars, logVars, nextIndex, voteVars, pending, mailbox,
                   crd, fresh, failures, restarts, history, encoded>>

(* Status().Update outside the lock.  The encoder reads the fields of the  *)
(* shared status in the order of their declaration, raftLeader first, and  *)
(* becomeLeader may rewrite them in between.                               *)
SyncEncode(n) ==
    /\ sync[n] = "written"
    /\ sync' = [sync EXCEPT ![n] = "encoding"]
    /\ encoded' = [encoded EXCEPT ![n] = cluster[n].leader]
    /\ UNCHANGED vars

(* The rest is encoded and sent.  The response overwrites the shared       *)
(* status; an error is only logged.                                        *)
SyncPublish(n) ==
    LET s == [cluster[n] EXCEPT !.leader = encoded[n]]
    IN /\ sync[n] = "encoding"
       /\ sync' = [sync EXCEPT ![n] = "idle"]
       /\ \/ StatusStored(n, s) /\ cluster' = [cluster EXCEPT ![n] = s]
          \/ StatusRefused(n) /\ UNCHANGED cluster
       /\ UNCHANGED <<roleVars, logVars, nextIndex, voteVars, pending,
                      mailbox, restarts, history, encoded>>

MonitorRestart(n) ==
    /\ Restart(n)
    /\ sync' = [sync EXCEPT ![n] = "idle"]
    /\ encoded' = [encoded EXCEPT ![n] = None]

MonitorNext ==
    \/ \E n \in Managers :
           \/ RunningStep(n) /\ UNCHANGED monitorVars
           \/ SyncLocal(n) \/ SyncEncode(n) \/ SyncPublish(n)
           \/ MonitorRestart(n)
    \/ ClusterEdited /\ UNCHANGED monitorVars

MonitorSpec == MonitorInit /\ [][MonitorNext]_allVars

----------------------------------------------------------------------------
(* Properties.                                                             *)

(* The types of the manager and of the monitor's own position.             *)
MonitorTypeOK ==
    /\ TypeOK
    /\ sync \in [Managers -> {"idle", "written", "encoding"}]
    /\ encoded \in [Managers -> Managers \cup {None}]

(* Manager and monitor write the same status from two goroutines, and the  *)
(* monitor sends a copy that may be torn; still, until a process restarts, *)
(* the stored term never goes back.                                        *)
StoredTermMonotone ==
    [][crd'.term < crd.term => \E n \in Managers : restarts[n] > 0]_allVars

(* A stored status that names a leader, torn or not, carries a term in     *)
(* which that leader has the majority of messages behind it.               *)
StoredLeaderBacked == crd.leader # None => Backed(crd.leader, crd.term)

(* README.md:219 reads the current leader from status.raftLeader: a leader *)
(* that leads on stays named.  The monitor erases it.                      *)
StatusNamesLeader ==
    [][\A n \in Managers :
         crd.leader = n /\ state[n] = Leader /\ state'[n] = Leader
             => crd'.leader = n]_allVars
============================================================================
