---------------------------- MODULE RaftMetrics ----------------------------
(***************************************************************************)
(* collectMetrics of the RaftMonitor beside the RaftManager it observes:   *)
(* every 30 s the manager's fields are gathered under its read lock and    *)
(* written, some time later, to the ConfigMap <cluster>-raft-metrics.      *)
(*                                                                         *)
(* Of the metrics the model keeps the term in which they show a leader.    *)
(* Leader, peers, and the counts of elections and heartbeats are read from *)
(* fields that nothing assigns; log and commit index never move (LogInert).*)
(***************************************************************************)
EXTENDS RaftManager

VARIABLES
    gathered,   \* what collectMetrics holds between reading and writing
    metrics     \* the ConfigMap, and the process that wrote it (history)

metricsVars == <<gathered, metrics>>
processVars == <<vars, metricsVars>>

Waiting   == -1    \* for the next tick
NotLeader == 0     \* current_state is follower or candidate

NoMetrics == [by |-> None, leaderTerm |-> NotLeader]

MetricsInit ==
    /\ Init
    /\ gathered = [n \in Managers |-> Waiting]
    /\ metrics = NoMetrics

(* gatherMetrics: current_state and current_term of one moment.            *)
LeaderTermOfCandidate(n) ==
    IF state[n] # Follower THEN currentTerm[n] ELSE NotLeader

LeaderTerm(n) == IF state[n] = Leader THEN currentTerm[n] ELSE NotLeader

GatherMetrics(n) ==
    /\ gathered[n] = Waiting
    /\ gathered' = [gathered EXCEPT ![n] = LeaderTerm(n)]
    /\ UNCHANGED <<vars, metrics>>

(* updateMetricsConfigMap: the data of the ConfigMap.                      *)
MetricsData(n) == [by |-> n, leaderTerm |-> gathered[n]]

(* createOrUpdateConfigMap: Create, or Get and Update.  Any of the calls   *)
(* may fail, the Update because another process wrote in between; the      *)
(* error is logged and the metrics are gathered anew at the next tick.     *)
StoreMetrics(n) ==
    /\ gathered[n] # Waiting
    /\ metrics' \in {metrics, MetricsData(n)}
    /\ gathered' = [gathered EXCEPT ![n] = Waiting]
    /\ UNCHANGED vars

MetricsRestart(n) ==
    /\ Restart(n)
    /\ gathered' = [gathered EXCEPT ![n] = Waiting]
    /\ UNCHANGED metrics

MetricsNext ==
    \/ \E n \in Managers :
           \/ RunningStep(n) /\ UNCHANGED metricsVars
           \/ GatherMetrics(n) \/ StoreMetrics(n) \/ MetricsRestart(n)
    \/ ClusterEdited /\ UNCHANGED metricsVars

MetricsSpec == MetricsInit /\ [][MetricsNext]_processVars

(* The manager's goroutines are scheduled as before; nothing depends on    *)
(* the metrics being written.                                              *)
MetricsFairSpec == MetricsSpec /\ Fairness

----------------------------------------------------------------------------
(* Properties.                                                             *)

(* The manager has moved on when its metrics are stored, perhaps into      *)
(* another term, and a restart leaves those of an earlier life behind;     *)
(* still, a leader that the ConfigMap shows stands beside a term in which  *)
(* it had the majority of messages behind it.                              *)
MetricsBacked ==
    metrics.leaderTerm # NotLeader => Backed(metrics.by, metrics.leaderTerm)
============================================================================
