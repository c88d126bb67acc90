------------------------- MODULE RaftMetricsProofs -------------------------
(***************************************************************************)
(* What the metrics ConfigMap shows is backed, for every instance.  The    *)
(* manager under observation takes no step that it would not take alone,   *)
(* so its inductive invariant is available here.                           *)
(***************************************************************************)
EXTENDS RaftMetrics, RaftManagerProofs

(* MetricsBacked is inductive together with the same statement for what    *)
(* collectMetrics holds between reading and writing.                       *)
GatheredBacked ==
    \A n \in Managers : gathered[n] > NotLeader => Backed(n, gathered[n])

MetricsTypeOK ==
    /\ gathered \in [Managers -> {Waiting} \cup 0..MaxTerm]
    /\ metrics \in [by : Managers \cup {None}, leaderTerm : 0..MaxTerm]

MetricsInv == MetricsTypeOK /\ GatheredBacked /\ MetricsBacked

(* A step of the process is a step of its manager or leaves it alone.      *)
LEMMA ManagerStep ==
    ASSUME [MetricsNext]_processVars
    PROVE  [Next]_vars
<1>1. ASSUME NEW n \in Managers, RunningStep(n)
      PROVE  Next
  BY <1>1 DEF Next
<1>2. ASSUME NEW n \in Managers, MetricsRestart(n)
      PROVE  Next
  BY <1>2 DEF Next, MetricsRestart
<1>3. ASSUME ClusterEdited
      PROVE  Next
  BY <1>3 DEF Next
<1> QED
  BY <1>1, <1>2, <1>3
  DEF MetricsNext, processVars, GatherMetrics, StoreMetrics

(* The manager in a process that collects metrics behaves like one alone,  *)
(* so every theorem about RaftManager holds for it.                        *)
THEOREM ObservedManager == MetricsSpec => Spec
<1>1. MetricsInit => Init
  BY DEF MetricsInit
<1> QED
  BY <1>1, ManagerStep, PTL DEF MetricsSpec, Spec

(* Nothing is gathered or stored at the start.                             *)
LEMMA MetricsInitInv == MetricsInit => MetricsInv
  BY ConstantsAssumption
  DEF MetricsInit, MetricsInv, MetricsTypeOK, GatheredBacked, MetricsBacked,
      NoMetrics, Waiting, NotLeader

(* Gathering shows a leader only in a term in which it is backed; storing  *)
(* moves what was gathered; and the manager's steps never take a message   *)
(* away.                                                                   *)
LEMMA MetricsStep ==
    ASSUME IndInv, MetricsInv, [MetricsNext]_processVars
    PROVE  MetricsInv'
<1>1. mailbox \subseteq mailbox'
  BY ManagerStep, TermsAndMessagesGrow DEF IndInv
<1>2. \A n, t : Backed(n, t) => Backed(n, t)'
  BY <1>1, BackedAnnouncement
<1>3. /\ gathered \in [Managers -> {Waiting} \cup 0..MaxTerm]
      /\ metrics \in [by : Managers \cup {None}, leaderTerm : 0..MaxTerm]
      /\ currentTerm \in [Managers -> 0..MaxTerm]
      /\ MaxTerm \in Nat
  BY ConstantsAssumption DEF MetricsInv, MetricsTypeOK, IndInv, TypeOK
<1>4. CASE UNCHANGED metricsVars
  BY <1>2, <1>4
  DEF metricsVars, MetricsInv, MetricsTypeOK, GatheredBacked, MetricsBacked
<1>5. ASSUME NEW n \in Managers, GatherMetrics(n)
      PROVE  MetricsInv'
  <2>1. /\ LeaderTerm(n) \in 0..MaxTerm
        /\ LeaderTerm(n) > NotLeader => Backed(n, LeaderTerm(n))
    BY <1>3 DEF LeaderTerm, NotLeader, IndInv, BackedInv, LeadershipBacked
  <2> QED
    BY <1>2, <1>3, <1>5, <2>1
    DEF GatherMetrics, MetricsInv, MetricsTypeOK, GatheredBacked,
        MetricsBacked, NotLeader, Waiting
<1>6. ASSUME NEW n \in Managers, StoreMetrics(n)
      PROVE  MetricsInv'
  <2>1. gathered[n] \in 0..MaxTerm
    BY <1>3, <1>6 DEF StoreMetrics, Waiting
  <2> QED
    BY <1>2, <1>3, <1>6, <2>1
    DEF StoreMetrics, MetricsData, MetricsInv, MetricsTypeOK, GatheredBacked,
        MetricsBacked, NotLeader, Waiting
<1>7. ASSUME NEW n \in Managers, MetricsRestart(n)
      PROVE  MetricsInv'
  BY <1>2, <1>3, <1>7
  DEF MetricsRestart, MetricsInv, MetricsTypeOK, GatheredBacked,
      MetricsBacked, NotLeader, Waiting
<1> QED
  BY <1>4, <1>5, <1>6, <1>7 DEF MetricsNext, processVars, metricsVars

(* The metrics ConfigMap never shows a leader beside a term in which it    *)
(* had no majority behind it, however late the metrics are stored.         *)
THEOREM StoredMetricsAreBacked == MetricsSpec => []MetricsBacked
<1>1. MetricsSpec => []IndInv
  BY ObservedManager, Invariance, PTL
<1>2. MetricsInv => MetricsBacked
  BY DEF MetricsInv
<1> QED
  BY <1>1, <1>2, MetricsInitInv, MetricsStep, PTL DEF MetricsSpec
============================================================================
