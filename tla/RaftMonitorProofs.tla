------------------------- MODULE RaftMonitorProofs -------------------------
(***************************************************************************)
(* Manager and monitor write one status from two goroutines.  For every    *)
(* number of managers, and however the copy that is sent gets torn, what   *)
(* is stored names only leaders that are backed, and its term goes back    *)
(* only after a restart.                                                   *)
(*                                                                         *)
(* The monitor is not a stutter of the manager: it rewrites the copy and   *)
(* stores it.  So the manager's invariant is carried through the monitor's *)
(* steps again, without PublisherInv, which the monitor breaks.            *)
(***************************************************************************)
EXTENDS RaftMonitor, RaftManagerProofs

(* The parts of the manager's invariant that the monitor leaves alone.     *)
ManagerPart == TypeOK /\ IndexInv /\ GoroutineInv /\ BackedInv

(* A copy of the status names nobody or a backed leader.                   *)
CopyBacked ==
    \A n \in Managers :
        cluster[n].leader # None => Backed(cluster[n].leader, cluster[n].term)

(* While a status is on its way the copy is one that its own manager or    *)
(* monitor has written.                                                    *)
SyncInv ==
    \A n \in Managers : sync[n] # "idle" =>
        /\ cluster[n].term <= currentTerm[n]
        /\ cluster[n].leader \in {None, n}

(* The name that was encoded fits every term that may still be read.       *)
EncodedInv ==
    \A n \in Managers : sync[n] = "encoding" /\ encoded[n] # None =>
        encoded[n] = n /\ Backed(n, cluster[n].term)

(* Until a process restarts, whoever may store has seen the stored term.   *)
FreshInv ==
    (\A n \in Managers : restarts[n] = 0) =>
        \A n \in Managers : fresh[n] =>
            crd.term <= cluster[n].term /\ crd.term <= currentTerm[n]

MonitorInv ==
    /\ ManagerPart /\ MonitorTypeOK
    /\ CopyBacked /\ SyncInv /\ EncodedInv /\ FreshInv

----------------------------------------------------------------------------
(* The manager's steps.                                                    *)

(* What a step of the process is for its manager.                          *)
LEMMA MonitorStepKinds ==
    ASSUME [MonitorNext]_allVars
    PROVE  \/ \E n \in Managers : SyncLocal(n) \/ SyncEncode(n) \/ SyncPublish(n)
           \/ \E n \in Managers : MonitorRestart(n)
           \/ [Next]_vars /\ restarts' = restarts /\ UNCHANGED monitorVars
<1>1. ASSUME NEW n \in Managers, RunningStep(n)
      PROVE  restarts' = restarts
  BY <1>1
  DEF RunningStep, HeartbeatExpires, ElectionTimeout, SendVoteRequest,
      CountVote, HeartbeatTick, SendAppendEntries, HandleVoteRequest,
      HandleAppendEntries, ForceElection
<1>2. ASSUME NEW n \in Managers, RunningStep(n)
      PROVE  Next
  BY <1>2 DEF Next
<1>3. ClusterEdited => Next /\ restarts' = restarts
  BY DEF Next, ClusterEdited
<1>4. CASE UNCHANGED allVars
  BY <1>4 DEF allVars, vars, monitorVars
<1> QED
  BY <1>1, <1>2, <1>3, <1>4 DEF MonitorNext

(* A process that counts no restart does not restart.                      *)
LEMMA NoRestart ==
    ASSUME TypeOK, restarts' = restarts, NEW n \in Managers
    PROVE  ~Restart(n)
<1>1. restarts \in [Managers -> 0..MaxRestarts] /\ restarts[n] \in Int
  BY ConstantsAssumption DEF TypeOK
<1> QED
  BY <1>1 DEF Restart

(* A manager's copy of the status is rewritten when it wins, and read anew *)
(* when its process starts.                                                *)
LEMMA CopySource ==
    ASSUME TypeOK, [Next]_vars, NEW k \in Managers
    PROVE  \/ cluster'[k] = cluster[k]
           \/ Won(k) /\ cluster'[k] = LeaderStatus(k)
           \/ Restart(k) /\ cluster'[k] = crd
<1>0. cluster \in [Managers -> StatusType]
  BY DEF TypeOK
<1>1. ASSUME NEW n \in Managers, NEW e \in Elections, NEW p \in Members,
             CountVote(n, e, p)
      PROVE  cluster'[k] = cluster[k] \/ (Won(k) /\ cluster'[k] = LeaderStatus(k))
  <2>1. CASE WinsElection(n, e)
    <3>1. Won(n) /\ BecomeLeader(n)
      BY <1>1, <2>1 DEF Won, CountVote
    <3>2. cluster' = [cluster EXCEPT ![n] = LeaderStatus(n)]
      BY <3>1 DEF BecomeLeader, UpdateClusterStatus
    <3> QED
      BY <1>0, <3>1, <3>2
  <2>2. CASE ~WinsElection(n, e)
    BY <1>1, <2>2 DEF CountVote, statusVars
  <2> QED
    BY <2>1, <2>2
<1>2. ASSUME NEW n \in Managers, Restart(n)
      PROVE  cluster'[k] = cluster[k] \/ (Restart(k) /\ cluster'[k] = crd)
  BY <1>0, <1>2 DEF Restart
<1>3. \/ cluster' = cluster
      \/ \E n \in Managers, e \in Elections, p \in Members : CountVote(n, e, p)
      \/ \E n \in Managers : Restart(n)
  BY DEF Next, RunningStep, HeartbeatExpires, ElectionTimeout,
         SendVoteRequest, SendAppendEntries, HeartbeatTick, HandleVoteRequest,
         HandleAppendEntries, ForceElection, ClusterEdited, vars, statusVars
<1> QED
  BY <1>1, <1>2, <1>3

(* Backing in a term is backing in every later one.                        *)
LEMMA BackedLater ==
    ASSUME TypeOK, NEW n \in Managers, NEW t \in Int, NEW u \in Int, t <= u,
           Backed(n, t)
    PROVE  Backed(n, u)
<1>1. \A m \in mailbox : m.term \in Int
  BY MailboxType
<1>2. Asked(n, t) \subseteq Asked(n, u) /\ Asked(n, u) \subseteq Peers(n)
  BY <1>1 DEF Asked
<1> QED
  BY <1>2, BackedByMore DEF Backed

(* The manager's own steps keep its part of the invariant.                 *)
LEMMA ManagerPartStep ==
    ASSUME ManagerPart, [Next]_vars
    PROVE  ManagerPart'
<1>1. TypeOK /\ IndexInv /\ GoroutineInv /\ BackedInv
  BY DEF ManagerPart
<1>2. TypeOK'
  BY <1>1, TypeStep
<1>3. IndexInv' /\ GoroutineInv' /\ BackedInv'
  BY <1>1, <1>2, IndexStep, GoroutineStep, BackedStep
<1> QED
  BY <1>2, <1>3 DEF ManagerPart

(* What the monitor's position says of its manager in such a step.         *)
LEMMA MonitorKeepsStep ==
    ASSUME MonitorTypeOK, [Next]_vars,
           \/ restarts' = restarts /\ UNCHANGED monitorVars
           \/ \E n \in Managers : MonitorRestart(n)
    PROVE  /\ MonitorTypeOK' <=> TypeOK'
           /\ \A k \in Managers : sync'[k] # "idle" =>
                 /\ sync'[k] = sync[k] /\ encoded'[k] = encoded[k]
                 /\ ~Restart(k)
<1>0. /\ sync \in [Managers -> {"idle", "written", "encoding"}]
      /\ encoded \in [Managers -> Managers \cup {None}]
      /\ TypeOK /\ restarts \in [Managers -> 0..MaxRestarts]
      /\ \A k \in Managers : restarts[k] \in Int
  BY ConstantsAssumption DEF MonitorTypeOK, TypeOK
<1>1. CASE restarts' = restarts /\ UNCHANGED monitorVars
  BY <1>0, <1>1, NoRestart DEF monitorVars, MonitorTypeOK
<1>2. ASSUME NEW n \in Managers, MonitorRestart(n)
      PROVE  /\ MonitorTypeOK' <=> TypeOK'
             /\ \A k \in Managers : sync'[k] # "idle" =>
                   /\ sync'[k] = sync[k] /\ encoded'[k] = encoded[k]
                   /\ ~Restart(k)
  <2>1. /\ sync' = [sync EXCEPT ![n] = "idle"]
        /\ encoded' = [encoded EXCEPT ![n] = None]
        /\ restarts' = [restarts EXCEPT ![n] = @ + 1]
    BY <1>2 DEF MonitorRestart, Restart
  <2>2. \A k \in Managers : k # n => ~Restart(k)
    BY <1>0, <2>1 DEF Restart
  <2> QED
    BY <1>0, <2>1, <2>2 DEF MonitorTypeOK
<1> QED
  BY <1>1, <1>2

(* A step of the manager, or its restart with its monitor, preserves the   *)
(* invariant.                                                              *)
LEMMA ManagerInMonitorStep ==
    ASSUME MonitorInv, [Next]_vars,
           \/ restarts' = restarts /\ UNCHANGED monitorVars
           \/ \E n \in Managers : MonitorRestart(n)
    PROVE  MonitorInv'
<1>0. /\ ManagerPart /\ MonitorTypeOK /\ TypeOK /\ GoroutineInv /\ BackedInv
      /\ CopyBacked /\ SyncInv /\ EncodedInv /\ FreshInv
  BY DEF MonitorInv, ManagerPart
<1>1. ManagerPart' /\ TypeOK'
  BY <1>0, ManagerPartStep DEF ManagerPart
<1>2. /\ MonitorTypeOK'
      /\ \A k \in Managers : sync'[k] # "idle" =>
            /\ sync'[k] = sync[k] /\ encoded'[k] = encoded[k] /\ ~Restart(k)
  BY <1>0, <1>1, MonitorKeepsStep
<1>3. mailbox \subseteq mailbox'
  BY <1>0, TermsAndMessagesGrow
<1>4. \A n, t : Backed(n, t) => Backed(n, t)'
  BY <1>3, BackedAnnouncement
<1>5. /\ crd.term \in Int
      /\ \A k \in Managers : /\ cluster[k].term \in Int /\ cluster'[k].term \in Int
                             /\ currentTerm[k] \in Int /\ currentTerm'[k] \in Int
  <2>1. /\ crd \in StatusType
        /\ \A k \in Managers : /\ cluster[k] \in StatusType
                               /\ cluster'[k] \in StatusType
                               /\ currentTerm[k] \in 0..MaxTerm
                               /\ currentTerm'[k] \in 0..MaxTerm
    BY <1>0, <1>1 DEF TypeOK
  <2> QED
    BY <2>1, ConstantsAssumption DEF StatusType
<1>6. CopyBacked'
  <2> SUFFICES ASSUME NEW k \in Managers, cluster'[k].leader # None
               PROVE  Backed(cluster[k].leader, cluster[k].term)'
    BY DEF CopyBacked
  <2>1. Backed(cluster'[k].leader, cluster'[k].term)
    <3>1. CASE cluster'[k] = cluster[k]
      BY <1>0, <3>1 DEF CopyBacked
    <3>2. CASE Won(k) /\ cluster'[k] = LeaderStatus(k)
      BY <1>0, <3>2, WinnerBacked DEF LeaderStatus
    <3>3. CASE Restart(k) /\ cluster'[k] = crd
      BY <1>0, <3>3 DEF BackedInv, AnnouncedLeadersBacked
    <3> QED
      BY <1>0, <3>1, <3>2, <3>3, CopySource
  <2> QED
    BY <1>4, <2>1 DEF Backed, Asked
<1>7. ASSUME NEW k \in Managers, sync'[k] # "idle"
      PROVE  /\ currentTerm[k] <= currentTerm'[k]
             /\ \/ cluster'[k] = cluster[k]
                \/ cluster'[k].leader = k /\ cluster'[k].term = currentTerm[k]
  <2>1. ~Restart(k)
    BY <1>2, <1>7
  <2>2. cluster'[k] = cluster[k] \/ cluster'[k] = LeaderStatus(k)
    BY <1>0, <2>1, CopySource
  <2> QED
    BY <1>0, <2>1, <2>2, TermsAndMessagesGrow DEF LeaderStatus
<1>8. SyncInv'
  <2> SUFFICES ASSUME NEW k \in Managers, sync'[k] # "idle"
               PROVE  /\ cluster'[k].term <= currentTerm'[k]
                      /\ cluster'[k].leader \in {None, k}
    BY DEF SyncInv
  <2>1. cluster[k].term <= currentTerm[k] /\ cluster[k].leader \in {None, k}
    BY <1>0, <1>2 DEF SyncInv
  <2> QED
    BY <1>5, <1>7, <2>1
<1>9. EncodedInv'
  <2> SUFFICES ASSUME NEW k \in Managers, sync'[k] = "encoding", encoded'[k] # None
               PROVE  encoded'[k] = k /\ Backed(k, cluster[k].term)'
    BY DEF EncodedInv
  <2>1. /\ encoded'[k] = k /\ Backed(k, cluster[k].term)
        /\ cluster[k].term <= currentTerm[k]
    BY <1>0, <1>2 DEF EncodedInv, SyncInv
  <2>2. cluster'[k].term = cluster[k].term \/ cluster'[k].term = currentTerm[k]
    BY <1>7
  <2>3. Backed(k, cluster'[k].term)
    BY <1>0, <1>5, <2>1, <2>2, BackedLater
  <2> QED
    BY <1>4, <2>1, <2>3 DEF Backed, Asked
<1>10. FreshInv'
  <2> SUFFICES ASSUME \A n \in Managers : restarts'[n] = 0,
                      NEW k \in Managers, fresh'[k]
               PROVE  crd'.term <= cluster'[k].term /\ crd'.term <= currentTerm'[k]
    BY DEF FreshInv
  <2>1. restarts' = restarts
    <3>1. ASSUME NEW n \in Managers, MonitorRestart(n)
          PROVE  FALSE
      <4>1. restarts \in [Managers -> 0..MaxRestarts] /\ restarts[n] \in Nat
        BY <1>0, ConstantsAssumption DEF TypeOK
      <4> QED
        BY <3>1, <4>1 DEF MonitorRestart, Restart
    <3> QED
      BY <3>1
  <2>2. \A n \in Managers : ~Restart(n) /\ currentTerm[n] <= currentTerm'[n]
    BY <1>0, <2>1, NoRestart, TermsAndMessagesGrow
  <2>3. CASE crd' = crd /\ \A n \in Managers : fresh'[n] => fresh[n]
    <3>1. crd.term <= cluster[k].term /\ crd.term <= currentTerm[k]
      BY <1>0, <2>1, <2>3 DEF FreshInv
    <3>2. cluster'[k] = cluster[k] \/ cluster'[k] = LeaderStatus(k)
      BY <1>0, <2>2, CopySource
    <3>3. cluster'[k].term = cluster[k].term \/ cluster'[k].term = currentTerm[k]
      BY <3>2 DEF LeaderStatus
    <3> QED
      BY <1>5, <2>2, <2>3, <3>1, <3>3
  <2>4. ASSUME NEW n \in Managers, Publishes(n)
        PROVE  crd'.term <= cluster'[k].term /\ crd'.term <= currentTerm'[k]
    <3>1. k = n /\ crd' = LeaderStatus(n) /\ BecomeLeader(n)
      BY <2>4, WonBecomes DEF Publishes
    <3>2. cluster'[k] = LeaderStatus(k)
      BY <1>0, <3>1 DEF BecomeLeader, UpdateClusterStatus, TypeOK
    <3> QED
      BY <1>5, <2>2, <3>1, <3>2 DEF LeaderStatus
  <2> QED
    BY <1>0, <2>2, <2>3, <2>4, StatusSource
<1> QED
  BY <1>1, <1>2, <1>6, <1>8, <1>9, <1>10 DEF MonitorInv

----------------------------------------------------------------------------
(* The monitor's steps.                                                    *)

(* A step that touches only the status keeps the manager's part.           *)
LEMMA StatusOnly ==
    ASSUME ManagerPart,
           UNCHANGED <<roleVars, logVars, nextIndex, voteVars, pending,
                       mailbox, restarts, history>>,
           cluster' \in [Managers -> StatusType], crd' \in StatusType,
           fresh' \in [Managers -> BOOLEAN], failures' \in 0..MaxFailures,
           crd'.leader # None => Backed(crd'.leader, crd'.term)
    PROVE  ManagerPart'
<1>1. /\ UNCHANGED <<state, currentTerm, votedFor, recent, log, commitIndex,
                     nextIndex, unsent, posted, counted, pending, mailbox,
                     restarts, lastVote, lastLed>>
  BY DEF roleVars, logVars, voteVars, history
<1>2. TypeOK'
  BY <1>1 DEF ManagerPart, TypeOK
<1>3. IndexInv'
  BY <1>1 DEF ManagerPart, IndexInv
<1>4. GoroutineInv'
  BY <1>1 DEF ManagerPart, GoroutineInv, Election, Asked
<1>5. LeadershipBacked'
  BY <1>1 DEF ManagerPart, BackedInv, LeadershipBacked, Backed, Asked
<1>6. AnnouncedLeadersBacked'
  BY <1>1 DEF ManagerPart, BackedInv, AnnouncedLeadersBacked, Backed, Asked
<1>7. (\A n \in Managers, p \in Members :
           pending[n][p] > 0 => Backed(n, currentTerm[n]))'
  BY <1>1 DEF ManagerPart, BackedInv, Backed, Asked
<1> QED
  BY <1>2, <1>3, <1>4, <1>5, <1>6, <1>7 DEF ManagerPart, BackedInv

(* Rewriting the copy: nobody is named, and the term is the manager's.     *)
LEMMA SyncLocalStep ==
    ASSUME MonitorInv, NEW n \in Managers, SyncLocal(n)
    PROVE  MonitorInv'
<1>0. /\ ManagerPart /\ TypeOK /\ MonitorTypeOK /\ CopyBacked /\ SyncInv
      /\ EncodedInv /\ FreshInv
  BY DEF MonitorInv, ManagerPart
<1>1. /\ cluster' = [cluster EXCEPT ![n] = MonitorStatus(n)]
      /\ sync' = [sync EXCEPT ![n] = "written"] /\ encoded' = encoded
      /\ UNCHANGED <<currentTerm, mailbox, crd, fresh, failures, restarts>>
      /\ UNCHANGED <<roleVars, logVars, nextIndex, voteVars, pending, history>>
  BY DEF SyncLocal, roleVars
<1>2. /\ cluster \in [Managers -> StatusType]
      /\ sync \in [Managers -> {"idle", "written", "encoding"}]
      /\ encoded \in [Managers -> Managers \cup {None}]
      /\ crd \in StatusType /\ fresh \in [Managers -> BOOLEAN]
      /\ failures \in 0..MaxFailures /\ currentTerm[n] \in 0..MaxTerm
      /\ MaxTerm \in Nat
  BY <1>0, ConstantsAssumption DEF TypeOK, MonitorTypeOK
<1>3. MonitorStatus(n) \in StatusType
  BY <1>2 DEF MonitorStatus, StatusType
<1>4. ManagerPart' /\ TypeOK'
  <2>1. cluster' \in [Managers -> StatusType]
    BY <1>1, <1>2, <1>3
  <2>2. crd'.leader # None => Backed(crd'.leader, crd'.term)
    BY <1>0, <1>1 DEF ManagerPart, BackedInv, AnnouncedLeadersBacked
  <2>3. UNCHANGED <<roleVars, logVars, nextIndex, voteVars, pending, mailbox,
                    restarts, history>>
    BY <1>1
  <2>4. ManagerPart'
    BY <1>0, <1>1, <1>2, <2>1, <2>2, <2>3, StatusOnly
  <2> QED
    BY <2>4 DEF ManagerPart
<1>5. MonitorTypeOK'
  BY <1>1, <1>2, <1>4 DEF MonitorTypeOK
<1>6. \A k \in Managers :
          \/ k = n /\ cluster'[k].leader = None /\ cluster'[k].term = currentTerm[k]
          \/ cluster'[k] = cluster[k] /\ sync'[k] = sync[k]
  BY <1>1, <1>2 DEF MonitorStatus
<1>7. \A k, t : Backed(k, t) => Backed(k, t)'
  BY <1>1, BackedAnnouncement
<1>8. CopyBacked'
  BY <1>0, <1>6, <1>7 DEF CopyBacked
<1>9. SyncInv'
  BY <1>0, <1>1, <1>2, <1>6 DEF SyncInv
<1>10. EncodedInv'
  BY <1>0, <1>1, <1>2, <1>6, <1>7 DEF EncodedInv
<1>11. FreshInv'
  BY <1>0, <1>1, <1>6 DEF FreshInv
<1> QED
  BY <1>4, <1>5, <1>8, <1>9, <1>10, <1>11 DEF MonitorInv

(* Encoding the name: it is the one in the copy, which the monitor's own   *)
(* manager wrote or nobody.                                                *)
LEMMA SyncEncodeStep ==
    ASSUME MonitorInv, NEW n \in Managers, SyncEncode(n)
    PROVE  MonitorInv'
<1>0. /\ ManagerPart /\ TypeOK /\ MonitorTypeOK /\ CopyBacked /\ SyncInv
      /\ EncodedInv /\ FreshInv
  BY DEF MonitorInv, ManagerPart
<1>1. /\ sync' = [sync EXCEPT ![n] = "encoding"] /\ sync[n] = "written"
      /\ encoded' = [encoded EXCEPT ![n] = cluster[n].leader]
      /\ UNCHANGED vars
  BY DEF SyncEncode
<1>2. UNCHANGED <<currentTerm, mailbox, cluster, crd, fresh, restarts>>
  BY <1>1 DEF vars, roleVars, statusVars
<1>3. /\ cluster[n].leader \in Managers \cup {None}
      /\ sync \in [Managers -> {"idle", "written", "encoding"}]
      /\ encoded \in [Managers -> Managers \cup {None}]
  BY <1>0 DEF TypeOK, StatusType, MonitorTypeOK
<1>4. ManagerPart' /\ TypeOK'
  BY <1>0, <1>1, ManagerPartStep DEF ManagerPart
<1>5. MonitorTypeOK'
  BY <1>1, <1>3, <1>4 DEF MonitorTypeOK
<1>6. \A k, t : Backed(k, t) => Backed(k, t)'
  BY <1>2, BackedAnnouncement
<1>7. CopyBacked' /\ SyncInv' /\ FreshInv'
  BY <1>0, <1>1, <1>2, <1>3, <1>6 DEF CopyBacked, SyncInv, FreshInv
<1>8. EncodedInv'
  <2>1. encoded'[n] # None => encoded'[n] = n /\ Backed(n, cluster[n].term)
    BY <1>0, <1>1, <1>3 DEF CopyBacked, SyncInv
  <2> QED
    BY <1>0, <1>1, <1>2, <1>3, <1>6, <2>1 DEF EncodedInv
<1> QED
  BY <1>4, <1>5, <1>7, <1>8 DEF MonitorInv

(* Sending: the name fits the term although the two may have been read     *)
(* before and after becomeLeader, and only who has seen the stored term    *)
(* replaces it.                                                            *)
LEMMA SyncPublishStep ==
    ASSUME MonitorInv, NEW n \in Managers, SyncPublish(n)
    PROVE  /\ MonitorInv'
           /\ crd'.term < crd.term => \E k \in Managers : restarts[k] > 0
<1> DEFINE s == [cluster[n] EXCEPT !.leader = encoded[n]]
<1>0. /\ ManagerPart /\ TypeOK /\ MonitorTypeOK /\ CopyBacked /\ SyncInv
      /\ EncodedInv /\ FreshInv
  BY DEF MonitorInv, ManagerPart
<1>1. /\ sync[n] = "encoding" /\ sync' = [sync EXCEPT ![n] = "idle"]
      /\ encoded' = encoded
      /\ UNCHANGED <<currentTerm, mailbox, restarts>>
      /\ UNCHANGED <<roleVars, logVars, nextIndex, voteVars, pending, history>>
  BY DEF SyncPublish, roleVars
<1>2. /\ cluster \in [Managers -> StatusType]
      /\ sync \in [Managers -> {"idle", "written", "encoding"}]
      /\ encoded \in [Managers -> Managers \cup {None}]
      /\ crd \in StatusType /\ fresh \in [Managers -> BOOLEAN]
      /\ failures \in 0..MaxFailures /\ MaxFailures \in Nat
      /\ \A k \in Managers : restarts[k] \in Nat
  BY <1>0, ConstantsAssumption DEF TypeOK, MonitorTypeOK
<1>3. /\ s \in StatusType /\ s.leader = encoded[n] /\ s.term = cluster[n].term
      /\ s.leader # None => Backed(s.leader, s.term)
      /\ cluster[n].term \in Int /\ crd.term \in Int /\ currentTerm[n] \in Int
      /\ cluster[n].term <= currentTerm[n]
  <2>1. cluster[n] \in StatusType /\ encoded[n] \in Managers \cup {None}
    BY <1>2
  <2>2. s \in StatusType /\ s.leader = encoded[n] /\ s.term = cluster[n].term
    BY <2>1 DEF StatusType
  <2>3. encoded[n] # None => Backed(encoded[n], cluster[n].term)
    BY <1>0, <1>1 DEF EncodedInv
  <2>4. /\ cluster[n].term \in Int /\ crd.term \in Int /\ currentTerm[n] \in Int
    BY <1>0, <1>2, <2>1, ConstantsAssumption DEF StatusType, TypeOK
  <2>5. cluster[n].term <= currentTerm[n]
    BY <1>0, <1>1 DEF SyncInv
  <2> QED
    BY <2>2, <2>3, <2>4, <2>5
<1>4. \/ /\ fresh[n] /\ crd' = s /\ fresh' = [m \in Managers |-> m = n]
         /\ failures' = failures
         /\ cluster' = [cluster EXCEPT ![n] = s]
      \/ /\ crd' = crd /\ fresh' = fresh /\ cluster' = cluster
         /\ failures' \in 0..MaxFailures
  BY <1>2 DEF SyncPublish, StatusStored, StatusRefused
<1> HIDE DEF s
<1>5. ManagerPart' /\ TypeOK'
  <2>1. /\ cluster' \in [Managers -> StatusType] /\ crd' \in StatusType
        /\ fresh' \in [Managers -> BOOLEAN] /\ failures' \in 0..MaxFailures
    BY <1>2, <1>3, <1>4
  <2>2. crd'.leader # None => Backed(crd'.leader, crd'.term)
    BY <1>0, <1>3, <1>4 DEF ManagerPart, BackedInv, AnnouncedLeadersBacked
  <2>3. UNCHANGED <<roleVars, logVars, nextIndex, voteVars, pending, mailbox,
                    restarts, history>>
    BY <1>1
  <2>4. ManagerPart'
    BY <1>0, <2>1, <2>2, <2>3, StatusOnly
  <2> QED
    BY <2>4 DEF ManagerPart
<1>6. MonitorTypeOK'
  BY <1>1, <1>2, <1>5 DEF MonitorTypeOK
<1>7. \A k, t : Backed(k, t) => Backed(k, t)'
  BY <1>1, BackedAnnouncement
<1>8. \A k \in Managers : cluster'[k] = cluster[k] \/ (k = n /\ cluster'[k] = s)
  BY <1>2, <1>4
<1>9. CopyBacked'
  BY <1>0, <1>3, <1>7, <1>8 DEF CopyBacked
<1>10. SyncInv' /\ EncodedInv'
  BY <1>0, <1>1, <1>2, <1>7, <1>8 DEF SyncInv, EncodedInv
<1>11. FreshInv'
  <2>1. CASE crd' = crd /\ fresh' = fresh /\ cluster' = cluster
    BY <1>0, <1>1, <2>1 DEF FreshInv
  <2>2. CASE crd' = s /\ fresh' = [m \in Managers |-> m = n]
             /\ cluster' = [cluster EXCEPT ![n] = s]
    <3>1. \A k \in Managers : fresh'[k] => k = n
      BY <2>2
    <3>2. crd'.term = cluster[n].term /\ cluster'[n].term = cluster[n].term
      BY <1>2, <1>3, <2>2
    <3>3. crd'.term <= cluster'[n].term /\ crd'.term <= currentTerm'[n]
      BY <1>1, <1>3, <3>2
    <3> QED
      BY <3>1, <3>3 DEF FreshInv
  <2> QED
    BY <1>4, <2>1, <2>2
<1>12. crd'.term < crd.term => \E k \in Managers : restarts[k] > 0
  BY <1>0, <1>2, <1>3, <1>4 DEF FreshInv
<1> QED
  BY <1>5, <1>6, <1>9, <1>10, <1>11, <1>12 DEF MonitorInv

----------------------------------------------------------------------------
(* The inductive invariant.                                                *)

(* Nothing is on its way at the start.                                     *)
LEMMA MonitorInitInv == MonitorInit => MonitorInv
<1> SUFFICES ASSUME MonitorInit PROVE MonitorInv
  OBVIOUS
<1>1. ManagerPart /\ TypeOK
  BY IndInit DEF MonitorInit, IndInv, ManagerPart
<1>2. MonitorTypeOK
  BY <1>1 DEF MonitorInit, MonitorTypeOK
<1>3. CopyBacked /\ SyncInv /\ EncodedInv /\ FreshInv
  BY DEF MonitorInit, Init, CopyBacked, SyncInv, EncodedInv, FreshInv, NoStatus
<1> QED
  BY <1>1, <1>2, <1>3 DEF MonitorInv

(* Every step of manager and monitor preserves it.                         *)
LEMMA MonitorStep == MonitorInv /\ [MonitorNext]_allVars => MonitorInv'
<1> SUFFICES ASSUME MonitorInv, [MonitorNext]_allVars PROVE MonitorInv'
  OBVIOUS
<1>1. ASSUME NEW n \in Managers, MonitorRestart(n)
      PROVE  MonitorInv'
  <2>1. Next
    BY <1>1 DEF MonitorRestart, Next
  <2> QED
    BY <1>1, <2>1, ManagerInMonitorStep
<1> QED
  BY <1>1, MonitorStepKinds, ManagerInMonitorStep, SyncLocalStep,
     SyncEncodeStep, SyncPublishStep

(* MonitorInv holds of every process, with every interleaving of the two   *)
(* goroutines that write the status.                                       *)
THEOREM MonitorInvariance == MonitorSpec => []MonitorInv
<1> QED
  BY MonitorInitInv, MonitorStep, PTL DEF MonitorSpec

(* The types hold with the monitor's writes too.                           *)
THEOREM MonitorTypes == MonitorSpec => []MonitorTypeOK
<1>1. MonitorInv => MonitorTypeOK
  BY DEF MonitorInv
<1> QED
  BY <1>1, MonitorInvariance, PTL

(* A torn status never pairs a leader with a term it did not lead in with  *)
(* the majority behind it.                                                 *)
THEOREM StoredStatusIsBacked == MonitorSpec => []StoredLeaderBacked
<1>1. MonitorInv => StoredLeaderBacked
  BY DEF MonitorInv, ManagerPart, BackedInv, AnnouncedLeadersBacked,
         StoredLeaderBacked
<1> QED
  BY <1>1, MonitorInvariance, PTL

(* The API server's resourceVersion keeps the stored term from going back  *)
(* until a process restarts.                                               *)
THEOREM StoredTermGrows == MonitorSpec => StoredTermMonotone
<1>1. MonitorInv /\ [MonitorNext]_allVars =>
          (crd'.term < crd.term => \E n \in Managers : restarts[n] > 0)
  <2> SUFFICES ASSUME MonitorInv, [MonitorNext]_allVars, crd'.term < crd.term
               PROVE  \E n \in Managers : restarts[n] > 0
    OBVIOUS
  <2>0. TypeOK /\ FreshInv
    BY DEF MonitorInv, ManagerPart
  <2>t. crd.term \in Int /\ \A n \in Managers : restarts[n] \in Nat
    <3>1. crd \in StatusType /\ \A n \in Managers : restarts[n] \in 0..MaxRestarts
      BY <2>0 DEF TypeOK
    <3> QED
      BY <3>1, ConstantsAssumption DEF StatusType
  <2>1. crd' # crd
    BY <2>t
  <2>2. ASSUME [Next]_vars
        PROVE  \E n \in Managers : restarts[n] > 0
    <3>1. PICK n \in Managers : Publishes(n)
      BY <2>0, <2>1, <2>2, StatusSource
    <3>2. fresh[n] /\ crd'.term = currentTerm[n]
      BY <3>1 DEF Publishes, LeaderStatus
    <3>3. currentTerm[n] \in Int
      BY <2>0, ConstantsAssumption DEF TypeOK
    <3> QED
      BY <2>0, <2>t, <3>2, <3>3 DEF FreshInv
  <2>3. ASSUME NEW n \in Managers, SyncLocal(n) \/ SyncEncode(n) \/ MonitorRestart(n)
        PROVE  FALSE
    BY <2>1, <2>3 DEF SyncLocal, SyncEncode, MonitorRestart, Restart, vars, statusVars
  <2> QED
    BY <2>2, <2>3, MonitorStepKinds, SyncPublishStep
<1> QED
  BY <1>1, MonitorInvariance, PTL DEF MonitorSpec, StoredTermMonotone

----------------------------------------------------------------------------
(* What the monitor does not take away from its manager.                   *)

(* The monitor's steps leave leadership, terms and restarts alone.         *)
LEMMA MonitorLeavesRole ==
    ASSUME [MonitorNext]_allVars
    PROVE  [Next]_vars \/ UNCHANGED <<roleVars, restarts, history>>
<1>1. ASSUME NEW n \in Managers, SyncLocal(n) \/ SyncEncode(n) \/ SyncPublish(n)
      PROVE  UNCHANGED <<roleVars, restarts, history>>
  BY <1>1 DEF SyncLocal, SyncEncode, SyncPublish, vars
<1>2. ASSUME NEW n \in Managers, MonitorRestart(n)
      PROVE  Next
  BY <1>2 DEF MonitorRestart, Next
<1> QED
  BY <1>1, <1>2, MonitorStepKinds

(* A manager whose monitor overwrites and republishes the shared status    *)
(* leads only with the majority of its messages behind it.                 *)
THEOREM MonitoredLeadersAreBacked == MonitorSpec => []LeadershipBacked
<1>1. MonitorInv => LeadershipBacked
  BY DEF MonitorInv, ManagerPart, BackedInv
<1> QED
  BY <1>1, MonitorInvariance, PTL

(* Beside its monitor, too, a manager leads a term once in one life of the *)
(* process: the count of a late goroutine and a status write never combine *)
(* into a second time.  A restart forgets the term, and it may be led      *)
(* again.                                                                  *)
THEOREM MonitoredLeadsOnce == MonitorSpec => LeadsTermOnce
<1> DEFINE Once == \A n \in Managers :
                       /\ state[n] # Leader /\ state'[n] = Leader
                       /\ lastLed[n].life = restarts[n]
                       => currentTerm'[n] > lastLed[n].term
<1>1. MonitorInit => LedInv
  BY IndInit DEF MonitorInit, IndInv
<1>2. MonitorInv /\ MonitorInv' /\ LedInv /\ [MonitorNext]_allVars => LedInv'
  <2> SUFFICES ASSUME MonitorInv, MonitorInv', LedInv, [MonitorNext]_allVars
               PROVE  LedInv'
    OBVIOUS
  <2>1. TypeOK /\ TypeOK'
    BY DEF MonitorInv, ManagerPart
  <2>2. CASE [Next]_vars
    BY <2>1, <2>2, LedStep
  <2>3. CASE UNCHANGED <<roleVars, restarts, history>>
    BY <2>3 DEF LedInv, LedOf, roleVars, history
  <2> QED
    BY <2>2, <2>3, MonitorLeavesRole
<1>3. MonitorInv /\ LedInv /\ [MonitorNext]_allVars => Once
  <2> SUFFICES ASSUME MonitorInv, LedInv, [MonitorNext]_allVars,
                      NEW n \in Managers, state[n] # Leader, state'[n] = Leader,
                      lastLed[n].life = restarts[n]
               PROVE  currentTerm'[n] > lastLed[n].term
    OBVIOUS
  <2>1. TypeOK
    BY DEF MonitorInv, ManagerPart
  <2>2. [Next]_vars
    BY MonitorLeavesRole DEF roleVars
  <2>3. state[n] = Candidate /\ currentTerm' = currentTerm
    BY <2>1, <2>2, LeaderSource, WonBecomes
  <2>4. currentTerm[n] \in Int /\ lastLed[n].term \in Int
    BY <2>1, ConstantsAssumption DEF TypeOK, LedType
  <2>5. lastLed[n].term < currentTerm[n]
    BY <2>3 DEF LedInv, LedOf
  <2> QED
    BY <2>3, <2>4, <2>5
<1>4. MonitorSpec => []LedInv
  BY <1>1, <1>2, MonitorInvariance, PTL DEF MonitorSpec
<1> QED
  BY <1>3, <1>4, MonitorInvariance, PTL DEF MonitorSpec, LeadsTermOnce

(* With no reader of the messages the reconciler still sees LeaderView     *)
(* when it reads the manager beside a running monitor: a leader leads      *)
(* until its process ends.                                                 *)
THEOREM MonitoredRefinesLeaderView ==
    ASSUME Dispatch = FALSE
    PROVE  MonitorSpec => View!Spec
<1>1. MonitorInit => View!Init
  BY DEF MonitorInit, Init, View!Init, Follower, Leader
<1>2. MonitorInv /\ [MonitorNext]_allVars => [View!Next]_(View!view)
  <2> SUFFICES ASSUME MonitorInv, [MonitorNext]_allVars
               PROVE  [View!Next]_(View!view)
    OBVIOUS
  <2>1. CASE [Next]_vars
    BY <2>1, ViewStep DEF MonitorInv, ManagerPart
  <2>2. CASE UNCHANGED <<roleVars, restarts, history>>
    BY <2>2 DEF View!view, roleVars
  <2> QED
    BY <2>1, <2>2, MonitorLeavesRole
<1> QED
  BY <1>1, <1>2, MonitorInvariance, PTL DEF MonitorSpec, View!Spec

============================================================================
