------------------------- MODULE RaftManagerProofs -------------------------
(***************************************************************************)
(* Theorems about RaftManager, for every set of managers and members, with *)
(* or without a reader of the messages, and for every value of the bounds. *)
(*                                                                         *)
(* IndInv is the inductive invariant.  Its parts lean on each other: the   *)
(* types on IndexInv and GoroutineInv, BackedInv on GoroutineInv, and      *)
(* PublisherInv on LedInv.                                                 *)
(***************************************************************************)
EXTENDS RaftManager, FiniteSetTheorems, TLAPS

(* Whoever may send a heartbeat has set nextIndex.                         *)
IndexInv ==
    \A n \in Managers, p \in Members :
        pending[n][p] > 0 \/ (state[n] = Leader /\ p \in Peers(n))
            => nextIndex[n][p] >= 1

(* The goroutines of an election exist only once its term was reached,     *)
(* each peer has one, and one that got past sendVoteRequest has left a     *)
(* message.                                                                *)
Election(n, e) ==
    /\ e > currentTerm[n] =>
          unsent[n][e] = {} /\ posted[n][e] = {} /\ counted[n][e] = {}
    /\ unsent[n][e] \subseteq Peers(n)
    /\ unsent[n][e] \cap (posted[n][e] \cup counted[n][e]) = {}
    /\ posted[n][e] \cap counted[n][e] = {}
    /\ posted[n][e] \cup counted[n][e] \subseteq Asked(n, currentTerm[n])

GoroutineInv == \A n \in Managers, e \in Elections : Election(n, e)

(* Leaders, what they announced, and the goroutines that will announce     *)
(* them are backed.                                                        *)
BackedInv ==
    /\ LeadershipBacked
    /\ AnnouncedLeadersBacked
    /\ \A n \in Managers, p \in Members :
           pending[n][p] > 0 => Backed(n, currentTerm[n])

(* In the present life of the process leadership was last assumed in the   *)
(* current term or before it, and a candidate has not led its term yet.    *)
LedOf(n) ==
    /\ lastLed[n].life <= restarts[n]
    /\ lastLed[n].life = restarts[n] =>
          /\ lastLed[n].term <= currentTerm[n]
          /\ state[n] = Candidate => lastLed[n].term < currentTerm[n]

LedInv == \A n \in Managers : LedOf(n)

(* The last vote of the present life is of the current term or an earlier  *)
(* one; if of the current one and not cleared it is the one in votedFor.   *)
VoteOf(n) ==
    /\ lastVote[n].life <= restarts[n]
    /\ lastVote[n].term = 0 <=> lastVote[n].candidate = None
    /\ lastVote[n].life = restarts[n] =>
          /\ lastVote[n].term <= currentTerm[n]
          /\ lastVote[n].term = currentTerm[n] /\ ~lastVote[n].cleared
                => votedFor[n] = lastVote[n].candidate

VoteInv == \A n \in Managers : VoteOf(n)

(* While no process has restarted, the stored status was published by the  *)
(* only manager whose copy can be up to date.                              *)
PublisherInv ==
    (\A n \in Managers : restarts[n] = 0) /\ crd.leader # None =>
        /\ crd.term <= lastLed[crd.leader].term
        /\ \A n \in Managers : fresh[n] => n = crd.leader

IndInv ==
    /\ TypeOK
    /\ IndexInv
    /\ GoroutineInv
    /\ CandidateHoldsOwnVote
    /\ BackedInv
    /\ LedInv
    /\ VoteInv
    /\ PublisherInv

----------------------------------------------------------------------------
(* Messages and logs.                                                      *)

(* The last entry's term and the term before nextIndex are terms.          *)
LEMMA LogTermType ==
    ASSUME TypeOK, NEW n \in Managers
    PROVE  /\ Len(log[n]) \in Nat
           /\ LastLogTerm(n) \in Nat
           /\ \A i \in Int : PrevLogTerm(n, i) \in Nat
<1>1. log[n] \in Seq(Nat)
  BY DEF TypeOK
<1>2. \A i \in 1..Len(log[n]) : log[n][i] \in Nat
  BY <1>1
<1> QED
  BY <1>1, <1>2 DEF LastLogTerm, PrevLogTerm

(* What is put into the mailbox has the type of a message.                 *)
LEMMA MessageType ==
    ASSUME TypeOK, NEW n \in Managers, NEW p \in Members
    PROVE  /\ currentTerm[n] >= 1 => VoteRequest(n, p) \in VoteRequestType
           /\ nextIndex[n][p] >= 1 => AppendEntries(n, p) \in AppendEntriesType
<1>1. /\ currentTerm[n] \in 0..MaxTerm
      /\ nextIndex[n][p] \in Nat
      /\ commitIndex[n] \in Nat
      /\ MaxTerm \in Nat
  BY ConstantsAssumption DEF TypeOK
<1>2. ASSUME currentTerm[n] >= 1
      PROVE  VoteRequest(n, p) \in VoteRequestType
  <2>1. Len(log[n]) \in Nat /\ LastLogTerm(n) \in Nat
    BY LogTermType
  <2>2. currentTerm[n] \in 1..MaxTerm
    BY <1>1, <1>2
  <2> QED
    BY <2>1, <2>2 DEF VoteRequest, VoteRequestType
<1>3. ASSUME nextIndex[n][p] >= 1
      PROVE  AppendEntries(n, p) \in AppendEntriesType
  <2>1. nextIndex[n][p] - 1 \in Nat
    BY <1>1, <1>3
  <2>2. PrevLogTerm(n, nextIndex[n][p] - 1) \in Nat
    BY <2>1, LogTermType
  <2> QED
    BY <1>1, <2>1, <2>2 DEF AppendEntries, AppendEntriesType
<1> QED
  BY <1>2, <1>3

(* What the handlers read from a message.                                  *)
LEMMA MailboxType ==
    ASSUME TypeOK, NEW m \in mailbox
    PROVE  /\ m.from \in Managers /\ m.to \in Members
           /\ m.term \in 0..MaxTerm
           /\ m.type = "vote_request" => m \in VoteRequestType
           /\ m.type = "append_entries" => m \in AppendEntriesType
<1>1. m \in VoteRequestType \/ m \in AppendEntriesType
  BY DEF TypeOK
<1>2. CASE m \in VoteRequestType
  BY <1>2 DEF VoteRequestType
<1>3. CASE m \in AppendEntriesType
  BY <1>3 DEF AppendEntriesType
<1> QED
  BY <1>1, <1>2, <1>3

(* An accepted append_entries leaves a log of terms and a commit index.    *)
LEMMA AppendType ==
    ASSUME TypeOK, NEW n \in Managers, NEW m \in mailbox,
           m.type = "append_entries", LogMatches(n, m), AppendToLog(n, m)
    PROVE  log' \in [Managers -> Seq(Nat)] /\ commitIndex' \in [Managers -> Nat]
<1>1. /\ m.prevLogIndex \in Nat /\ m.entriesCount \in Nat
      /\ m.leaderCommit \in Nat /\ m.term \in Nat
  BY MailboxType, ConstantsAssumption DEF AppendEntriesType
<1>2. log[n] \in Seq(Nat) /\ Len(log[n]) \in Nat
  BY DEF TypeOK
<1>3. m.prevLogIndex <= Len(log[n])
  BY <1>1, <1>2 DEF LogMatches
<1>4. SubSeq(log[n], 1, m.prevLogIndex) \in Seq(Nat)
  BY <1>1, <1>2, <1>3
<1>5. Entries(m) \in Seq(Nat)
  BY <1>1 DEF Entries
<1>6. SubSeq(log[n], 1, m.prevLogIndex) \o Entries(m) \in Seq(Nat)
  BY <1>4, <1>5
<1>7. log' \in [Managers -> Seq(Nat)]
  BY <1>2, <1>6 DEF TypeOK, AppendToLog
<1>8. Len(log'[n]) \in Nat
  BY <1>7
<1>9. commitIndex' \in [Managers -> Nat]
  BY <1>1, <1>8 DEF TypeOK, AppendToLog
<1> QED
  BY <1>7, <1>9

----------------------------------------------------------------------------
(* Types.                                                                  *)

(* A new manager has the right types.                                      *)
LEMMA TypeInit == Init => TypeOK
<1> SUFFICES ASSUME Init PROVE TypeOK
  OBVIOUS
<1>1. /\ NoVote \in VoteType /\ NeverLed \in LedType
      /\ NoStatus \in StatusType
      /\ Goroutines \in [Elections -> SUBSET Members]
  BY ConstantsAssumption
  DEF NoVote, VoteType, NeverLed, LedType, NoStatus, StatusType, Goroutines
<1> QED
  BY <1>1, ConstantsAssumption DEF Init, TypeOK, Follower, Candidate, Leader

(* becomeLeader with the status it publishes.                              *)
LEMMA BecomeLeaderType ==
    ASSUME TypeOK, NEW n \in Managers, BecomeLeader(n)
    PROVE  /\ state' \in [Managers -> {Follower, Candidate, Leader}]
           /\ nextIndex' \in [Managers -> [Members -> Nat]]
           /\ pending' \in [Managers -> [Members -> 0..MaxPending]]
           /\ cluster' \in [Managers -> StatusType]
           /\ crd' \in StatusType
           /\ fresh' \in [Managers -> BOOLEAN]
           /\ failures' \in 0..MaxFailures
           /\ lastLed' \in [Managers -> LedType]
<1>1. state' \in [Managers -> {Follower, Candidate, Leader}]
  BY DEF BecomeLeader, TypeOK
<1>2. nextIndex' \in [Managers -> [Members -> Nat]]
  BY LogTermType DEF BecomeLeader, FirstNextIndex, TypeOK
<1>3. pending' \in [Managers -> [Members -> 0..MaxPending]]
  BY ConstantsAssumption DEF BecomeLeader, SpawnHeartbeats, TypeOK
<1>4. LeaderStatus(n) \in StatusType
  BY ConstantsAssumption, FS_CardinalityType DEF LeaderStatus, StatusType, TypeOK
<1>5. cluster' \in [Managers -> StatusType] /\ crd' \in StatusType
  BY <1>4 DEF BecomeLeader, UpdateClusterStatus, StatusStored, StatusRefused, TypeOK
<1>6. fresh' \in [Managers -> BOOLEAN]
  BY DEF BecomeLeader, UpdateClusterStatus, StatusStored, StatusRefused, TypeOK
<1>7. failures' \in 0..MaxFailures
  BY ConstantsAssumption
  DEF BecomeLeader, UpdateClusterStatus, StatusStored, StatusRefused, TypeOK
<1>8. lastLed' \in [Managers -> LedType]
  <2>1. [life |-> restarts[n], term |-> currentTerm[n]] \in LedType
    BY DEF LedType, TypeOK
  <2> QED
    BY <2>1 DEF BecomeLeader, TypeOK
<1> QED
  BY <1>1, <1>2, <1>3, <1>5, <1>6, <1>7, <1>8

(* Every step keeps the types.                                             *)
LEMMA TypeStep ==
    ASSUME TypeOK, IndexInv, GoroutineInv, [Next]_vars
    PROVE  TypeOK'
<1> USE ConstantsAssumption
<1> DEFINE States == {Follower, Candidate, Leader}
<1>1. ASSUME NEW n \in Managers, HeartbeatExpires(n)
      PROVE  TypeOK'
  BY <1>1 DEF HeartbeatExpires, TypeOK, logVars, voteVars, statusVars, history
<1>2. ASSUME NEW n \in Managers, ElectionTimeout(n)
      PROVE  TypeOK'
  <2>1. /\ state' \in [Managers -> States] /\ recent' \in [Managers -> BOOLEAN]
        /\ votedFor' \in [Managers -> Managers \cup {None}]
    BY <1>2 DEF ElectionTimeout, StartElection, TypeOK
  <2>2. currentTerm[n] + 1 \in Elections
    BY <1>2 DEF ElectionTimeout, Elections, TypeOK
  <2>3. currentTerm' \in [Managers -> 0..MaxTerm]
    BY <1>2, <2>2 DEF ElectionTimeout, StartElection, TypeOK, Elections
  <2>4. unsent' \in [Managers -> [Elections -> SUBSET Members]]
    BY <1>2, <2>2 DEF ElectionTimeout, StartElection, TypeOK, Peers
  <2>5. lastVote' \in [Managers -> VoteType]
    <3>0. restarts[n] \in 0..MaxRestarts
      BY DEF TypeOK
    <3>1. [life |-> restarts[n], term |-> currentTerm[n] + 1, candidate |-> n,
           cleared |-> FALSE] \in VoteType
      BY <2>2, <3>0 DEF VoteType, Elections
    <3> QED
      BY <1>2, <3>1 DEF ElectionTimeout, StartElection, TypeOK
  <2> QED
    BY <1>2, <2>1, <2>3, <2>4, <2>5
    DEF ElectionTimeout, TypeOK, logVars, statusVars
<1>3. ASSUME NEW n \in Managers, NEW e \in Elections, NEW p \in Members,
             SendVoteRequest(n, e, p)
      PROVE  TypeOK'
  <2>1. currentTerm[n] >= 1
    <3>1. ~(e > currentTerm[n])
      BY <1>3 DEF SendVoteRequest, GoroutineInv, Election
    <3> QED
      BY <3>1 DEF TypeOK, Elections
  <2>2. VoteRequest(n, p) \in VoteRequestType
    BY <2>1, MessageType
  <2>3. mailbox' \subseteq VoteRequestType \cup AppendEntriesType
    BY <1>3, <2>2 DEF SendVoteRequest, Create, CreateFails, TypeOK
  <2>4. failures' \in 0..MaxFailures
    BY <1>3 DEF SendVoteRequest, Create, CreateFails, TypeOK
  <2>5. /\ unsent' \in [Managers -> [Elections -> SUBSET Members]]
        /\ posted' \in [Managers -> [Elections -> SUBSET Members]]
    <3>1. unsent' = [unsent EXCEPT ![n][e] = @ \ {p}]
      BY <1>3 DEF SendVoteRequest
    <3>2. posted' = posted \/ posted' = [posted EXCEPT ![n][e] = @ \cup {p}]
      BY <1>3 DEF SendVoteRequest
    <3>3. unsent' \in [Managers -> [Elections -> SUBSET Members]]
      BY <3>1 DEF TypeOK
    <3>4. posted[n] \in [Elections -> SUBSET Members]
      BY DEF TypeOK
    <3>5. [posted[n] EXCEPT ![e] = @ \cup {p}] \in [Elections -> SUBSET Members]
      BY <3>4
    <3>6. posted' \in [Managers -> [Elections -> SUBSET Members]]
      BY <3>2, <3>5 DEF TypeOK
    <3> QED
      BY <3>3, <3>6
  <2> QED
    BY <1>3, <2>3, <2>4, <2>5
    DEF SendVoteRequest, TypeOK, roleVars, logVars, statusVars, history
<1>4. ASSUME NEW n \in Managers, NEW e \in Elections, NEW p \in Members,
             CountVote(n, e, p)
      PROVE  TypeOK'
  <2>1. /\ posted' \in [Managers -> [Elections -> SUBSET Members]]
        /\ counted' \in [Managers -> [Elections -> SUBSET Members]]
    BY <1>4 DEF CountVote, TypeOK
  <2>2. CASE BecomeLeader(n)
    BY <1>4, <2>1, <2>2, BecomeLeaderType DEF CountVote, TypeOK, logVars
  <2>3. CASE ~WinsElection(n, e)
    BY <1>4, <2>1, <2>3 DEF CountVote, TypeOK, logVars, statusVars
  <2> QED
    BY <1>4, <2>2, <2>3 DEF CountVote
<1>5. ASSUME NEW n \in Managers, HeartbeatTick(n)
      PROVE  TypeOK'
  <2>1. pending' \in [Managers -> [Members -> 0..MaxPending]]
    BY <1>5 DEF HeartbeatTick, SpawnHeartbeats, TypeOK
  <2> QED
    BY <1>5, <2>1
    DEF HeartbeatTick, TypeOK, roleVars, logVars, voteVars, statusVars, history
<1>6. ASSUME NEW n \in Managers, NEW p \in Members, SendAppendEntries(n, p)
      PROVE  TypeOK'
  <2>1. AppendEntries(n, p) \in AppendEntriesType
    BY <1>6, MessageType DEF SendAppendEntries, IndexInv
  <2>2. mailbox' \subseteq VoteRequestType \cup AppendEntriesType
    BY <1>6, <2>1 DEF SendAppendEntries, Create, CreateFails, TypeOK
  <2>3. failures' \in 0..MaxFailures
    BY <1>6 DEF SendAppendEntries, Create, CreateFails, TypeOK
  <2>4. pending' \in [Managers -> [Members -> 0..MaxPending]]
    BY <1>6 DEF SendAppendEntries, TypeOK
  <2> QED
    BY <1>6, <2>2, <2>3, <2>4
    DEF SendAppendEntries, TypeOK, roleVars, logVars, voteVars, statusVars,
        history
<1>7. ASSUME NEW n \in Managers, NEW m \in mailbox, HandleVoteRequest(n, m)
      PROVE  TypeOK'
  <2>1. m.from \in Managers /\ m.term \in 0..MaxTerm
    BY MailboxType
  <2>2. /\ state' \in [Managers -> States]
        /\ votedFor' \in [Managers -> Managers \cup {None}]
        /\ currentTerm' \in [Managers -> 0..MaxTerm]
    BY <1>7, <2>1 DEF HandleVoteRequest, TypeOK
  <2>3. recent' \in [Managers -> BOOLEAN]
    BY <1>7, Zenon DEF HandleVoteRequest, TypeOK, VoteAvailable, LogUpToDate
  <2>4. lastVote' \in [Managers -> VoteType]
    <3>0. restarts[n] \in 0..MaxRestarts
      BY DEF TypeOK
    <3>1. [life |-> restarts[n], term |-> m.term, candidate |-> m.from,
           cleared |-> FALSE] \in VoteType
      BY <2>1, <3>0 DEF VoteType
    <3> QED
      BY <1>7, <3>1 DEF HandleVoteRequest, TypeOK
  <2> QED
    BY <1>7, <2>2, <2>3, <2>4
    DEF HandleVoteRequest, TypeOK, logVars, voteVars, statusVars
<1>8. ASSUME NEW n \in Managers, NEW m \in mailbox, HandleAppendEntries(n, m)
      PROVE  TypeOK'
  <2>1. m.term \in 0..MaxTerm
    BY MailboxType
  <2>2. /\ state' \in [Managers -> States]
        /\ votedFor' \in [Managers -> Managers \cup {None}]
        /\ currentTerm' \in [Managers -> 0..MaxTerm]
        /\ recent' \in [Managers -> BOOLEAN]
    BY <1>8, <2>1 DEF HandleAppendEntries, TypeOK
  <2>3. lastVote' \in [Managers -> VoteType]
    <3>1. /\ lastVote[n].life \in 0..MaxRestarts
          /\ lastVote[n].term \in 0..MaxTerm
          /\ lastVote[n].candidate \in Managers \cup {None}
      BY DEF TypeOK, VoteType
    <3>2. [life |-> lastVote[n].life, term |-> lastVote[n].term,
           candidate |-> lastVote[n].candidate, cleared |-> TRUE] \in VoteType
      BY <3>1 DEF VoteType
    <3> QED
      BY <1>8, <3>2 DEF HandleAppendEntries, TypeOK
  <2>4. log' \in [Managers -> Seq(Nat)] /\ commitIndex' \in [Managers -> Nat]
    BY <1>8, AppendType DEF HandleAppendEntries, TypeOK, logVars
  <2> QED
    BY <1>8, <2>2, <2>3, <2>4
    DEF HandleAppendEntries, TypeOK, voteVars, statusVars
<1>9. ASSUME NEW n \in Managers, ForceElection(n)
      PROVE  TypeOK'
  BY <1>9 DEF ForceElection, TypeOK, logVars, voteVars, statusVars, history
<1>10. ASSUME NEW n \in Managers, Restart(n)
       PROVE  TypeOK'
  <2>1. /\ Goroutines \in [Elections -> SUBSET Members]
        /\ <<>> \in Seq(Nat) /\ [p \in Members |-> 0] \in [Members -> Nat]
        /\ [p \in Members |-> 0] \in [Members -> 0..MaxPending]
    BY DEF Goroutines
  <2>2. /\ state' \in [Managers -> States]
        /\ currentTerm' \in [Managers -> 0..MaxTerm]
        /\ votedFor' \in [Managers -> Managers \cup {None}]
        /\ recent' \in [Managers -> BOOLEAN]
        /\ fresh' \in [Managers -> BOOLEAN]
        /\ restarts' \in [Managers -> 0..MaxRestarts]
    BY <1>10 DEF Restart, TypeOK
  <2>3. /\ log' \in [Managers -> Seq(Nat)]
        /\ commitIndex' \in [Managers -> Nat]
        /\ nextIndex' \in [Managers -> [Members -> Nat]]
        /\ pending' \in [Managers -> [Members -> 0..MaxPending]]
    BY <1>10, <2>1 DEF Restart, TypeOK
  <2>4. /\ unsent' \in [Managers -> [Elections -> SUBSET Members]]
        /\ posted' \in [Managers -> [Elections -> SUBSET Members]]
        /\ counted' \in [Managers -> [Elections -> SUBSET Members]]
    BY <1>10, <2>1 DEF Restart, TypeOK
  <2>5. /\ cluster' \in [Managers -> StatusType]
        /\ lastVote' \in [Managers -> VoteType]
        /\ lastLed' \in [Managers -> LedType]
    BY <1>10 DEF Restart, TypeOK, history
  <2> QED
    BY <1>10, <2>2, <2>3, <2>4, <2>5 DEF Restart, TypeOK
<1>11. CASE ClusterEdited
  BY <1>11
  DEF ClusterEdited, TypeOK, roleVars, logVars, voteVars, history
<1>12. CASE UNCHANGED vars
  BY <1>12
  DEF vars, TypeOK, roleVars, logVars, voteVars, statusVars, history
<1> QED
  BY <1>1, <1>2, <1>3, <1>4, <1>5, <1>6, <1>7, <1>8, <1>9, <1>10, <1>11, <1>12
  DEF Next, RunningStep

----------------------------------------------------------------------------
(* Who has been asked for a vote.                                          *)

(* Messages stay and terms only grow within a life of the process, so what *)
(* was asked up to a term stays asked.                                     *)
LEMMA AskedGrows ==
    ASSUME TypeOK, TypeOK', mailbox \subseteq mailbox', NEW n \in Managers,
           currentTerm[n] <= currentTerm'[n]
    PROVE  Asked(n, currentTerm[n]) \subseteq Asked(n, currentTerm[n])'
<1> SUFFICES ASSUME NEW p \in Asked(n, currentTerm[n])
             PROVE  p \in Asked(n, currentTerm[n])'
  OBVIOUS
<1>1. PICK m \in mailbox : /\ m.type = "vote_request" /\ m.from = n
                           /\ m.to = p /\ m.term <= currentTerm[n]
  BY DEF Asked
<1>2. m \in mailbox' /\ m.term \in Int
  BY <1>1, MailboxType
<1>3. m.term <= currentTerm'[n]
  BY <1>1, <1>2, ConstantsAssumption DEF TypeOK
<1> QED
  BY <1>1, <1>2, <1>3 DEF Asked, Peers

(* A larger set of peers has at least the cardinality of a smaller one.    *)
LEMMA PeerSets ==
    ASSUME NEW n, NEW A, NEW B, A \subseteq B, B \subseteq Peers(n)
    PROVE  /\ IsFiniteSet(A) /\ IsFiniteSet(B)
           /\ Cardinality(A) \in Nat /\ Cardinality(B) \in Nat
           /\ Cardinality(A) <= Cardinality(B)
           /\ Majority \in Int
<1>1. IsFiniteSet(B)
  BY ConstantsAssumption, FS_Subset DEF Peers
<1>2. IsFiniteSet(A) /\ Cardinality(A) <= Cardinality(B)
  BY <1>1, FS_Subset
<1>3. Majority \in Int
  BY ConstantsAssumption, FS_CardinalityType DEF Majority
<1> QED
  BY <1>1, <1>2, <1>3, FS_CardinalityType

(* Asking more peers keeps a majority.                                     *)
LEMMA BackedByMore ==
    ASSUME NEW n, NEW A, NEW B, A \subseteq B, B \subseteq Peers(n),
           A # {}, 1 + Cardinality(A) >= Majority
    PROVE  B # {} /\ 1 + Cardinality(B) >= Majority
BY PeerSets

(* Backing is never lost while the term does not go back.                  *)
LEMMA BackedStays ==
    ASSUME TypeOK, TypeOK', mailbox \subseteq mailbox', NEW n \in Managers,
           currentTerm[n] <= currentTerm'[n], Backed(n, currentTerm[n])
    PROVE  Backed(n, currentTerm[n])'
<1>1. Asked(n, currentTerm[n]) \subseteq Asked(n, currentTerm[n])'
  BY AskedGrows
<1>2. Asked(n, currentTerm[n])' \subseteq Peers(n)
  BY DEF Asked, Peers
<1>3. /\ Asked(n, currentTerm[n])' # {}
      /\ 1 + Cardinality(Asked(n, currentTerm[n])') >= Majority
  BY <1>1, <1>2, BackedByMore DEF Backed
<1> QED
  BY <1>3 DEF Backed, Majority

(* Nor is the backing of a term that was announced.                        *)
LEMMA BackedAnnouncement ==
    ASSUME mailbox \subseteq mailbox', NEW n, NEW t, Backed(n, t)
    PROVE  Backed(n, t)'
<1>1. Asked(n, t) \subseteq Asked(n, t)' /\ Asked(n, t)' \subseteq Peers(n)
  BY DEF Asked, Peers
<1>2. Asked(n, t)' # {} /\ 1 + Cardinality(Asked(n, t)') >= Majority
  BY <1>1, BackedByMore DEF Backed
<1> QED
  BY <1>2 DEF Backed, Majority

----------------------------------------------------------------------------
(* How the steps move terms and messages.                                  *)

(* No step removes a message, and only a restart lowers a term.            *)
LEMMA TermsAndMessagesGrow ==
    ASSUME TypeOK, [Next]_vars
    PROVE  /\ mailbox \subseteq mailbox'
           /\ \A k \in Managers :
                 currentTerm[k] <= currentTerm'[k] \/ Restart(k)
<1> DEFINE Goal == /\ mailbox \subseteq mailbox'
                   /\ \A k \in Managers :
                         currentTerm[k] <= currentTerm'[k] \/ Restart(k)
<1>0. /\ \A k \in Managers : currentTerm[k] \in Nat
      /\ currentTerm \in [Managers -> 0..MaxTerm]
  BY ConstantsAssumption DEF TypeOK
<1>1. ASSUME NEW n \in Managers,
             HeartbeatExpires(n) \/ HeartbeatTick(n) \/ ForceElection(n)
      PROVE  Goal
  BY <1>0, <1>1 DEF HeartbeatExpires, HeartbeatTick, ForceElection, roleVars
<1>2. ASSUME NEW n \in Managers, ElectionTimeout(n)
      PROVE  Goal
  BY <1>0, <1>2 DEF ElectionTimeout, StartElection
<1>3. ASSUME NEW n \in Managers, NEW e \in Elections, NEW p \in Members,
             SendVoteRequest(n, e, p) \/ CountVote(n, e, p)
      PROVE  Goal
  BY <1>0, <1>3
  DEF SendVoteRequest, CountVote, Create, CreateFails, roleVars
<1>4. ASSUME NEW n \in Managers, NEW p \in Members, SendAppendEntries(n, p)
      PROVE  Goal
  BY <1>0, <1>4 DEF SendAppendEntries, Create, CreateFails, roleVars
<1>5. ASSUME NEW n \in Managers, NEW m \in mailbox,
             HandleVoteRequest(n, m) \/ HandleAppendEntries(n, m)
      PROVE  Goal
  <2>1. /\ mailbox' = mailbox
        /\ \/ currentTerm' = currentTerm
           \/ /\ m.term >= currentTerm[n]
              /\ currentTerm' = [currentTerm EXCEPT ![n] = m.term]
    BY <1>5 DEF HandleVoteRequest, HandleAppendEntries
  <2>2. m.term \in Int
    BY MailboxType
  <2> QED
    BY <1>0, <2>1, <2>2
<1>6. ASSUME NEW n \in Managers, Restart(n)
      PROVE  Goal
  <2>1. mailbox' = mailbox /\ currentTerm' = [currentTerm EXCEPT ![n] = 0]
    BY <1>6 DEF Restart
  <2> QED
    BY <1>0, <1>6, <2>1
<1>7. CASE ClusterEdited \/ UNCHANGED vars
  BY <1>0, <1>7 DEF ClusterEdited, vars, roleVars
<1> QED
  BY <1>1, <1>2, <1>3, <1>4, <1>5, <1>6, <1>7 DEF Next, RunningStep

----------------------------------------------------------------------------
(* The parts of the invariant, one lemma each.                             *)

(* nextIndex is set before the first heartbeat goroutine exists.           *)
LEMMA IndexStep ==
    ASSUME TypeOK, IndexInv, [Next]_vars
    PROVE  IndexInv'
<1> SUFFICES ASSUME NEW k \in Managers, NEW q \in Members,
                    pending'[k][q] > 0 \/ (state'[k] = Leader /\ q \in Peers(k))
             PROVE  nextIndex'[k][q] >= 1
  BY DEF IndexInv, Peers
<1>0. /\ pending[k][q] \in Nat /\ nextIndex[k][q] \in Nat
      /\ pending[k][q] > 0 \/ (state[k] = Leader /\ q \in Peers(k))
             => nextIndex[k][q] >= 1
      /\ state \in [Managers -> {Follower, Candidate, Leader}]
      /\ pending \in [Managers -> [Members -> 0..MaxPending]]
      /\ nextIndex \in [Managers -> [Members -> Nat]]
  BY ConstantsAssumption DEF TypeOK, IndexInv
<1>1. ASSUME NEW n \in Managers,
             HeartbeatExpires(n) \/ ElectionTimeout(n) \/ ForceElection(n)
      PROVE  nextIndex'[k][q] >= 1
  BY <1>0, <1>1
  DEF HeartbeatExpires, ElectionTimeout, StartElection, ForceElection,
      Follower, Candidate, Leader
<1>2. ASSUME NEW n \in Managers, NEW e \in Elections, NEW p \in Members,
             SendVoteRequest(n, e, p)
      PROVE  nextIndex'[k][q] >= 1
  BY <1>0, <1>2 DEF SendVoteRequest, roleVars
<1>3. ASSUME NEW n \in Managers, NEW e \in Elections, NEW p \in Members,
             CountVote(n, e, p)
      PROVE  nextIndex'[k][q] >= 1
  <2>1. CASE BecomeLeader(n)
    <3>1. CASE k # n
      BY <1>0, <2>1, <3>1 DEF BecomeLeader, SpawnHeartbeats
    <3>2. CASE k = n
      <4>1. Len(log[n]) \in Nat
        BY LogTermType
      <4>2. nextIndex'[n][q] = IF q \in Peers(n) THEN Len(log[n]) + 1
                                                ELSE nextIndex[n][q]
        BY <1>0, <2>1 DEF BecomeLeader, FirstNextIndex
      <4>3. q \notin Peers(n) => pending'[n][q] = pending[n][q]
        BY <1>0, <2>1 DEF BecomeLeader, SpawnHeartbeats
      <4>4. CASE q \in Peers(n)
        BY <3>2, <4>1, <4>2, <4>4
      <4>5. CASE q \notin Peers(n)
        BY <1>0, <3>2, <4>2, <4>3, <4>5
      <4> QED
        BY <4>4, <4>5
    <3> QED
      BY <3>1, <3>2
  <2>2. CASE ~WinsElection(n, e)
    BY <1>0, <1>3, <2>2 DEF CountVote
  <2> QED
    BY <1>3, <2>1, <2>2 DEF CountVote
<1>4. ASSUME NEW n \in Managers, HeartbeatTick(n)
      PROVE  nextIndex'[k][q] >= 1
  <2>1. state' = state /\ nextIndex' = nextIndex /\ state[n] = Leader
    BY <1>4 DEF HeartbeatTick, roleVars
  <2>2. \/ pending'[k][q] = pending[k][q]
        \/ k = n /\ q \in Peers(n)
    BY <1>0, <1>4 DEF HeartbeatTick, SpawnHeartbeats
  <2> QED
    BY <1>0, <2>1, <2>2
<1>5. ASSUME NEW n \in Managers, NEW p \in Members, SendAppendEntries(n, p)
      PROVE  nextIndex'[k][q] >= 1
  <2>1. /\ state' = state /\ nextIndex' = nextIndex
        /\ pending[n][p] > 0 /\ pending' = [pending EXCEPT ![n][p] = @ - 1]
    BY <1>5 DEF SendAppendEntries, roleVars
  <2>2. pending'[k][q] > 0 => pending[k][q] > 0
    BY <1>0, <2>1
  <2> QED
    BY <1>0, <2>1, <2>2
<1>6. ASSUME NEW n \in Managers, NEW m \in mailbox,
             HandleVoteRequest(n, m) \/ HandleAppendEntries(n, m)
      PROVE  nextIndex'[k][q] >= 1
  <2>1. /\ pending' = pending /\ nextIndex' = nextIndex
        /\ state' = state \/ state' = [state EXCEPT ![n] = Follower]
    BY <1>0, <1>6 DEF HandleVoteRequest, HandleAppendEntries
  <2> QED
    BY <1>0, <2>1 DEF Follower, Leader
<1>7. ASSUME NEW n \in Managers, Restart(n)
      PROVE  nextIndex'[k][q] >= 1
  <2>1. /\ state' = [state EXCEPT ![n] = Follower]
        /\ pending' = [pending EXCEPT ![n] = [p \in Members |-> 0]]
        /\ nextIndex' = [nextIndex EXCEPT ![n] = [p \in Members |-> 0]]
    BY <1>7 DEF Restart
  <2> QED
    BY <1>0, <2>1 DEF Follower, Leader
<1>8. CASE ClusterEdited \/ UNCHANGED vars
  BY <1>0, <1>8 DEF ClusterEdited, vars, roleVars
<1> QED
  BY <1>1, <1>2, <1>3, <1>4, <1>5, <1>6, <1>7, <1>8 DEF Next, RunningStep

(* Roles and votes change together.                                        *)
LEMMA RoleStep ==
    ASSUME TypeOK, CandidateHoldsOwnVote, [Next]_vars
    PROVE  CandidateHoldsOwnVote'
<1> SUFFICES ASSUME NEW k \in Managers, state'[k] # Follower
             PROVE  votedFor'[k] = k
  BY DEF CandidateHoldsOwnVote
<1>0. /\ state \in [Managers -> {Follower, Candidate, Leader}]
      /\ votedFor \in [Managers -> Managers \cup {None}]
      /\ currentTerm \in [Managers -> 0..MaxTerm]
      /\ state[k] # Follower => votedFor[k] = k
  BY DEF TypeOK, CandidateHoldsOwnVote
<1>1. ASSUME NEW n \in Managers, HeartbeatExpires(n) \/ HeartbeatTick(n)
      PROVE  votedFor'[k] = k
  BY <1>0, <1>1 DEF HeartbeatExpires, HeartbeatTick, roleVars
<1>2. ASSUME NEW n \in Managers, ElectionTimeout(n) \/ ForceElection(n)
      PROVE  votedFor'[k] = k
  BY <1>0, <1>2 DEF ElectionTimeout, StartElection, ForceElection
<1>3. ASSUME NEW n \in Managers, NEW e \in Elections, NEW p \in Members,
             SendVoteRequest(n, e, p)
      PROVE  votedFor'[k] = k
  BY <1>0, <1>3 DEF SendVoteRequest, roleVars
<1>4. ASSUME NEW n \in Managers, NEW e \in Elections, NEW p \in Members,
             CountVote(n, e, p)
      PROVE  votedFor'[k] = k
  <2>1. /\ votedFor' = votedFor
        /\ \/ state' = state
           \/ state' = [state EXCEPT ![n] = Leader] /\ state[n] = Candidate
    BY <1>4 DEF CountVote, WinsElection, BecomeLeader
  <2> QED
    BY <1>0, <2>1 DEF Follower, Candidate
<1>5. ASSUME NEW n \in Managers, NEW p \in Members, SendAppendEntries(n, p)
      PROVE  votedFor'[k] = k
  BY <1>0, <1>5 DEF SendAppendEntries, roleVars
<1>6. ASSUME NEW n \in Managers, NEW m \in mailbox, HandleVoteRequest(n, m)
      PROVE  votedFor'[k] = k
  <2>1. m.term \in Int /\ currentTerm[n] \in Int
    BY MailboxType, <1>0, ConstantsAssumption
  <2>2. CASE m.term > currentTerm[n]
    <3>1. state' = [state EXCEPT ![n] = Follower]
      BY <1>6, <2>2 DEF HandleVoteRequest
    <3>2. k # n => votedFor'[k] = votedFor[k]
      BY <1>0, <1>6 DEF HandleVoteRequest
    <3> QED
      BY <1>0, <3>1, <3>2
  <2>3. CASE ~(m.term > currentTerm[n])
    <3>1. state'[k] = state[k]
      BY <1>0, <1>6, <2>3 DEF HandleVoteRequest
    <3>2. k # n => votedFor'[k] = votedFor[k]
      BY <1>0, <1>6 DEF HandleVoteRequest
    <3>3. /\ k = n => votedFor[n] = n
          /\ votedFor'[n] = m.from => votedFor[n] \in {None, m.from}
                                      \/ votedFor[n] = m.from
          /\ votedFor'[n] \in {votedFor[n], m.from}
      BY <1>0, <1>6, <2>3, <3>1 DEF HandleVoteRequest, VoteAvailable
    <3> QED
      BY <1>0, <3>1, <3>2, <3>3, ConstantsAssumption
  <2> QED
    BY <2>2, <2>3
<1>7. ASSUME NEW n \in Managers, NEW m \in mailbox, HandleAppendEntries(n, m)
      PROVE  votedFor'[k] = k
  BY <1>0, <1>7 DEF HandleAppendEntries
<1>8. ASSUME NEW n \in Managers, Restart(n)
      PROVE  votedFor'[k] = k
  BY <1>0, <1>8 DEF Restart
<1>9. CASE ClusterEdited \/ UNCHANGED vars
  BY <1>0, <1>9 DEF ClusterEdited, vars, roleVars
<1> QED
  BY <1>1, <1>2, <1>3, <1>4, <1>5, <1>6, <1>7, <1>8, <1>9
  DEF Next, RunningStep

(* An election the step does not touch.                                    *)
LEMMA ElectionUndisturbed ==
    ASSUME TypeOK, TypeOK', mailbox \subseteq mailbox',
           NEW n \in Managers, NEW e \in Elections, Election(n, e),
           currentTerm[n] <= currentTerm'[n],
           unsent'[n][e] = unsent[n][e], posted'[n][e] = posted[n][e],
           counted'[n][e] = counted[n][e]
    PROVE  Election(n, e)'
<1>1. Asked(n, currentTerm[n]) \subseteq Asked(n, currentTerm[n])'
  BY AskedGrows
<1>2. e > currentTerm'[n] => e > currentTerm[n]
  BY ConstantsAssumption DEF TypeOK, Elections
<1> QED
  BY <1>1, <1>2 DEF Election, Peers

(* Every step keeps the order of the vote goroutines.                      *)
LEMMA GoroutineStep ==
    ASSUME TypeOK, TypeOK', GoroutineInv, [Next]_vars
    PROVE  GoroutineInv'
<1> SUFFICES ASSUME NEW k \in Managers, NEW f \in Elections
             PROVE  Election(k, f)'
  BY DEF GoroutineInv, Election, Asked, Peers
<1>0. Election(k, f)
  BY DEF GoroutineInv, Election
<1>t. /\ unsent \in [Managers -> [Elections -> SUBSET Members]]
      /\ posted \in [Managers -> [Elections -> SUBSET Members]]
      /\ counted \in [Managers -> [Elections -> SUBSET Members]]
      /\ currentTerm \in [Managers -> 0..MaxTerm]
      /\ currentTerm' \in [Managers -> 0..MaxTerm]
      /\ MaxTerm \in Nat /\ f \in Int
      /\ currentTerm[k] \in Int /\ currentTerm'[k] \in Int
  BY ConstantsAssumption DEF TypeOK, Elections
<1>m. mailbox \subseteq mailbox'
  BY TermsAndMessagesGrow
<1>1. ASSUME currentTerm[k] <= currentTerm'[k], UNCHANGED voteVars
      PROVE  Election(k, f)'
  BY <1>0, <1>1, <1>m, ElectionUndisturbed DEF voteVars
<1>2. ASSUME NEW n \in Managers, ElectionTimeout(n)
      PROVE  Election(k, f)'
  <2>1. /\ currentTerm' = [currentTerm EXCEPT ![n] = @ + 1]
        /\ unsent' = [unsent EXCEPT ![n][currentTerm[n] + 1] = Peers(n)]
        /\ posted' = posted /\ counted' = counted
    BY <1>2 DEF ElectionTimeout, StartElection
  <2>2. CASE k = n /\ f = currentTerm[n] + 1
    <3>1. posted'[k][f] = {} /\ counted'[k][f] = {}
      BY <1>0, <1>t, <2>1, <2>2 DEF Election
    <3>2. unsent'[k][f] = Peers(k)
      BY <1>t, <2>1, <2>2
    <3>3. ~(f > currentTerm'[k])
      BY <1>t, <2>1, <2>2
    <3> QED
      BY <3>1, <3>2, <3>3 DEF Election, Peers
  <2>3. CASE ~(k = n /\ f = currentTerm[n] + 1)
    <3>1. unsent'[k][f] = unsent[k][f]
      BY <1>t, <2>1, <2>3
    <3>2. currentTerm[k] <= currentTerm'[k]
      BY <1>t, <2>1
    <3> QED
      BY <1>0, <1>m, <2>1, <3>1, <3>2, ElectionUndisturbed
  <2> QED
    BY <2>2, <2>3
<1>3. ASSUME NEW n \in Managers, NEW e \in Elections, NEW p \in Members,
             SendVoteRequest(n, e, p)
      PROVE  Election(k, f)'
  <2>1. /\ currentTerm' = currentTerm /\ counted' = counted
        /\ p \in unsent[n][e]
        /\ unsent' = [unsent EXCEPT ![n][e] = @ \ {p}]
        /\ \/ /\ posted' = [posted EXCEPT ![n][e] = @ \cup {p}]
              /\ mailbox' = mailbox \cup {VoteRequest(n, p)}
           \/ posted' = posted
    BY <1>3 DEF SendVoteRequest, Create, CreateFails, roleVars
  <2>t. currentTerm[k] <= currentTerm'[k]
    BY <1>t, <2>1
  <2>2. Asked(k, currentTerm[k]) \subseteq Asked(k, currentTerm[k])'
    BY <1>m, <2>t, AskedGrows
  <2>3. CASE k = n /\ f = e
    <3>1. unsent'[k][f] = unsent[k][f] \ {p} /\ counted'[k][f] = counted[k][f]
      BY <1>t, <2>1, <2>3
    <3>2. \/ posted'[k][f] = posted[k][f]
          \/ /\ posted'[k][f] = posted[k][f] \cup {p}
             /\ VoteRequest(n, p) \in mailbox'
      BY <1>t, <2>1, <2>3
    <3>3. VoteRequest(n, p) \in mailbox' => p \in Asked(k, currentTerm[k])'
      <4>1. p \in Peers(k)
        BY <1>0, <2>1, <2>3 DEF Election
      <4>2. VoteRequest(n, p).term <= currentTerm'[k]
        BY <1>t, <2>1, <2>3 DEF VoteRequest
      <4> QED
        BY <2>3, <4>1, <4>2 DEF Asked, VoteRequest, Peers
    <3>4. ~(f > currentTerm'[k])
      BY <1>0, <2>1, <2>3 DEF Election
    <3>5. p \in unsent[k][f]
      BY <2>1, <2>3
    <3> QED
      BY <1>0, <2>2, <3>1, <3>2, <3>3, <3>4, <3>5 DEF Election, Peers
  <2>4. CASE ~(k = n /\ f = e)
    <3>1. unsent'[k][f] = unsent[k][f] /\ posted'[k][f] = posted[k][f]
      BY <1>t, <2>1, <2>4
    <3> QED
      BY <1>0, <1>m, <2>1, <2>t, <3>1, ElectionUndisturbed
  <2> QED
    BY <2>3, <2>4
<1>4. ASSUME NEW n \in Managers, NEW e \in Elections, NEW p \in Members,
             CountVote(n, e, p)
      PROVE  Election(k, f)'
  <2>1. /\ currentTerm' = currentTerm /\ unsent' = unsent
        /\ p \in posted[n][e]
        /\ posted' = [posted EXCEPT ![n][e] = @ \ {p}]
        /\ counted' = [counted EXCEPT ![n][e] = @ \cup {p}]
    BY <1>4 DEF CountVote
  <2>t. currentTerm[k] <= currentTerm'[k]
    BY <1>t, <2>1
  <2>2. Asked(k, currentTerm[k]) \subseteq Asked(k, currentTerm[k])'
    BY <1>m, <2>t, AskedGrows
  <2>3. CASE k = n /\ f = e
    <3>1. /\ posted'[k][f] = posted[k][f] \ {p}
          /\ counted'[k][f] = counted[k][f] \cup {p}
          /\ unsent'[k][f] = unsent[k][f]
          /\ p \in posted[k][f]
      BY <1>t, <2>1, <2>3
    <3>2. ~(f > currentTerm'[k])
      BY <1>0, <2>1, <2>3 DEF Election
    <3> QED
      BY <1>0, <2>2, <3>1, <3>2 DEF Election, Peers
  <2>4. CASE ~(k = n /\ f = e)
    <3>1. posted'[k][f] = posted[k][f] /\ counted'[k][f] = counted[k][f]
      BY <1>t, <2>1, <2>4
    <3> QED
      BY <1>0, <1>m, <2>1, <2>t, <3>1, ElectionUndisturbed
  <2> QED
    BY <2>3, <2>4
<1>5. ASSUME NEW n \in Managers, Restart(n)
      PROVE  Election(k, f)'
  <2>1. /\ unsent' = [unsent EXCEPT ![n] = Goroutines]
        /\ posted' = [posted EXCEPT ![n] = Goroutines]
        /\ counted' = [counted EXCEPT ![n] = Goroutines]
        /\ currentTerm' = [currentTerm EXCEPT ![n] = 0]
    BY <1>5 DEF Restart
  <2>2. CASE k = n
    BY <1>t, <2>1, <2>2 DEF Election, Goroutines
  <2>3. CASE k # n
    BY <1>0, <1>m, <1>t, <2>1, <2>3, ElectionUndisturbed
  <2> QED
    BY <2>2, <2>3
<1>6. ASSUME NEW n \in Managers,
             HeartbeatExpires(n) \/ HeartbeatTick(n) \/ ForceElection(n)
      PROVE  Election(k, f)'
  BY <1>1, <1>6, <1>t
  DEF HeartbeatExpires, HeartbeatTick, ForceElection, roleVars
<1>7. ASSUME NEW n \in Managers, NEW p \in Members, SendAppendEntries(n, p)
      PROVE  Election(k, f)'
  BY <1>1, <1>7, <1>t DEF SendAppendEntries, roleVars
<1>8. ASSUME NEW n \in Managers, NEW m \in mailbox,
             HandleVoteRequest(n, m) \/ HandleAppendEntries(n, m)
      PROVE  Election(k, f)'
  <2>1. /\ UNCHANGED voteVars
        /\ \/ currentTerm' = currentTerm
           \/ /\ m.term >= currentTerm[n]
              /\ currentTerm' = [currentTerm EXCEPT ![n] = m.term]
    BY <1>8 DEF HandleVoteRequest, HandleAppendEntries
  <2>2. m.term \in Int
    BY MailboxType
  <2> QED
    BY <1>1, <1>t, <2>1, <2>2
<1>9. CASE ClusterEdited \/ UNCHANGED vars
  BY <1>1, <1>9, <1>t DEF ClusterEdited, vars, roleVars
<1> QED
  BY <1>2, <1>3, <1>4, <1>5, <1>6, <1>7, <1>8, <1>9 DEF Next, RunningStep

----------------------------------------------------------------------------
(* Where leadership, heartbeats and the stored status come from.           *)

(* The step counts the vote that makes n the leader.                       *)
Won(n) == \E e \in Elections, p \in Members :
              CountVote(n, e, p) /\ WinsElection(n, e)

(* Winning is becoming the leader out of candidacy.                        *)
LEMMA WonBecomes ==
    ASSUME NEW n \in Managers, Won(n)
    PROVE  /\ BecomeLeader(n) /\ state[n] = Candidate
           /\ UNCHANGED <<currentTerm, mailbox, restarts>>
BY DEF Won, CountVote, WinsElection

(* The winner of an election has asked a majority.                         *)
LEMMA WinnerBacked ==
    ASSUME TypeOK, GoroutineInv, NEW n \in Managers, Won(n)
    PROVE  Backed(n, currentTerm[n])
<1>1. PICK e \in Elections, p \in Members :
          p \in posted[n][e] /\ WinsElection(n, e)
  BY DEF Won, CountVote
<1> DEFINE A == Asked(n, currentTerm[n])
<1>2. /\ counted[n][e] \cup {p} \subseteq A /\ A \subseteq Peers(n)
      /\ p \notin counted[n][e]
  BY <1>1 DEF GoroutineInv, Election, Asked
<1>3. /\ IsFiniteSet(counted[n][e]) /\ Cardinality(counted[n][e]) \in Nat
      /\ Cardinality(counted[n][e] \cup {p}) <= Cardinality(A)
      /\ Cardinality(A) \in Nat /\ Majority \in Int
  BY <1>2, PeerSets
<1>4. Cardinality(counted[n][e] \cup {p}) = Cardinality(counted[n][e]) + 1
  BY <1>2, <1>3, FS_AddElement
<1>5. 1 + Cardinality(A) >= Majority
  BY <1>1, <1>3, <1>4 DEF WinsElection
<1> QED
  BY <1>2, <1>5 DEF Backed

(* A manager that leads, or has a heartbeat goroutine, did so before or    *)
(* has just won, and has not just restarted.                               *)
LEMMA LeadershipSource ==
    ASSUME TypeOK, [Next]_vars, NEW k \in Managers,
           \/ state'[k] = Leader
           \/ \E q \in Members : pending'[k][q] > 0
    PROVE  /\ currentTerm[k] <= currentTerm'[k]
           /\ \/ state[k] = Leader
              \/ \E q \in Members : pending[k][q] > 0
              \/ Won(k)
<1> DEFINE Before == \/ state[k] = Leader
                     \/ \E q \in Members : pending[k][q] > 0
                     \/ Won(k)
<1>0. /\ state \in [Managers -> {Follower, Candidate, Leader}]
      /\ pending \in [Managers -> [Members -> 0..MaxPending]]
      /\ \A q \in Members : pending[k][q] \in Nat
  BY ConstantsAssumption DEF TypeOK
<1>1. ASSUME NEW n \in Managers,
             HeartbeatExpires(n) \/ ElectionTimeout(n) \/ ForceElection(n)
      PROVE  Before
  BY <1>0, <1>1
  DEF HeartbeatExpires, ElectionTimeout, StartElection, ForceElection,
      Follower, Candidate, Leader
<1>2. ASSUME NEW n \in Managers, NEW e \in Elections, NEW p \in Members,
             SendVoteRequest(n, e, p)
      PROVE  Before
  BY <1>0, <1>2 DEF SendVoteRequest, roleVars
<1>3. ASSUME NEW n \in Managers, NEW e \in Elections, NEW p \in Members,
             CountVote(n, e, p)
      PROVE  Before
  <2>1. CASE WinsElection(n, e)
    <3>1. CASE k = n
      BY <1>3, <2>1, <3>1 DEF Won
    <3>2. CASE k # n
      <4>1. BecomeLeader(n)
        BY <1>3, <2>1 DEF CountVote
      <4>2. state'[k] = state[k] /\ pending'[k] = pending[k]
        BY <1>0, <3>2, <4>1 DEF BecomeLeader, SpawnHeartbeats
      <4> QED
        BY <4>2
    <3> QED
      BY <3>1, <3>2
  <2>2. CASE ~WinsElection(n, e)
    <3>1. state' = state /\ pending' = pending
      BY <1>3, <2>2 DEF CountVote
    <3> QED
      BY <3>1
  <2> QED
    BY <2>1, <2>2
<1>4. ASSUME NEW n \in Managers, HeartbeatTick(n)
      PROVE  Before
  <2>1. state' = state /\ state[n] = Leader
    BY <1>4 DEF HeartbeatTick, roleVars
  <2>2. k # n => pending'[k] = pending[k]
    BY <1>0, <1>4 DEF HeartbeatTick, SpawnHeartbeats
  <2> QED
    BY <2>1, <2>2
<1>5. ASSUME NEW n \in Managers, NEW p \in Members, SendAppendEntries(n, p)
      PROVE  Before
  <2>1. /\ state' = state /\ pending[n][p] > 0
        /\ pending' = [pending EXCEPT ![n][p] = @ - 1]
    BY <1>5 DEF SendAppendEntries, roleVars
  <2>2. \A q \in Members : pending'[k][q] > 0 => pending[k][q] > 0
    BY <1>0, <2>1
  <2> QED
    BY <2>1, <2>2
<1>6. ASSUME NEW n \in Managers, NEW m \in mailbox,
             HandleVoteRequest(n, m) \/ HandleAppendEntries(n, m)
      PROVE  Before
  <2>1. /\ pending' = pending
        /\ state' = state \/ state' = [state EXCEPT ![n] = Follower]
    BY <1>0, <1>6 DEF HandleVoteRequest, HandleAppendEntries
  <2> QED
    BY <1>0, <2>1 DEF Follower, Leader
<1>7. ASSUME NEW n \in Managers, Restart(n)
      PROVE  Before /\ k # n
  <2>1. /\ state' = [state EXCEPT ![n] = Follower]
        /\ pending' = [pending EXCEPT ![n] = [p \in Members |-> 0]]
    BY <1>7 DEF Restart
  <2>2. k # n
    BY <1>0, <2>1 DEF Follower, Leader
  <2> QED
    BY <1>0, <2>1, <2>2
<1>8. ASSUME ClusterEdited \/ UNCHANGED vars
      PROVE  Before
  <2>1. state' = state /\ pending' = pending
    BY <1>8 DEF ClusterEdited, vars, roleVars
  <2> QED
    BY <2>1
<1>9. Before
  BY <1>1, <1>2, <1>3, <1>4, <1>5, <1>6, <1>7, <1>8 DEF Next, RunningStep
<1>10. currentTerm[k] <= currentTerm'[k]
  BY <1>7, TermsAndMessagesGrow
<1> QED
  BY <1>9, <1>10

(* A new append_entries message comes from a heartbeat goroutine.          *)
LEMMA MessageSource ==
    ASSUME TypeOK, [Next]_vars, NEW m \in mailbox', m \notin mailbox,
           m.type = "append_entries"
    PROVE  \E n \in Managers, p \in Members :
               /\ pending[n][p] > 0 /\ m = AppendEntries(n, p)
               /\ m.from = n /\ m.term = currentTerm[n]
<1>1. ASSUME NEW n \in Managers, NEW e \in Elections, NEW p \in Members,
             SendVoteRequest(n, e, p)
      PROVE  FALSE
  BY <1>1 DEF SendVoteRequest, Create, CreateFails, VoteRequest
<1>2. ASSUME NEW n \in Managers, NEW p \in Members, SendAppendEntries(n, p)
      PROVE  /\ pending[n][p] > 0 /\ m = AppendEntries(n, p)
             /\ m.from = n /\ m.term = currentTerm[n]
  <2>1. pending[n][p] > 0 /\ m = AppendEntries(n, p)
    BY <1>2 DEF SendAppendEntries, Create, CreateFails
  <2>2. AppendEntries(n, p).from = n /\ AppendEntries(n, p).term = currentTerm[n]
    BY DEF AppendEntries
  <2> QED
    BY <2>1, <2>2
<1>3. \/ mailbox' = mailbox
      \/ \E n \in Managers, e \in Elections, p \in Members :
             SendVoteRequest(n, e, p)
      \/ \E n \in Managers, p \in Members : SendAppendEntries(n, p)
  BY DEF Next, RunningStep, HeartbeatExpires, ElectionTimeout, CountVote,
         HeartbeatTick, HandleVoteRequest, HandleAppendEntries, ForceElection,
         Restart, ClusterEdited, vars
<1> QED
  BY <1>1, <1>2, <1>3

(* The stored status, and who holds its version, change only when a        *)
(* winner's update is accepted or a process reads the resource anew.       *)
Publishes(n) ==
    /\ Won(n) /\ fresh[n]
    /\ crd' = LeaderStatus(n)
    /\ fresh' = [m \in Managers |-> m = n]

(* Who may change the stored status.                                       *)
LEMMA StatusSource ==
    ASSUME TypeOK, [Next]_vars
    PROVE  \/ crd' = crd /\ \A k \in Managers : fresh'[k] => fresh[k]
           \/ crd' = crd /\ \E n \in Managers : Restart(n)
           \/ \E n \in Managers : Publishes(n)
<1> DEFINE Goal == \/ crd' = crd /\ \A k \in Managers : fresh'[k] => fresh[k]
                   \/ crd' = crd /\ \E n \in Managers : Restart(n)
                   \/ \E n \in Managers : Publishes(n)
<1>1. ASSUME crd' = crd, fresh' = fresh
      PROVE  Goal
  BY <1>1
<1>2. ASSUME NEW n \in Managers, NEW e \in Elections, NEW p \in Members,
             CountVote(n, e, p)
      PROVE  Goal
  <2>1. CASE ~WinsElection(n, e)
    BY <1>1, <1>2, <2>1 DEF CountVote, statusVars
  <2>2. CASE WinsElection(n, e)
    <3>1. Won(n) /\ BecomeLeader(n)
      BY <1>2, <2>2 DEF Won, CountVote
    <3>2. CASE StatusStored(n, LeaderStatus(n))
      BY <3>1, <3>2 DEF StatusStored, Publishes
    <3>3. CASE StatusRefused(n)
      BY <1>1, <3>3 DEF StatusRefused
    <3> QED
      BY <3>1, <3>2, <3>3 DEF BecomeLeader, UpdateClusterStatus
  <2> QED
    BY <2>1, <2>2
<1>3. ASSUME NEW n \in Managers, Restart(n)
      PROVE  Goal
  <2>1. crd' = crd
    BY <1>3 DEF Restart
  <2> QED
    BY <1>3, <2>1
<1>4. CASE ClusterEdited
  BY <1>4 DEF ClusterEdited
<1>5. \/ crd' = crd /\ fresh' = fresh
      \/ \E n \in Managers, e \in Elections, p \in Members : CountVote(n, e, p)
      \/ \E n \in Managers : Restart(n)
      \/ ClusterEdited
  BY DEF Next, RunningStep, HeartbeatExpires, ElectionTimeout,
         SendVoteRequest, SendAppendEntries, HeartbeatTick, HandleVoteRequest,
         HandleAppendEntries, ForceElection, vars, statusVars
<1> QED
  BY <1>1, <1>2, <1>3, <1>4, <1>5

(* Every step keeps leaders and announcements backed.                      *)
LEMMA BackedStep ==
    ASSUME TypeOK, TypeOK', GoroutineInv, BackedInv, [Next]_vars
    PROVE  BackedInv'
<1>1. mailbox \subseteq mailbox'
  BY TermsAndMessagesGrow
<1>2. ASSUME NEW k \in Managers,
             \/ state'[k] = Leader
             \/ \E q \in Members : pending'[k][q] > 0
      PROVE  Backed(k, currentTerm[k])'
  <2>1. currentTerm[k] <= currentTerm'[k]
    BY <1>2, LeadershipSource
  <2>2. Backed(k, currentTerm[k])
    BY <1>2, LeadershipSource, WinnerBacked DEF BackedInv, LeadershipBacked
  <2> QED
    BY <1>1, <2>1, <2>2, BackedStays
<1>3. ASSUME NEW m \in mailbox', m.type = "append_entries"
      PROVE  Backed(m.from, m.term)'
  <2>1. Backed(m.from, m.term)
    BY <1>3, MessageSource DEF BackedInv, AnnouncedLeadersBacked
  <2> QED
    BY <1>1, <2>1, BackedAnnouncement
<1>4. ASSUME crd'.leader # None
      PROVE  Backed(crd.leader, crd.term)'
  <2>1. Backed(crd'.leader, crd'.term)
    <3>1. CASE crd' = crd
      BY <1>4, <3>1 DEF BackedInv, AnnouncedLeadersBacked
    <3>2. CASE crd' # crd
      BY <3>2, StatusSource, WinnerBacked DEF LeaderStatus, Publishes
    <3> QED
      BY <3>1, <3>2
  <2>2. \A n, t : Backed(n, t) => Backed(n, t)'
    BY <1>1, BackedAnnouncement
  <2> QED
    BY <2>1, <2>2 DEF Backed, Asked
<1> QED
  BY <1>2, <1>3, <1>4
  DEF BackedInv, LeadershipBacked, AnnouncedLeadersBacked

(* Assuming leadership is the only way to become the leader.               *)
LEMMA LeaderSource ==
    ASSUME TypeOK, [Next]_vars, NEW k \in Managers,
           state'[k] = Leader, state[k] # Leader
    PROVE  Won(k)
<1>0. state \in [Managers -> {Follower, Candidate, Leader}]
  BY DEF TypeOK
<1>1. \/ \E n \in Managers, e \in Elections, p \in Members : CountVote(n, e, p)
      \/ state' = state
      \/ \E n \in Managers :
             state' = [state EXCEPT ![n] = Follower]
             \/ state' = [state EXCEPT ![n] = Candidate]
  <2>1. ASSUME NEW n \in Managers, NEW m \in mailbox,
               HandleVoteRequest(n, m) \/ HandleAppendEntries(n, m)
        PROVE  state' = state \/ state' = [state EXCEPT ![n] = Follower]
    BY <1>0, <2>1 DEF HandleVoteRequest, HandleAppendEntries
  <2> QED
    BY <2>1 DEF Next, RunningStep, HeartbeatExpires, ElectionTimeout,
         StartElection, SendVoteRequest, SendAppendEntries, HeartbeatTick,
         ForceElection, Restart, ClusterEdited, vars, roleVars
<1>2. PICK n \in Managers, e \in Elections, p \in Members : CountVote(n, e, p)
  BY <1>0, <1>1 DEF Follower, Candidate, Leader
<1>3. WinsElection(n, e) /\ BecomeLeader(n)
  BY <1>2 DEF CountVote
<1>4. k = n
  BY <1>0, <1>3 DEF BecomeLeader
<1> QED
  BY <1>2, <1>3, <1>4 DEF Won

(* The last term led in this life never passes the current term.           *)
LEMMA LedStep ==
    ASSUME TypeOK, TypeOK', LedInv, [Next]_vars
    PROVE  LedInv'
<1> SUFFICES ASSUME NEW k \in Managers
             PROVE  LedOf(k)'
  BY DEF LedInv, LedOf
<1> DEFINE Goal == LedOf(k)'
<1>0. /\ state \in [Managers -> {Follower, Candidate, Leader}]
      /\ currentTerm \in [Managers -> 0..MaxTerm]
      /\ restarts \in [Managers -> 0..MaxRestarts]
      /\ lastLed \in [Managers -> LedType]
      /\ currentTerm[k] \in Nat /\ restarts[k] \in Nat
      /\ lastLed[k].term \in Nat /\ lastLed[k].life \in Nat
      /\ currentTerm'[k] \in Nat
  BY ConstantsAssumption DEF TypeOK, LedType
<1>l. LedOf(k)
  BY DEF LedInv, LedOf
<1>1. ASSUME lastLed' = lastLed, restarts' = restarts,
             currentTerm[k] <= currentTerm'[k],
             \/ state'[k] = state[k] \/ state'[k] = Follower
             \/ currentTerm[k] < currentTerm'[k]
      PROVE  Goal
  BY <1>0, <1>l, <1>1 DEF LedOf, Follower, Candidate
<1>2. ASSUME NEW n \in Managers, ElectionTimeout(n)
      PROVE  Goal
  <2>1. /\ lastLed' = lastLed /\ restarts' = restarts
        /\ currentTerm' = [currentTerm EXCEPT ![n] = @ + 1]
        /\ state' = [state EXCEPT ![n] = Candidate]
    BY <1>2 DEF ElectionTimeout, StartElection
  <2> QED
    BY <1>0, <1>1, <2>1
<1>3. ASSUME NEW n \in Managers, NEW e \in Elections, NEW p \in Members,
             CountVote(n, e, p)
      PROVE  Goal
  <2>1. currentTerm' = currentTerm /\ restarts' = restarts
    BY <1>3 DEF CountVote
  <2>2. CASE BecomeLeader(n)
    <3>1. /\ lastLed' = [lastLed EXCEPT ![n] =
                 [life |-> restarts[n], term |-> currentTerm[n]]]
          /\ state' = [state EXCEPT ![n] = Leader]
      BY <2>2 DEF BecomeLeader
    <3>2. CASE k = n
      <4>1. /\ lastLed'[k].life = restarts[k]
            /\ lastLed'[k].term = currentTerm[k]
            /\ state'[k] = Leader
        BY <1>0, <3>1, <3>2
      <4> QED
        BY <1>0, <2>1, <4>1 DEF LedOf, Candidate, Leader
    <3>3. CASE k # n
      <4>1. lastLed'[k] = lastLed[k] /\ state'[k] = state[k]
        BY <1>0, <3>1, <3>3
      <4> QED
        BY <1>l, <2>1, <4>1 DEF LedOf
    <3> QED
      BY <3>2, <3>3
  <2>3. CASE ~WinsElection(n, e)
    BY <1>0, <1>1, <1>3, <2>1, <2>3 DEF CountVote
  <2> QED
    BY <1>3, <2>2, <2>3 DEF CountVote
<1>4. ASSUME NEW n \in Managers, NEW m \in mailbox,
             HandleVoteRequest(n, m) \/ HandleAppendEntries(n, m)
      PROVE  Goal
  <2>1. /\ lastLed' = lastLed /\ restarts' = restarts
        /\ state' = state \/ state' = [state EXCEPT ![n] = Follower]
        /\ \/ currentTerm' = currentTerm
           \/ /\ m.term >= currentTerm[n]
              /\ currentTerm' = [currentTerm EXCEPT ![n] = m.term]
    BY <1>0, <1>4 DEF HandleVoteRequest, HandleAppendEntries
  <2>2. m.term \in Int
    BY MailboxType
  <2>3. currentTerm[k] <= currentTerm'[k]
    BY <1>0, <2>1, <2>2
  <2> QED
    BY <1>0, <1>1, <2>1, <2>3
<1>5. ASSUME NEW n \in Managers, Restart(n)
      PROVE  Goal
  <2>1. /\ lastLed' = lastLed
        /\ restarts' = [restarts EXCEPT ![n] = @ + 1]
        /\ currentTerm' = [currentTerm EXCEPT ![n] = 0]
        /\ state' = [state EXCEPT ![n] = Follower]
    BY <1>5 DEF Restart, history
  <2>2. CASE k = n
    <3>1. lastLed'[k] = lastLed[k] /\ restarts'[k] = restarts[k] + 1
      BY <1>0, <2>1, <2>2
    <3>2. lastLed[k].life <= restarts[k]
      BY <1>l DEF LedOf
    <3> QED
      BY <1>0, <3>1, <3>2 DEF LedOf
  <2>3. CASE k # n
    <3>1. /\ lastLed'[k] = lastLed[k] /\ restarts'[k] = restarts[k]
          /\ currentTerm'[k] = currentTerm[k] /\ state'[k] = state[k]
      BY <1>0, <2>1, <2>3
    <3> QED
      BY <1>l, <3>1 DEF LedOf
  <2> QED
    BY <2>2, <2>3
<1>6. ASSUME NEW n \in Managers, ForceElection(n)
      PROVE  Goal
  BY <1>0, <1>1, <1>6 DEF ForceElection, history
<1>7. ASSUME lastLed' = lastLed, restarts' = restarts,
             currentTerm' = currentTerm, state' = state
      PROVE  Goal
  BY <1>0, <1>1, <1>7
<1>8. ASSUME NEW n \in Managers, HeartbeatExpires(n) \/ HeartbeatTick(n)
      PROVE  Goal
  BY <1>7, <1>8 DEF HeartbeatExpires, HeartbeatTick, roleVars, history
<1>9. ASSUME NEW n \in Managers, NEW e \in Elections, NEW p \in Members,
             SendVoteRequest(n, e, p)
      PROVE  Goal
  BY <1>7, <1>9 DEF SendVoteRequest, roleVars, history
<1>10. ASSUME NEW n \in Managers, NEW p \in Members, SendAppendEntries(n, p)
       PROVE  Goal
  BY <1>7, <1>10 DEF SendAppendEntries, roleVars, history
<1>11. ASSUME ClusterEdited \/ UNCHANGED vars
       PROVE  Goal
  BY <1>7, <1>11 DEF ClusterEdited, vars, roleVars, history
<1> QED
  BY <1>2, <1>3, <1>4, <1>5, <1>6, <1>8, <1>9, <1>10, <1>11
  DEF Next, RunningStep

----------------------------------------------------------------------------
(* Votes.                                                                  *)

(* A request is granted in a term of at least 1, and then it is the vote   *)
(* on record; in the current term it goes to a second candidate only if    *)
(* the first vote is not in votedFor any more.                             *)
LEMMA GrantedVote ==
    ASSUME TypeOK, NEW n \in Managers, NEW m \in mailbox,
           HandleVoteRequest(n, m)
    PROVE  /\ m.term \in Nat /\ m.term >= 1 /\ m.from \in Managers
           /\ m.term >= currentTerm[n]
           /\ currentTerm' = [currentTerm EXCEPT ![n] = m.term]
           /\ \A k \in Managers : k # n =>
                 votedFor'[k] = votedFor[k] /\ lastVote'[k] = lastVote[k]
           /\ \/ /\ lastVote'[n] = [life |-> restarts[n], term |-> m.term,
                                    candidate |-> m.from, cleared |-> FALSE]
                 /\ votedFor'[n] = m.from
                 /\ m.term = currentTerm[n] => votedFor[n] \in {None, m.from}
              \/ /\ lastVote'[n] = lastVote[n]
                 /\ m.term = currentTerm[n] => votedFor'[n] = votedFor[n]
           /\ restarts' = restarts
<1>0. /\ lastVote \in [Managers -> VoteType]
      /\ votedFor \in [Managers -> Managers \cup {None}]
      /\ currentTerm[n] \in Nat
  BY ConstantsAssumption DEF TypeOK
<1>1. m.type = "vote_request" /\ m.term >= currentTerm[n]
  BY DEF HandleVoteRequest
<1>2. m.term \in Nat /\ m.term >= 1 /\ m.from \in Managers
  BY <1>1, MailboxType, ConstantsAssumption DEF VoteRequestType
<1>3. /\ currentTerm' = [currentTerm EXCEPT ![n] = m.term]
      /\ \A k \in Managers : k # n =>
            votedFor'[k] = votedFor[k] /\ lastVote'[k] = lastVote[k]
      /\ restarts' = restarts
  BY <1>0 DEF HandleVoteRequest
<1> DEFINE grant == VoteAvailable(n, m) /\ LogUpToDate(n, m)
<1>4. CASE grant
  <2>1. /\ lastVote'[n] = [life |-> restarts[n], term |-> m.term,
                           candidate |-> m.from, cleared |-> FALSE]
        /\ votedFor'[n] = m.from
    BY <1>0, <1>4 DEF HandleVoteRequest
  <2>2. m.term = currentTerm[n] => votedFor[n] \in {None, m.from}
    BY <1>0, <1>2, <1>4 DEF VoteAvailable
  <2> QED
    BY <1>1, <1>2, <1>3, <2>1, <2>2
<1>5. CASE ~grant
  <2>1. lastVote'[n] = lastVote[n]
    BY <1>0, <1>5 DEF HandleVoteRequest
  <2>2. m.term = currentTerm[n] => votedFor'[n] = votedFor[n]
    BY <1>0, <1>2, <1>5 DEF HandleVoteRequest
  <2> QED
    BY <1>1, <1>2, <1>3, <2>1, <2>2
<1> QED
  BY <1>4, <1>5

(* The vote on record stays that of the current or an earlier term.        *)
LEMMA VoteStep ==
    ASSUME TypeOK, VoteInv, [Next]_vars
    PROVE  VoteInv'
<1> SUFFICES ASSUME NEW k \in Managers
             PROVE  VoteOf(k)'
  BY DEF VoteInv, VoteOf
<1>0. /\ currentTerm \in [Managers -> 0..MaxTerm]
      /\ votedFor \in [Managers -> Managers \cup {None}]
      /\ lastVote \in [Managers -> VoteType]
      /\ restarts \in [Managers -> 0..MaxRestarts]
      /\ currentTerm[k] \in Nat /\ restarts[k] \in Nat
      /\ lastVote[k].term \in Nat /\ lastVote[k].life \in Nat
      /\ None \notin Managers
  BY ConstantsAssumption DEF TypeOK, VoteType
<1>v. VoteOf(k)
  BY DEF VoteInv, VoteOf
<1>1. ASSUME lastVote'[k] = lastVote[k], votedFor'[k] = votedFor[k],
             currentTerm'[k] = currentTerm[k], restarts'[k] = restarts[k]
      PROVE  VoteOf(k)'
  BY <1>1, <1>v DEF VoteOf
<1>2. ASSUME NEW n \in Managers, ElectionTimeout(n)
      PROVE  VoteOf(k)'
  <2>1. /\ currentTerm' = [currentTerm EXCEPT ![n] = @ + 1]
        /\ votedFor' = [votedFor EXCEPT ![n] = n]
        /\ restarts' = restarts
        /\ lastVote' = [lastVote EXCEPT ![n] =
              [life |-> restarts[n], term |-> currentTerm[n] + 1,
               candidate |-> n, cleared |-> FALSE]]
    BY <1>2 DEF ElectionTimeout, StartElection
  <2>2. CASE k = n
    <3>1. /\ currentTerm'[k] = currentTerm[k] + 1 /\ votedFor'[k] = k
          /\ lastVote'[k].life = restarts[k] /\ restarts'[k] = restarts[k]
          /\ lastVote'[k].term = currentTerm[k] + 1
          /\ lastVote'[k].candidate = k
      BY <1>0, <2>1, <2>2
    <3> QED
      BY <1>0, <3>1 DEF VoteOf
  <2>3. CASE k # n
    BY <1>0, <1>1, <2>1, <2>3
  <2> QED
    BY <2>2, <2>3
<1>3. ASSUME NEW n \in Managers, NEW m \in mailbox, HandleVoteRequest(n, m)
      PROVE  VoteOf(k)'
  <2>1. CASE k # n
    <3>1. currentTerm' = [currentTerm EXCEPT ![n] = m.term]
      BY <1>3, GrantedVote
    <3>2. currentTerm'[k] = currentTerm[k]
      BY <1>0, <2>1, <3>1
    <3>3. /\ votedFor'[k] = votedFor[k] /\ lastVote'[k] = lastVote[k]
          /\ restarts'[k] = restarts[k]
      BY <1>3, <2>1, GrantedVote
    <3> QED
      BY <1>1, <3>2, <3>3
  <2>2. CASE k = n
    <3>1. /\ m.term \in Nat /\ m.term >= 1 /\ m.from \in Managers
          /\ m.term >= currentTerm[k]
          /\ currentTerm' = [currentTerm EXCEPT ![n] = m.term]
          /\ restarts'[k] = restarts[k]
          /\ \/ /\ lastVote'[k] = [life |-> restarts[k], term |-> m.term,
                                   candidate |-> m.from, cleared |-> FALSE]
                /\ votedFor'[k] = m.from
             \/ /\ lastVote'[k] = lastVote[k]
                /\ m.term = currentTerm[k] => votedFor'[k] = votedFor[k]
      BY <1>3, <2>2, GrantedVote
    <3>2. currentTerm'[k] = m.term
      BY <1>0, <2>2, <3>1
    <3>3. ASSUME lastVote'[k] = [life |-> restarts[k], term |-> m.term,
                                 candidate |-> m.from, cleared |-> FALSE],
                 votedFor'[k] = m.from
          PROVE  VoteOf(k)'
      <4>1. /\ lastVote'[k].term = m.term /\ lastVote'[k].candidate = m.from
            /\ lastVote'[k].life = restarts'[k]
        BY <3>1, <3>3
      <4> QED
        BY <1>0, <3>1, <3>2, <3>3, <4>1 DEF VoteOf
    <3>4. ASSUME lastVote'[k] = lastVote[k],
                 m.term = currentTerm[k] => votedFor'[k] = votedFor[k]
          PROVE  VoteOf(k)'
      <4>1. lastVote[k].life = restarts[k] =>
                /\ lastVote[k].term <= m.term
                /\ lastVote[k].term = m.term => m.term = currentTerm[k]
        BY <1>0, <1>v, <3>1 DEF VoteOf
      <4> QED
        BY <1>v, <3>1, <3>2, <3>4, <4>1 DEF VoteOf
    <3> QED
      BY <3>1, <3>3, <3>4
  <2> QED
    BY <2>1, <2>2
<1>4. ASSUME NEW n \in Managers, NEW m \in mailbox, HandleAppendEntries(n, m)
      PROVE  VoteOf(k)'
  <2>1. \/ UNCHANGED <<currentTerm, votedFor, lastVote, restarts>>
        \/ /\ m.term >= currentTerm[n]
           /\ currentTerm' = [currentTerm EXCEPT ![n] = m.term]
           /\ votedFor' = [votedFor EXCEPT ![n] = None]
           /\ restarts' = restarts
           /\ lastVote' = [lastVote EXCEPT ![n] =
                 [life |-> @.life, term |-> @.term, candidate |-> @.candidate,
                  cleared |-> TRUE]]
    BY <1>4 DEF HandleAppendEntries
  <2>2. CASE UNCHANGED <<currentTerm, votedFor, lastVote, restarts>>
    BY <1>1, <2>2
  <2>3. CASE /\ m.term >= currentTerm[n]
             /\ currentTerm' = [currentTerm EXCEPT ![n] = m.term]
             /\ votedFor' = [votedFor EXCEPT ![n] = None]
             /\ restarts' = restarts
             /\ lastVote' = [lastVote EXCEPT ![n] =
                   [life |-> @.life, term |-> @.term, candidate |-> @.candidate,
                    cleared |-> TRUE]]
    <3>1. CASE k = n
      <4>1. /\ lastVote'[k].life = lastVote[k].life
            /\ lastVote'[k].term = lastVote[k].term
            /\ lastVote'[k].candidate = lastVote[k].candidate
            /\ lastVote'[k].cleared
            /\ currentTerm'[k] = m.term /\ restarts'[k] = restarts[k]
        BY <1>0, <2>3, <3>1
      <4>2. m.term \in Int
        BY MailboxType
      <4>3. lastVote[k].life = restarts[k] => lastVote[k].term <= m.term
        BY <1>0, <1>v, <2>3, <3>1, <4>2 DEF VoteOf
      <4> QED
        BY <1>v, <4>1, <4>3 DEF VoteOf
    <3>2. CASE k # n
      BY <1>0, <1>1, <2>3, <3>2
    <3> QED
      BY <3>1, <3>2
  <2> QED
    BY <2>1, <2>2, <2>3
<1>5. ASSUME NEW n \in Managers, Restart(n)
      PROVE  VoteOf(k)'
  <2>1. /\ currentTerm' = [currentTerm EXCEPT ![n] = 0]
        /\ votedFor' = [votedFor EXCEPT ![n] = None]
        /\ restarts' = [restarts EXCEPT ![n] = @ + 1]
        /\ lastVote' = lastVote
    BY <1>5 DEF Restart, history
  <2>2. CASE k = n
    <3>1. lastVote'[k] = lastVote[k] /\ restarts'[k] = restarts[k] + 1
      BY <1>0, <2>1, <2>2
    <3>2. /\ lastVote[k].life <= restarts[k]
          /\ lastVote[k].term = 0 <=> lastVote[k].candidate = None
      BY <1>v DEF VoteOf
    <3> QED
      BY <1>0, <3>1, <3>2 DEF VoteOf
  <2>3. CASE k # n
    BY <1>0, <1>1, <2>1, <2>3
  <2> QED
    BY <2>2, <2>3
<1>6. \/ UNCHANGED <<currentTerm, votedFor, lastVote, restarts>>
      \/ \E n \in Managers : ElectionTimeout(n) \/ Restart(n)
      \/ \E n \in Managers, m \in mailbox :
             HandleVoteRequest(n, m) \/ HandleAppendEntries(n, m)
  BY DEF Next, RunningStep, HeartbeatExpires, SendVoteRequest, CountVote,
         SendAppendEntries, HeartbeatTick, ForceElection, ClusterEdited, vars,
         roleVars, history
<1> QED
  BY <1>1, <1>2, <1>3, <1>4, <1>5, <1>6

----------------------------------------------------------------------------
(* The stored status.                                                      *)

(* Without a restart the last term led never goes back.                    *)
LEMMA LastLedGrows ==
    ASSUME TypeOK, LedInv, [Next]_vars
    PROVE  \/ \E n \in Managers : Restart(n)
           \/ /\ restarts' = restarts
              /\ \A k \in Managers :
                    lastLed[k].life = restarts[k] =>
                        lastLed[k].term <= lastLed'[k].term
<1>0. /\ lastLed \in [Managers -> LedType]
      /\ \A k \in Managers : lastLed[k].term \in Int
      /\ \A k \in Managers :
            lastLed[k].life = restarts[k] => lastLed[k].term <= currentTerm[k]
  BY ConstantsAssumption DEF TypeOK, LedType, LedInv, LedOf
<1>1. \/ \E n \in Managers : Restart(n)
      \/ /\ restarts' = restarts
         /\ \/ lastLed' = lastLed
            \/ \E n \in Managers :
                   lastLed' = [lastLed EXCEPT ![n] =
                       [life |-> restarts[n], term |-> currentTerm[n]]]
  BY DEF Next, RunningStep, HeartbeatExpires, ElectionTimeout, SendVoteRequest,
         CountVote, BecomeLeader, SendAppendEntries, HeartbeatTick,
         HandleVoteRequest, HandleAppendEntries, ForceElection, ClusterEdited,
         vars, history
<1>2. CASE restarts' = restarts /\ lastLed' = lastLed
  BY <1>0, <1>2
<1>3. ASSUME restarts' = restarts, NEW n \in Managers,
             lastLed' = [lastLed EXCEPT ![n] =
                 [life |-> restarts[n], term |-> currentTerm[n]]],
             NEW k \in Managers, lastLed[k].life = restarts[k]
      PROVE  lastLed[k].term <= lastLed'[k].term
  <2>1. CASE k = n
    <3>1. lastLed'[k].term = currentTerm[k]
      BY <1>0, <1>3, <2>1
    <3> QED
      BY <1>0, <1>3, <3>1
  <2>2. CASE k # n
    <3>1. lastLed'[k] = lastLed[k]
      BY <1>0, <1>3, <2>2
    <3> QED
      BY <1>0, <3>1
  <2> QED
    BY <2>1, <2>2
<1> QED
  BY <1>1, <1>2, <1>3

(* Publishing records the term led, and needs a copy that is up to date.   *)
LEMMA PublisherLeads ==
    ASSUME TypeOK, NEW n \in Managers, Publishes(n)
    PROVE  /\ crd'.leader = n /\ crd'.term = currentTerm[n]
           /\ lastLed'[n].term = currentTerm[n]
           /\ state[n] = Candidate /\ fresh[n]
           /\ \A k \in Managers : fresh'[k] => k = n
<1>1. lastLed \in [Managers -> LedType]
  BY DEF TypeOK
<1>2. BecomeLeader(n) /\ state[n] = Candidate
  BY WonBecomes DEF Publishes
<1>3. lastLed'[n].term = currentTerm[n]
  BY <1>1, <1>2 DEF BecomeLeader
<1> QED
  BY <1>2, <1>3 DEF Publishes, LeaderStatus

(* Until a process restarts, only the publisher's copy is up to date.      *)
LEMMA PublisherStep ==
    ASSUME TypeOK, TypeOK', LedInv, PublisherInv, [Next]_vars
    PROVE  PublisherInv'
<1> SUFFICES ASSUME \A n \in Managers : restarts'[n] = 0, crd'.leader # None
             PROVE  /\ crd'.term <= lastLed'[crd'.leader].term
                    /\ \A n \in Managers : fresh'[n] => n = crd'.leader
  BY DEF PublisherInv
<1>1. ASSUME NEW n \in Managers, Restart(n)
      PROVE  FALSE
  <2>1. restarts \in [Managers -> 0..MaxRestarts]
    BY DEF TypeOK
  <2>2. restarts[n] \in Nat
    BY <2>1, ConstantsAssumption
  <2>3. restarts'[n] = restarts[n] + 1
    BY <1>1, <2>1 DEF Restart
  <2> QED
    BY <2>2, <2>3
<1>2. /\ restarts' = restarts
      /\ \A k \in Managers : lastLed[k].term <= lastLed'[k].term
  <2>1. /\ restarts' = restarts
        /\ \A k \in Managers : lastLed[k].life = restarts[k] =>
                                   lastLed[k].term <= lastLed'[k].term
    BY <1>1, LastLedGrows
  <2>2. \A k \in Managers : lastLed[k].life \in Nat
    BY ConstantsAssumption DEF TypeOK, LedType
  <2>3. \A k \in Managers : lastLed[k].life = restarts[k]
    BY <2>1, <2>2 DEF LedInv, LedOf
  <2> QED
    BY <2>1, <2>3
<1>3. CASE crd' = crd /\ \A k \in Managers : fresh'[k] => fresh[k]
  <2>1. /\ crd.term <= lastLed[crd.leader].term
        /\ \A n \in Managers : fresh[n] => n = crd.leader
    BY <1>2, <1>3 DEF PublisherInv
  <2>2. crd.leader \in Managers /\ crd.term \in 0..MaxTerm
    BY <1>3 DEF TypeOK, StatusType
  <2>3. /\ lastLed[crd.leader].term \in 0..MaxTerm
        /\ lastLed'[crd.leader].term \in 0..MaxTerm
    BY <2>2 DEF TypeOK, LedType
  <2>4. lastLed[crd.leader].term <= lastLed'[crd.leader].term
    BY <1>2, <2>2
  <2>5. crd.term <= lastLed'[crd.leader].term
    BY <2>1, <2>2, <2>3, <2>4, ConstantsAssumption
  <2> QED
    BY <1>3, <2>1, <2>5
<1>4. ASSUME NEW n \in Managers, Publishes(n)
      PROVE  /\ crd'.term <= lastLed'[crd'.leader].term
             /\ \A k \in Managers : fresh'[k] => k = crd'.leader
  <2>1. currentTerm[n] \in Nat
    BY ConstantsAssumption DEF TypeOK
  <2> QED
    BY <1>4, <2>1, PublisherLeads
<1> QED
  BY <1>1, <1>3, <1>4, StatusSource

----------------------------------------------------------------------------
(* The inductive invariant.                                                *)

(* A new manager satisfies every part of it.                               *)
LEMMA IndInit == Init => IndInv
<1> SUFFICES ASSUME Init PROVE IndInv
  OBVIOUS
<1>1. TypeOK
  BY TypeInit
<1>2. IndexInv
  BY DEF Init, IndexInv, Follower, Leader
<1>3. GoroutineInv
  BY DEF Init, GoroutineInv, Election, Goroutines
<1>4. CandidateHoldsOwnVote
  BY DEF Init, CandidateHoldsOwnVote
<1>5. BackedInv
  BY DEF Init, BackedInv, LeadershipBacked, AnnouncedLeadersBacked, NoStatus,
         Follower, Leader
<1>6. LedInv
  BY DEF Init, LedInv, LedOf, NeverLed, Follower, Candidate
<1>7. VoteInv
  BY DEF Init, VoteInv, VoteOf, NoVote
<1>8. PublisherInv
  BY DEF Init, PublisherInv, NoStatus
<1> QED
  BY <1>1, <1>2, <1>3, <1>4, <1>5, <1>6, <1>7, <1>8 DEF IndInv

(* Every step preserves it.                                                *)
LEMMA IndStep == IndInv /\ [Next]_vars => IndInv'
<1> SUFFICES ASSUME IndInv, [Next]_vars PROVE IndInv'
  OBVIOUS
<1>1. /\ TypeOK /\ IndexInv /\ GoroutineInv /\ CandidateHoldsOwnVote
      /\ BackedInv /\ LedInv /\ VoteInv /\ PublisherInv
  BY DEF IndInv
<1>2. TypeOK'
  BY <1>1, TypeStep
<1>3. IndexInv' /\ GoroutineInv' /\ CandidateHoldsOwnVote'
  BY <1>1, <1>2, IndexStep, GoroutineStep, RoleStep
<1>4. BackedInv' /\ LedInv' /\ VoteInv' /\ PublisherInv'
  BY <1>1, <1>2, BackedStep, LedStep, VoteStep, PublisherStep
<1> QED
  BY <1>2, <1>3, <1>4 DEF IndInv

(* IndInv is an invariant of every manager, with every interleaving of     *)
(* timers, goroutines, handlers, failing API calls and restarts.           *)
THEOREM Invariance == Spec => []IndInv
<1> QED
  BY IndInit, IndStep, PTL DEF Spec

(* No reachable state leaves the types of raft.go's fields, and no         *)
(* message carries a negative prevLogIndex or asks for a vote in term 0.   *)
THEOREM TypeCorrectness == Spec => []TypeOK
<1>1. IndInv => TypeOK
  BY DEF IndInv
<1> QED
  BY <1>1, Invariance, PTL

(* Whoever campaigns or leads holds its own vote.                          *)
THEOREM OwnVote == Spec => []CandidateHoldsOwnVote
<1>1. IndInv => CandidateHoldsOwnVote
  BY DEF IndInv
<1> QED
  BY <1>1, Invariance, PTL

(* Nobody leads before a majority has been asked for its vote.             *)
THEOREM LeadersAreBacked == Spec => []LeadershipBacked
<1>1. IndInv => LeadershipBacked
  BY DEF IndInv, BackedInv
<1> QED
  BY <1>1, Invariance, PTL

(* Nobody is announced as leader, in a heartbeat or in the resource's      *)
(* status, without that backing.                                           *)
THEOREM AnnouncementsAreBacked == Spec => []AnnouncedLeadersBacked
<1>1. IndInv => AnnouncedLeadersBacked
  BY DEF IndInv, BackedInv
<1> QED
  BY <1>1, Invariance, PTL

(* Terms go back only when the process restarts.                           *)
THEOREM TermsGrow == Spec => TermNeverDecreases
<1> DEFINE A == \A n \in Managers :
                    currentTerm'[n] < currentTerm[n] => restarts'[n] > restarts[n]
<1>1. TypeOK /\ TypeOK' /\ [Next]_vars => A
  <2> SUFFICES ASSUME TypeOK, TypeOK', [Next]_vars, NEW n \in Managers,
                      currentTerm'[n] < currentTerm[n]
               PROVE  restarts'[n] > restarts[n]
    OBVIOUS
  <2>1. /\ currentTerm[n] \in Int /\ currentTerm'[n] \in Int
        /\ restarts[n] \in Int
        /\ restarts \in [Managers -> 0..MaxRestarts]
    BY ConstantsAssumption DEF TypeOK
  <2>2. ~(currentTerm[n] <= currentTerm'[n])
    BY <2>1
  <2>3. Restart(n)
    BY <2>2, TermsAndMessagesGrow
  <2> QED
    BY <2>1, <2>3 DEF Restart
<1> QED
  BY <1>1, TypeCorrectness, PTL DEF Spec, TermNeverDecreases

(* In one life of its process no manager assumes leadership twice in one   *)
(* term.  After a restart, which forgets the term, it may lead it again.   *)
THEOREM LeadsOnce == Spec => LeadsTermOnce
<1>1. IndInv /\ [Next]_vars =>
          \A n \in Managers :
              /\ state[n] # Leader /\ state'[n] = Leader
              /\ lastLed[n].life = restarts[n]
              => currentTerm'[n] > lastLed[n].term
  <2> SUFFICES ASSUME IndInv, [Next]_vars, NEW n \in Managers,
                      state[n] # Leader, state'[n] = Leader,
                      lastLed[n].life = restarts[n]
               PROVE  currentTerm'[n] > lastLed[n].term
    OBVIOUS
  <2>1. TypeOK /\ LedInv
    BY DEF IndInv
  <2>2. state[n] = Candidate /\ currentTerm' = currentTerm
    BY <2>1, LeaderSource, WonBecomes
  <2>3. currentTerm[n] \in Int /\ lastLed[n].term \in Int
    BY <2>1, ConstantsAssumption DEF TypeOK, LedType
  <2>4. lastLed[n].term < currentTerm[n]
    BY <2>1, <2>2 DEF LedInv, LedOf
  <2> QED
    BY <2>2, <2>3, <2>4
<1> QED
  BY <1>1, Invariance, PTL DEF Spec, LeadsTermOnce

(* In one life of the process a second vote in a term follows an accepted  *)
(* heartbeat.  After a restart, which forgets vote and term, none is needed.*)
THEOREM Revotes == Spec => RevoteNeedsHeartbeat
<1>1. IndInv /\ [Next]_vars =>
          \A n \in Managers :
              /\ lastVote'[n].life = lastVote[n].life
              /\ lastVote'[n].term = lastVote[n].term
              /\ lastVote'[n].candidate # lastVote[n].candidate
              => lastVote[n].cleared
  <2> SUFFICES ASSUME IndInv, [Next]_vars, NEW k \in Managers,
                      lastVote'[k].life = lastVote[k].life,
                      lastVote'[k].term = lastVote[k].term,
                      lastVote'[k].candidate # lastVote[k].candidate
               PROVE  lastVote[k].cleared
    OBVIOUS
  <2>0. TypeOK /\ VoteOf(k)
    BY DEF IndInv, VoteInv, VoteOf
  <2>t. /\ lastVote \in [Managers -> VoteType]
        /\ currentTerm[k] \in Nat /\ lastVote[k].term \in Nat
    BY <2>0, ConstantsAssumption DEF TypeOK, VoteType
  <2>1. ASSUME NEW n \in Managers, ElectionTimeout(n)
        PROVE  FALSE
    <3>1. lastVote' = [lastVote EXCEPT ![n] =
              [life |-> restarts[n], term |-> currentTerm[n] + 1,
               candidate |-> n, cleared |-> FALSE]]
      BY <2>1 DEF ElectionTimeout, StartElection
    <3>2. k = n
      BY <2>t, <3>1
    <3>3. /\ lastVote'[k].term = currentTerm[k] + 1
          /\ lastVote'[k].life = restarts[k]
      BY <2>t, <3>1, <3>2
    <3> QED
      BY <2>0, <2>t, <3>3 DEF VoteOf
  <2>2. ASSUME NEW n \in Managers, Restart(n)
        PROVE  FALSE
    BY <2>2 DEF Restart, history
  <2>3. ASSUME NEW n \in Managers, NEW m \in mailbox, HandleVoteRequest(n, m)
        PROVE  lastVote[k].cleared
    <3>1. k = n
      BY <2>0, <2>3, GrantedVote
    <3>2. /\ m.term \in Nat /\ m.term >= 1 /\ m.term >= currentTerm[k]
          /\ lastVote'[k] = [life |-> restarts[k], term |-> m.term,
                             candidate |-> m.from, cleared |-> FALSE]
          /\ m.term = currentTerm[k] => votedFor[k] \in {None, m.from}
      BY <2>0, <2>3, <3>1, GrantedVote
    <3>3. /\ lastVote'[k].term = m.term /\ lastVote'[k].candidate = m.from
          /\ lastVote[k].life = restarts[k]
      BY <3>2
    <3>4. m.term = currentTerm[k] /\ lastVote[k].term # 0
      BY <2>0, <2>t, <3>2, <3>3 DEF VoteOf
    <3>5. lastVote[k].candidate \notin {None, m.from}
      BY <2>0, <3>3, <3>4 DEF VoteOf
    <3> QED
      BY <2>0, <3>2, <3>3, <3>4, <3>5 DEF VoteOf
  <2>4. ASSUME NEW n \in Managers, NEW m \in mailbox, HandleAppendEntries(n, m)
        PROVE  FALSE
    <3>1. \/ lastVote' = lastVote
          \/ lastVote' = [lastVote EXCEPT ![n] =
                [life |-> @.life, term |-> @.term, candidate |-> @.candidate,
                 cleared |-> TRUE]]
      BY <2>4 DEF HandleAppendEntries
    <3> QED
      BY <2>t, <3>1
  <2>5. \/ UNCHANGED lastVote
        \/ \E n \in Managers : ElectionTimeout(n) \/ Restart(n)
        \/ \E n \in Managers, m \in mailbox :
               HandleVoteRequest(n, m) \/ HandleAppendEntries(n, m)
    BY DEF Next, RunningStep, HeartbeatExpires, SendVoteRequest, CountVote,
           SendAppendEntries, HeartbeatTick, ForceElection, ClusterEdited, vars,
           history
  <2> QED
    BY <2>1, <2>2, <2>3, <2>4, <2>5
<1> QED
  BY <1>1, Invariance, PTL DEF Spec, RevoteNeedsHeartbeat

(* Without restarts the stored status stays with its first publisher.      *)
THEOREM FirstPublisherStays == Spec => SolePublisher
<1>1. IndInv /\ [Next]_vars =>
          \/ crd' = crd
          \/ crd.leader = None
          \/ crd'.leader = crd.leader /\ crd'.term > crd.term
          \/ \E n \in Managers : restarts[n] > 0
  <2> SUFFICES ASSUME IndInv, [Next]_vars, crd' # crd, crd.leader # None,
                      ~\E n \in Managers : restarts[n] > 0
               PROVE  crd'.leader = crd.leader /\ crd'.term > crd.term
    OBVIOUS
  <2>1. TypeOK /\ LedInv /\ PublisherInv
    BY DEF IndInv
  <2>2. \A n \in Managers : restarts[n] = 0
    <3>1. \A n \in Managers : restarts[n] \in Nat
      BY <2>1, ConstantsAssumption DEF TypeOK
    <3> QED
      BY <3>1
  <2>3. /\ crd.term <= lastLed[crd.leader].term
        /\ \A n \in Managers : fresh[n] => n = crd.leader
    BY <2>1, <2>2 DEF PublisherInv
  <2>4. PICK n \in Managers : Publishes(n)
    BY <2>1, StatusSource
  <2>5. /\ crd'.leader = n /\ crd'.term = currentTerm[n]
        /\ state[n] = Candidate /\ fresh[n]
    BY <2>1, <2>4, PublisherLeads
  <2>6. n = crd.leader
    BY <2>3, <2>5
  <2>7. /\ crd.term \in Int /\ currentTerm[n] \in Int
        /\ lastLed[n].term \in Int /\ lastLed[n].life \in Nat
    BY <2>1, ConstantsAssumption DEF TypeOK, StatusType, LedType
  <2>8. lastLed[n].term < currentTerm[n]
    BY <2>1, <2>2, <2>5, <2>7 DEF LedInv, LedOf
  <2> QED
    BY <2>3, <2>5, <2>6, <2>7, <2>8
<1> QED
  BY <1>1, Invariance, PTL DEF Spec, SolePublisher

----------------------------------------------------------------------------
(* The log.                                                                *)

(* LogInert with what keeps it: no message carries entries or a commit     *)
(* index, and nextIndex is never past the first entry.                     *)
LogInv ==
    /\ LogInert
    /\ \A m \in mailbox :
           m.type = "append_entries" => m.entriesCount = 0 /\ m.leaderCommit = 0
    /\ \A n \in Managers, p \in Members : nextIndex[n][p] <= 1

(* No step gives a log an entry.                                           *)
LEMMA LogStep ==
    ASSUME TypeOK, IndexInv, LogInv, [Next]_vars
    PROVE  LogInv'
<1>0. /\ log \in [Managers -> Seq(Nat)] /\ commitIndex \in [Managers -> Nat]
      /\ nextIndex \in [Managers -> [Members -> Nat]]
      /\ \A n \in Managers : log[n] = <<>> /\ commitIndex[n] = 0
      /\ \A n \in Managers, p \in Members : nextIndex[n][p] <= 1
  BY DEF TypeOK, LogInv, LogInert
<1>1. \A n \in Managers : log'[n] = <<>> /\ commitIndex'[n] = 0
  <2>1. ASSUME NEW n \in Managers, NEW m \in mailbox, HandleAppendEntries(n, m)
        PROVE  log' = log /\ commitIndex' = commitIndex
    <3>1. m.entriesCount = 0 /\ m.leaderCommit = 0
      BY <2>1 DEF HandleAppendEntries, LogInv
    <3>2. CASE UNCHANGED logVars
      BY <3>2 DEF logVars
    <3>3. CASE AppendToLog(n, m)
      <4>1. log' = [log EXCEPT ![n] = @]
        BY <3>1, <3>3 DEF AppendToLog
      <4>c. ~(m.leaderCommit > commitIndex[n])
        BY <1>0, <3>1
      <4>2. commitIndex' = [commitIndex EXCEPT ![n] = @]
        BY <3>3, <4>c DEF AppendToLog
      <4> QED
        BY <1>0, <4>1, <4>2
    <3> QED
      BY <2>1, <3>2, <3>3 DEF HandleAppendEntries, logVars
  <2>2. ASSUME NEW n \in Managers, Restart(n)
        PROVE  \A k \in Managers : log'[k] = <<>> /\ commitIndex'[k] = 0
    <3>1. /\ log' = [log EXCEPT ![n] = <<>>]
          /\ commitIndex' = [commitIndex EXCEPT ![n] = 0]
      BY <2>2 DEF Restart
    <3> QED
      BY <1>0, <3>1
  <2>3. \/ log' = log /\ commitIndex' = commitIndex
        \/ \E n \in Managers : Restart(n)
    BY <2>1 DEF Next, RunningStep, HeartbeatExpires, ElectionTimeout,
       SendVoteRequest, CountVote, SendAppendEntries, HeartbeatTick,
       HandleVoteRequest, ForceElection, ClusterEdited, vars, logVars
  <2> QED
    BY <1>0, <2>2, <2>3
<1>2. \A n \in Managers, p \in Members : nextIndex'[n][p] <= 1
  <2>1. ASSUME NEW n \in Managers, BecomeLeader(n)
        PROVE  \A k \in Managers, p \in Members : nextIndex'[k][p] <= 1
    <3>1. FirstNextIndex(n) = 1
      BY <1>0 DEF FirstNextIndex
    <3>2. nextIndex' = [nextIndex EXCEPT ![n] = [p \in Members |->
              IF p \in Peers(n) THEN 1 ELSE nextIndex[n][p]]]
      BY <2>1, <3>1 DEF BecomeLeader
    <3> QED
      BY <1>0, <3>2
  <2>2. ASSUME NEW n \in Managers, Restart(n)
        PROVE  \A k \in Managers, p \in Members : nextIndex'[k][p] <= 1
    <3>1. nextIndex' = [nextIndex EXCEPT ![n] = [p \in Members |-> 0]]
      BY <2>2 DEF Restart
    <3> QED
      BY <1>0, <3>1
  <2>3. \/ nextIndex' = nextIndex
        \/ \E n \in Managers : BecomeLeader(n) \/ Restart(n)
    BY DEF Next, RunningStep, HeartbeatExpires, ElectionTimeout,
       SendVoteRequest, CountVote, SendAppendEntries, HeartbeatTick,
       HandleVoteRequest, HandleAppendEntries, ForceElection, ClusterEdited, vars
  <2> QED
    BY <1>0, <2>1, <2>2, <2>3
<1>3. ASSUME NEW m \in mailbox', m.type = "append_entries"
      PROVE  m.prevLogIndex = 0 /\ m.entriesCount = 0 /\ m.leaderCommit = 0
  <2>1. CASE m \in mailbox
    BY <1>3, <2>1 DEF LogInv, LogInert
  <2>2. CASE m \notin mailbox
    <3>1. PICK n \in Managers, p \in Members :
              pending[n][p] > 0 /\ m = AppendEntries(n, p)
      BY <1>3, <2>2, MessageSource
    <3>2. nextIndex[n][p] = 1 /\ commitIndex[n] = 0
      BY <1>0, <3>1 DEF IndexInv
    <3>3. /\ AppendEntries(n, p).prevLogIndex = nextIndex[n][p] - 1
          /\ AppendEntries(n, p).entriesCount = 0
          /\ AppendEntries(n, p).leaderCommit = commitIndex[n]
      BY DEF AppendEntries
    <3> QED
      BY <3>1, <3>2, <3>3
  <2> QED
    BY <2>1, <2>2
<1> QED
  BY <1>1, <1>2, <1>3 DEF LogInv, LogInert

(* Logs and commit indexes never move, whoever leads and whatever is       *)
(* handled: sendAppendEntries is never given an entry.                     *)
THEOREM LogsStayEmpty == Spec => []LogInert
<1>1. Init => LogInv
  BY DEF Init, LogInv, LogInert
<1>2. IndInv /\ LogInv /\ [Next]_vars => LogInv'
  BY LogStep DEF IndInv
<1>3. LogInv => LogInert
  BY DEF LogInv
<1> QED
  BY <1>1, <1>2, <1>3, Invariance, PTL DEF Spec

----------------------------------------------------------------------------
(* Refinement.                                                             *)

(* Winning is Elected, Restart is Restarted, and every other step leaves   *)
(* the view alone.                                                         *)
LEMMA ViewStep ==
    ASSUME Dispatch = FALSE, TypeOK, [Next]_vars
    PROVE  [View!Next]_(View!view)
<1> DEFINE leading == [n \in Managers |-> state[n] = Leader]
<1>0. /\ state \in [Managers -> {Follower, Candidate, Leader}]
      /\ restarts \in [Managers -> 0..MaxRestarts]
  BY DEF TypeOK
<1>1. ASSUME leading' = leading, restarts' = restarts
      PROVE  UNCHANGED View!view
  BY <1>1 DEF View!view
<1>2. ASSUME NEW n \in Managers, NEW e \in Elections, NEW p \in Members,
             CountVote(n, e, p), WinsElection(n, e)
      PROVE  View!Elected(n)
  <2>1. /\ state' = [state EXCEPT ![n] = Leader] /\ restarts' = restarts
        /\ state[n] = Candidate
    BY <1>2 DEF CountVote, BecomeLeader, WinsElection
  <2>2. leading' = [leading EXCEPT ![n] = TRUE] /\ ~leading[n]
    BY <1>0, <2>1 DEF Candidate, Leader
  <2> QED
    BY <2>1, <2>2 DEF View!Elected
<1>3. ASSUME NEW n \in Managers, Restart(n)
      PROVE  View!Restarted(n)
  <2>1. /\ state' = [state EXCEPT ![n] = Follower]
        /\ restarts' = [restarts EXCEPT ![n] = @ + 1]
    BY <1>3 DEF Restart
  <2>2. leading' = [leading EXCEPT ![n] = FALSE]
    BY <1>0, <2>1 DEF Follower, Leader
  <2> QED
    BY <2>1, <2>2 DEF View!Restarted
<1>4. ASSUME NEW n \in Managers, ElectionTimeout(n) \/ ForceElection(n)
      PROVE  leading' = leading /\ restarts' = restarts
  <2>1. /\ state[n] # Leader /\ restarts' = restarts
        /\ \/ state' = [state EXCEPT ![n] = Candidate]
           \/ state' = [state EXCEPT ![n] = Follower]
    BY <1>4 DEF ElectionTimeout, StartElection, ForceElection
  <2> QED
    BY <1>0, <2>1 DEF Follower, Candidate, Leader
<1>5. \/ state' = state /\ restarts' = restarts
      \/ \E n \in Managers : ElectionTimeout(n) \/ ForceElection(n)
      \/ \E n \in Managers, e \in Elections, p \in Members :
             CountVote(n, e, p) /\ WinsElection(n, e)
      \/ \E n \in Managers : Restart(n)
  BY DEF Next, RunningStep, HeartbeatExpires, SendVoteRequest, CountVote,
         SendAppendEntries, HeartbeatTick, HandleVoteRequest,
         HandleAppendEntries, ClusterEdited, vars, roleVars
<1> QED
  BY <1>1, <1>2, <1>3, <1>4, <1>5 DEF View!Next

(* With no reader of the messages a manager keeps its leadership until its *)
(* process ends: the safety part of ImplementsLeaderView.                  *)
THEOREM RefinesLeaderView ==
    ASSUME Dispatch = FALSE
    PROVE  Spec => View!Spec
<1>1. Init => View!Init
  BY DEF Init, View!Init, Follower, Leader
<1>2. TypeOK /\ [Next]_vars => [View!Next]_(View!view)
  BY ViewStep
<1> QED
  BY <1>1, <1>2, TypeCorrectness, PTL DEF Spec, View!Spec
============================================================================
