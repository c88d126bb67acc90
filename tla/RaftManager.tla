---------------------------- MODULE RaftManager ----------------------------
(***************************************************************************)
(* The RaftManager of internal/controller/raft.go: election timer, vote    *)
(* and heartbeat goroutines, the two message handlers, and the status it   *)
(* publishes in the MysqlCluster resource.                                 *)
(*                                                                         *)
(* Managers are the processes that run a RaftManager, Members the node     *)
(* names getClusterNodes derives from spec.replicas.  The two differ: the  *)
(* operator runs one manager for all members, the unit tests run managers  *)
(* that are not members at all.                                            *)
(*                                                                         *)
(* Messages are ConfigMaps.  They are never deleted, so the mailbox is a   *)
(* set that only grows and a message can be handled late, twice or never.  *)
(* No code of the repository reads them back: Dispatch says whether an     *)
(* external reader hands them to the handlers.                             *)
(*                                                                         *)
(* A definition named for a defect (..IgnoresError, ..AnyTerm) that stands *)
(* before the definition without it is a mutant: no specification uses it. *)
(***************************************************************************)
EXTENDS Integers, Sequences, FiniteSets

CONSTANTS Managers, Members, None, Dispatch,
          MaxTerm,      \* bound: elections stop at this term
          MaxPending,   \* bound: heartbeat goroutines in flight per peer
          MaxFailures,  \* bound: API-server calls that fail
          MaxRestarts   \* bound: restarts of each manager's process

ASSUME ConstantsAssumption ==
    /\ IsFiniteSet(Members)
    /\ None \notin Managers
    /\ Dispatch \in BOOLEAN
    /\ MaxTerm \in Nat /\ MaxPending \in Nat
    /\ MaxFailures \in Nat /\ MaxRestarts \in Nat

Follower  == "follower"
Candidate == "candidate"
Leader    == "leader"

VARIABLES
    state, currentTerm, votedFor,   \* the fields of RaftManager, per manager
    log, commitIndex, nextIndex,    \* a log is the sequence of its terms
    recent,      \* lastHeartbeat lies within the last electionTimeout
    unsent,      \* vote goroutines of an election that have not sent yet
    posted,      \* vote goroutines that sent and wait for the mutex
    counted,     \* vote goroutines whose increment of votes is done
    pending,     \* sendAppendEntries goroutines in flight, per peer
    mailbox,     \* the raft-message ConfigMaps
    cluster,     \* each manager's in-memory copy of the resource's status
    crd,         \* the status stored by the API server
    fresh,       \* the copy carries the stored resourceVersion
    failures, restarts,
    lastVote,    \* history: the last vote cast, and whether a heartbeat
                 \* cleared it; it outlives the process
    lastLed      \* history: the last term in which leadership was assumed
                 \* and the life of the process; it outlives the process

roleVars   == <<state, currentTerm, votedFor, recent>>
logVars    == <<log, commitIndex>>
voteVars   == <<unsent, posted, counted>>
statusVars == <<cluster, crd, fresh>>
history    == <<lastVote, lastLed>>
vars == <<roleVars, logVars, nextIndex, voteVars, pending, mailbox,
          statusVars, failures, restarts, history>>

Elections == 1..MaxTerm
Peers(n)  == Members \ {n}
Majority  == Cardinality(Members) \div 2 + 1

NoVote     == [life |-> 0, term |-> 0, candidate |-> None, cleared |-> FALSE]
NeverLed   == [life |-> 0, term |-> 0]
NoStatus   == [leader |-> None, term |-> 0, size |-> 0]
Goroutines == [e \in Elections |-> {}]

----------------------------------------------------------------------------
(* Messages (sendVoteRequest, sendAppendEntries).  An append_entries       *)
(* message carries the number of entries, never the entries.               *)

LastLogTerm(n) == IF Len(log[n]) > 0 THEN log[n][Len(log[n])] ELSE 0

VoteRequest(n, p) ==
    [type |-> "vote_request", from |-> n, to |-> p, term |-> currentTerm[n],
     lastLogIndex |-> Len(log[n]), lastLogTerm |-> LastLogTerm(n)]

PrevLogTerm(n, i) == IF i > 0 /\ i <= Len(log[n]) THEN log[n][i] ELSE 0

AppendEntriesWithOne(n, p) ==
    LET prev == nextIndex[n][p] - 1
    IN [type |-> "append_entries", from |-> n, to |-> p,
        term |-> currentTerm[n], prevLogIndex |-> prev,
        prevLogTerm |-> PrevLogTerm(n, prev),
        leaderCommit |-> commitIndex[n], entriesCount |-> 1]

AppendEntries(n, p) ==
    LET prev == nextIndex[n][p] - 1
    IN [type |-> "append_entries", from |-> n, to |-> p,
        term |-> currentTerm[n], prevLogIndex |-> prev,
        prevLogTerm |-> PrevLogTerm(n, prev),
        leaderCommit |-> commitIndex[n], entriesCount |-> 0]

(* The entries a reader of the ConfigMap can rebuild from entriesCount.    *)
Entries(m) == [i \in 1..m.entriesCount |-> m.term]

(* sendMessage: one Create call on the API server, which may fail.         *)
Create(m) == mailbox' = mailbox \cup {m} /\ UNCHANGED failures

CreateFails ==
    /\ failures < MaxFailures
    /\ failures' = failures + 1
    /\ UNCHANGED mailbox

----------------------------------------------------------------------------
(* updateClusterStatus.  The manager rewrites its copy of the status and   *)
(* sends it with Status().Update, whose error nobody looks at.  The API    *)
(* server stores it only if the copy carries the stored resourceVersion;   *)
(* the new version goes to the writer alone.  That a store succeeds at all *)
(* over-approximates a cluster with the repository's own CRD, which knows  *)
(* no raftLeader and raftTerm and requires a status.slaves nobody assigns: *)
(* there every update is refused.                                          *)

StatusStoredAlways(n, s) ==
    /\ crd' = s
    /\ fresh' = [m \in Managers |-> m = n]
    /\ UNCHANGED failures

StatusStored(n, s) ==
    /\ fresh[n]
    /\ crd' = s
    /\ fresh' = [m \in Managers |-> m = n]
    /\ UNCHANGED failures

StatusRefused(n) ==
    /\ \/ ~fresh[n] /\ UNCHANGED failures
       \/ failures < MaxFailures /\ failures' = failures + 1
    /\ UNCHANGED <<crd, fresh>>

LeaderStatus(n) ==
    [leader |-> n, term |-> currentTerm[n], size |-> Cardinality(Members)]

UpdateClusterStatus(n) ==
    /\ cluster' = [cluster EXCEPT ![n] = LeaderStatus(n)]
    /\ StatusStored(n, LeaderStatus(n)) \/ StatusRefused(n)

----------------------------------------------------------------------------
(* NewRaftManager.                                                         *)
Init ==
    /\ state = [n \in Managers |-> Follower]
    /\ currentTerm = [n \in Managers |-> 0]
    /\ votedFor = [n \in Managers |-> None]
    /\ log = [n \in Managers |-> <<>>]
    /\ commitIndex = [n \in Managers |-> 0]
    /\ nextIndex = [n \in Managers |-> [p \in Members |-> 0]]
    /\ recent = [n \in Managers |-> TRUE]
    /\ unsent = [n \in Managers |-> Goroutines]
    /\ posted = [n \in Managers |-> Goroutines]
    /\ counted = [n \in Managers |-> Goroutines]
    /\ pending = [n \in Managers |-> [p \in Members |-> 0]]
    /\ mailbox = {}
    /\ cluster = [n \in Managers |-> NoStatus]
    /\ crd = NoStatus
    /\ fresh = [n \in Managers |-> TRUE]
    /\ failures = 0
    /\ restarts = [n \in Managers |-> 0]
    /\ lastVote = [n \in Managers |-> NoVote]
    /\ lastLed = [n \in Managers |-> NeverLed]

----------------------------------------------------------------------------
(* Elections.                                                              *)

(* Time passes: electionTimeout has gone by since lastHeartbeat.           *)
HeartbeatExpires(n) ==
    /\ recent[n]
    /\ recent' = [recent EXCEPT ![n] = FALSE]
    /\ UNCHANGED <<state, currentTerm, votedFor, logVars, nextIndex, voteVars,
                   pending, mailbox, statusVars, failures, restarts, history>>

(* startElection, under the mutex: one goroutine per peer is spawned.      *)
StartElection(n) ==
    /\ state' = [state EXCEPT ![n] = Candidate]
    /\ votedFor' = [votedFor EXCEPT ![n] = n]
    /\ recent' = [recent EXCEPT ![n] = TRUE]
    /\ currentTerm' = [currentTerm EXCEPT ![n] = @ + 1]
    /\ unsent' = [unsent EXCEPT ![n][currentTerm[n] + 1] = Peers(n)]
    /\ lastVote' = [lastVote EXCEPT ![n] =
           [life |-> restarts[n], term |-> currentTerm[n] + 1,
            candidate |-> n, cleared |-> FALSE]]

(* runElectionTimer: the timer fires and the condition is re-read under    *)
(* the mutex.                                                              *)
ElectionTimeout(n) ==
    /\ state[n] # Leader
    /\ ~recent[n]
    /\ currentTerm[n] < MaxTerm
    /\ StartElection(n)
    /\ UNCHANGED <<logVars, nextIndex, posted, counted, pending, mailbox,
                   statusVars, failures, restarts, lastLed>>

(* A vote goroutine reads term and log without the mutex, so they may      *)
(* belong to a later election than the goroutine's own; then it posts.     *)
SendVoteRequestIgnoresError(n, e, p) ==
    /\ p \in unsent[n][e]
    /\ unsent' = [unsent EXCEPT ![n][e] = @ \ {p}]
    /\ Create(VoteRequest(n, p)) \/ CreateFails
    /\ posted' = [posted EXCEPT ![n][e] = @ \cup {p}]
    /\ UNCHANGED <<roleVars, logVars, nextIndex, counted, pending, statusVars,
                   restarts, history>>

SendVoteRequest(n, e, p) ==
    /\ p \in unsent[n][e]
    /\ unsent' = [unsent EXCEPT ![n][e] = @ \ {p}]
    /\ \/ /\ Create(VoteRequest(n, p))
          /\ posted' = [posted EXCEPT ![n][e] = @ \cup {p}]
       \/ CreateFails /\ UNCHANGED posted
    /\ UNCHANGED <<roleVars, logVars, nextIndex, counted, pending, statusVars,
                   restarts, history>>

(* sendHeartbeats: one more sendAppendEntries goroutine for each peer.     *)
SpawnHeartbeats(n) ==
    pending' = [pending EXCEPT ![n] = [p \in Members |->
        IF p \in Peers(n) /\ @[p] < MaxPending THEN @[p] + 1 ELSE @[p]]]

FirstNextIndexTooLow(n) == Len(log[n]) - 1

FirstNextIndex(n) == Len(log[n]) + 1

BecomeLeader(n) ==
    /\ state' = [state EXCEPT ![n] = Leader]
    /\ nextIndex' = [nextIndex EXCEPT ![n] = [p \in Members |->
           IF p \in Peers(n) THEN FirstNextIndex(n) ELSE @[p]]]
    /\ SpawnHeartbeats(n)
    /\ UpdateClusterStatus(n)
    /\ lastLed' = [lastLed EXCEPT ![n] =
           [life |-> restarts[n], term |-> currentTerm[n]]]

(* votes >= majority && state == Candidate, after votes++ in election e.   *)
WinsInAnyState(n, e) == 1 + Cardinality(counted[n][e]) + 1 >= Majority

WinsAboveMajority(n, e) ==
    1 + Cardinality(counted[n][e]) + 1 > Majority /\ state[n] = Candidate

WinsElection(n, e) ==
    /\ 1 + Cardinality(counted[n][e]) + 1 >= Majority
    /\ state[n] = Candidate

(* The goroutine of election e gets the mutex and counts its own Create    *)
(* as a vote.                                                              *)
CountVote(n, e, p) ==
    /\ p \in posted[n][e]
    /\ posted' = [posted EXCEPT ![n][e] = @ \ {p}]
    /\ counted' = [counted EXCEPT ![n][e] = @ \cup {p}]
    /\ \/ WinsElection(n, e) /\ BecomeLeader(n)
       \/ /\ ~WinsElection(n, e)
          /\ UNCHANGED <<state, nextIndex, pending, statusVars, failures,
                         lastLed>>
    /\ UNCHANGED <<currentTerm, votedFor, recent, logVars, unsent, mailbox,
                   restarts, lastVote>>

----------------------------------------------------------------------------
(* Heartbeats.                                                             *)

(* runHeartbeatTimer.                                                      *)
HeartbeatTickAnyState(n) ==
    /\ SpawnHeartbeats(n)
    /\ UNCHANGED <<roleVars, logVars, nextIndex, voteVars, mailbox,
                   statusVars, failures, restarts, history>>

HeartbeatTick(n) ==
    /\ state[n] = Leader
    /\ SpawnHeartbeats(n)
    /\ UNCHANGED <<roleVars, logVars, nextIndex, voteVars, mailbox,
                   statusVars, failures, restarts, history>>

(* The goroutine reads the manager's term when it runs, not when it was    *)
(* spawned, and does not look at the state again.                          *)
SendAppendEntries(n, p) ==
    /\ pending[n][p] > 0
    /\ pending' = [pending EXCEPT ![n][p] = @ - 1]
    /\ Create(AppendEntries(n, p)) \/ CreateFails
    /\ UNCHANGED <<roleVars, logVars, nextIndex, voteVars, statusVars,
                   restarts, history>>

----------------------------------------------------------------------------
(* The handlers.  A refused request that changes no field is a stutter.    *)

VoteAvailableToAll(n, m) == TRUE

VoteAvailable(n, m) ==
    m.term > currentTerm[n] \/ votedFor[n] \in {None, m.from}

LogUpToDate(n, m) ==
    \/ m.lastLogTerm > LastLogTerm(n)
    \/ m.lastLogTerm = LastLogTerm(n) /\ m.lastLogIndex >= Len(log[n])

HandleVoteRequestAnyTerm(n, m) ==
    /\ Dispatch
    /\ m.type = "vote_request" /\ m.to = n
    /\ state' = [state EXCEPT ![n] =
           IF m.term > currentTerm[n] THEN Follower ELSE @]
    /\ currentTerm' = [currentTerm EXCEPT ![n] = m.term]
    /\ votedFor' = [votedFor EXCEPT ![n] = m.from]
    /\ recent' = [recent EXCEPT ![n] = TRUE]
    /\ lastVote' = [lastVote EXCEPT ![n] =
           [life |-> restarts[n], term |-> m.term, candidate |-> m.from,
            cleared |-> FALSE]]
    /\ UNCHANGED <<logVars, nextIndex, voteVars, pending, mailbox,
                   statusVars, failures, restarts, lastLed>>

HandleVoteRequest(n, m) ==
    LET newer == m.term > currentTerm[n]
        grant == VoteAvailable(n, m) /\ LogUpToDate(n, m)
    IN /\ Dispatch
       /\ m.type = "vote_request" /\ m.to = n
       /\ m.term >= currentTerm[n]
       /\ currentTerm' = [currentTerm EXCEPT ![n] = m.term]
       /\ state' = [state EXCEPT ![n] = IF newer THEN Follower ELSE @]
       /\ votedFor' = [votedFor EXCEPT ![n] =
              IF grant THEN m.from ELSE IF newer THEN None ELSE @]
       /\ recent' = [recent EXCEPT ![n] = grant \/ @]
       /\ lastVote' = [lastVote EXCEPT ![n] = IF grant
              THEN [life |-> restarts[n], term |-> m.term,
                    candidate |-> m.from, cleared |-> FALSE]
              ELSE @]
       /\ UNCHANGED <<logVars, nextIndex, voteVars, pending, mailbox,
                      statusVars, failures, restarts, lastLed>>

(* The log part of HandleAppendEntries.                                    *)
LogMatches(n, m) ==
    \/ m.prevLogIndex <= 0
    \/ /\ m.prevLogIndex <= Len(log[n])
       /\ log[n][m.prevLogIndex] = m.prevLogTerm

AppendToLog(n, m) ==
    /\ log' = [log EXCEPT ![n] = IF m.entriesCount > 0
           THEN SubSeq(@, 1, m.prevLogIndex) \o Entries(m) ELSE @]
    /\ commitIndex' = [commitIndex EXCEPT ![n] = IF m.leaderCommit > @
           THEN IF m.leaderCommit < Len(log'[n])
                THEN m.leaderCommit ELSE Len(log'[n])
           ELSE @]

(* A refused heartbeat still pushes the election timer back.  An accepted  *)
(* one, of the manager's own term too, deposes it and forgets its vote.    *)
HandleAppendEntriesKeepsState(n, m) ==
    /\ Dispatch
    /\ m.type = "append_entries" /\ m.to = n
    /\ recent' = [recent EXCEPT ![n] = TRUE]
    /\ m.term >= currentTerm[n]
    /\ currentTerm' = [currentTerm EXCEPT ![n] = m.term]
    /\ votedFor' = [votedFor EXCEPT ![n] = None]
    /\ UNCHANGED <<state, lastVote, logVars, nextIndex, voteVars, pending,
                   mailbox, statusVars, failures, restarts, lastLed>>

HandleAppendEntries(n, m) ==
    /\ Dispatch
    /\ m.type = "append_entries" /\ m.to = n
    /\ recent' = [recent EXCEPT ![n] = TRUE]
    /\ \/ /\ m.term < currentTerm[n]
          /\ UNCHANGED <<state, currentTerm, votedFor, lastVote, logVars>>
       \/ /\ m.term >= currentTerm[n]
          /\ currentTerm' = [currentTerm EXCEPT ![n] = m.term]
          /\ state' = [state EXCEPT ![n] = Follower]
          /\ votedFor' = [votedFor EXCEPT ![n] = None]
          /\ lastVote' = [lastVote EXCEPT ![n] =
                 [life |-> @.life, term |-> @.term,
                  candidate |-> @.candidate, cleared |-> TRUE]]
          /\ IF LogMatches(n, m) THEN AppendToLog(n, m) ELSE UNCHANGED logVars
    /\ UNCHANGED <<nextIndex, voteVars, pending, mailbox, statusVars,
                   failures, restarts, lastLed>>

----------------------------------------------------------------------------
(* The rest of the environment.                                            *)

(* HandleRaftBasedFailover: a manager that does not lead is turned into a  *)
(* follower whose lastHeartbeat is the zero time.  The guard on the term   *)
(* is a bound, not a condition of the code: an election forced in the last *)
(* term could not be held.  The last election is therefore never disturbed *)
(* by another call, which ImplementsLeaderView relies on.                  *)
ForceElection(n) ==
    /\ state[n] # Leader
    /\ currentTerm[n] < MaxTerm
    /\ state' = [state EXCEPT ![n] = Follower]
    /\ recent' = [recent EXCEPT ![n] = FALSE]
    /\ UNCHANGED <<currentTerm, votedFor, logVars, nextIndex, voteVars,
                   pending, mailbox, statusVars, failures, restarts, history>>

(* The operator process ends and starts again: nothing was persisted, the  *)
(* goroutines are gone, and the resource is read anew.                     *)
Restart(n) ==
    /\ restarts[n] < MaxRestarts
    /\ restarts' = [restarts EXCEPT ![n] = @ + 1]
    /\ state' = [state EXCEPT ![n] = Follower]
    /\ currentTerm' = [currentTerm EXCEPT ![n] = 0]
    /\ votedFor' = [votedFor EXCEPT ![n] = None]
    /\ recent' = [recent EXCEPT ![n] = TRUE]
    /\ log' = [log EXCEPT ![n] = <<>>]
    /\ commitIndex' = [commitIndex EXCEPT ![n] = 0]
    /\ nextIndex' = [nextIndex EXCEPT ![n] = [p \in Members |-> 0]]
    /\ unsent' = [unsent EXCEPT ![n] = Goroutines]
    /\ posted' = [posted EXCEPT ![n] = Goroutines]
    /\ counted' = [counted EXCEPT ![n] = Goroutines]
    /\ pending' = [pending EXCEPT ![n] = [p \in Members |-> 0]]
    /\ cluster' = [cluster EXCEPT ![n] = crd]
    /\ fresh' = [fresh EXCEPT ![n] = TRUE]
    /\ UNCHANGED <<mailbox, crd, failures, history>>

(* Another client writes the resource: every copy's version is outdated.   *)
ClusterEdited ==
    /\ fresh' = [n \in Managers |-> FALSE]
    /\ UNCHANGED <<roleVars, logVars, nextIndex, voteVars, pending, mailbox,
                   cluster, crd, failures, restarts, history>>

RunningStep(n) ==
    \/ HeartbeatExpires(n)
    \/ ElectionTimeout(n)
    \/ \E e \in Elections, p \in Members :
           SendVoteRequest(n, e, p) \/ CountVote(n, e, p)
    \/ HeartbeatTick(n)
    \/ \E p \in Members : SendAppendEntries(n, p)
    \/ \E m \in mailbox : HandleVoteRequest(n, m) \/ HandleAppendEntries(n, m)
    \/ ForceElection(n)

Next ==
    \/ \E n \in Managers : RunningStep(n) \/ Restart(n)
    \/ ClusterEdited

Spec == Init /\ [][Next]_vars

(* Go schedules every goroutine and timers fire; nothing obliges anyone to *)
(* force an election, restart, or fail.                                    *)
Fairness ==
    \A n \in Managers :
        /\ WF_vars(HeartbeatExpires(n))
        /\ WF_vars(ElectionTimeout(n))
        /\ WF_vars(HeartbeatTick(n))
        /\ \A p \in Members : WF_vars(SendAppendEntries(n, p))
        /\ \A e \in Elections, p \in Members :
               /\ WF_vars(SendVoteRequest(n, e, p))
               /\ WF_vars(CountVote(n, e, p))

FairSpec == Spec /\ Fairness

----------------------------------------------------------------------------
(* Properties.                                                             *)

VoteRequestType ==
    [type : {"vote_request"}, from : Managers, to : Members,
     term : 1..MaxTerm, lastLogIndex : Nat, lastLogTerm : Nat]

AppendEntriesType ==
    [type : {"append_entries"}, from : Managers, to : Members,
     term : 0..MaxTerm, prevLogIndex : Nat, prevLogTerm : Nat,
     leaderCommit : Nat, entriesCount : Nat]

StatusType ==
    [leader : Managers \cup {None}, term : 0..MaxTerm, size : Nat]

VoteType ==
    [life : 0..MaxRestarts, term : 0..MaxTerm,
     candidate : Managers \cup {None}, cleared : BOOLEAN]

LedType == [life : 0..MaxRestarts, term : 0..MaxTerm]

(* Every variable keeps its type.  Two parts are more than declarations:   *)
(* no vote is asked for in term 0, and prevLogIndex, with which the        *)
(* receiver slices its log, is never negative.                             *)
TypeOK ==
    /\ state \in [Managers -> {Follower, Candidate, Leader}]
    /\ currentTerm \in [Managers -> 0..MaxTerm]
    /\ votedFor \in [Managers -> Managers \cup {None}]
    /\ log \in [Managers -> Seq(Nat)]
    /\ commitIndex \in [Managers -> Nat]
    /\ nextIndex \in [Managers -> [Members -> Nat]]
    /\ recent \in [Managers -> BOOLEAN]
    /\ unsent \in [Managers -> [Elections -> SUBSET Members]]
    /\ posted \in [Managers -> [Elections -> SUBSET Members]]
    /\ counted \in [Managers -> [Elections -> SUBSET Members]]
    /\ pending \in [Managers -> [Members -> 0..MaxPending]]
    /\ mailbox \subseteq VoteRequestType \cup AppendEntriesType
    /\ cluster \in [Managers -> StatusType]
    /\ crd \in StatusType
    /\ fresh \in [Managers -> BOOLEAN]
    /\ failures \in 0..MaxFailures
    /\ restarts \in [Managers -> 0..MaxRestarts]
    /\ lastVote \in [Managers -> VoteType]
    /\ lastLed \in [Managers -> LedType]

(* A manager that campaigns or leads still holds its own vote: no late     *)
(* vote_request or heartbeat takes the vote away and leaves the role       *)
(* (HandleVoteRequest and HandleAppendEntries change the two together).    *)
CandidateHoldsOwnVote ==
    \A n \in Managers : state[n] # Follower => votedFor[n] = n

(* The peers a manager has asked for a vote in a term up to t.  Earlier    *)
(* terms, and requests of an earlier life of the process, are included on  *)
(* purpose: votes of a late goroutine count for the election under way     *)
(* (raft.go:152-155 look at the state and not at the term), so a majority  *)
(* asked in this very election is more than the code ensures.              *)
Asked(n, t) ==
    {p \in Peers(n) : \E m \in mailbox :
        m.type = "vote_request" /\ m.from = n /\ m.to = p /\ m.term <= t}

Backed(n, t) ==
    /\ Asked(n, t) # {}
    /\ 1 + Cardinality(Asked(n, t)) >= Majority

(* However the vote goroutines of old and new elections interleave with    *)
(* heartbeats and forced elections, a manager leads only after messages    *)
(* to a majority, itself included, were stored; with a single replica      *)
(* there is no peer to ask and nobody ever leads (startElection tests the  *)
(* majority only inside the goroutines of the peers).                      *)
LeadershipBacked ==
    \A n \in Managers : state[n] = Leader => Backed(n, currentTerm[n])

(* The same of what others see of leadership: a stored append_entries      *)
(* message, though it may be sent after the sender was deposed and carry   *)
(* a later term, and the leader and term stored in the resource's status.  *)
AnnouncedLeadersBacked ==
    /\ \A m \in mailbox : m.type = "append_entries" => Backed(m.from, m.term)
    /\ crd.leader # None => Backed(crd.leader, crd.term)

(* No step but the process's own restart takes a manager back to a smaller *)
(* term: not a stale message, not a late goroutine.                        *)
TermNeverDecreases ==
    [][\A n \in Managers :
         currentTerm'[n] < currentTerm[n] => restarts'[n] > restarts[n]]_vars

(* In one life of its process a manager assumes leadership at most once in *)
(* a term: a goroutine of an old election that counts its vote late never  *)
(* re-elects a manager that was deposed in that term.  Across a restart    *)
(* the same term is led again: the term is kept in memory only and starts  *)
(* at 0 (raft.go:68), which is the exception the second conjunct states.   *)
LeadsTermOnce ==
    [][\A n \in Managers :
         /\ state[n] # Leader /\ state'[n] = Leader
         /\ lastLed[n].life = restarts[n]
         => currentTerm'[n] > lastLed[n].term]_vars

(* In one life of its process a manager votes for two candidates in one    *)
(* term only if an accepted append_entries made it forget the first vote   *)
(* in between.  A restart is the other way to vote twice: votedFor and the *)
(* term are not persisted (raft.go:68-69) while the old requests are, so   *)
(* the two votes compared are those of the same life.                      *)
RevoteNeedsHeartbeat ==
    [][\A n \in Managers :
         /\ lastVote'[n].life = lastVote[n].life
         /\ lastVote'[n].term = lastVote[n].term
         /\ lastVote'[n].candidate # lastVote[n].candidate
         => lastVote[n].cleared]_vars

(* The optimistic lock of the API server makes the first publisher the     *)
(* only one: until some process restarts and reads the resource again, the *)
(* stored status never changes hands and its term never goes back.         *)
SolePublisher ==
    [][ \/ crd' = crd
        \/ crd.leader = None
        \/ crd'.leader = crd.leader /\ crd'.term > crd.term
        \/ \E n \in Managers : restarts[n] > 0]_vars

(* The code never gives sendAppendEntries an entry, so no sequence of      *)
(* elections and heartbeats moves a log or a commit index.  This is what   *)
(* the code does and not what is said of it: README.md:31 and              *)
(* RAFT_DEPLOYMENT_GUIDE.md:155-156 and :283 have configuration changes    *)
(* recorded in the log and replicated, and TestRaftLogReplication expects  *)
(* log index 1 after an append that a helper of the test itself makes.     *)
LogInert ==
    /\ \A n \in Managers : log[n] = <<>> /\ commitIndex[n] = 0
    /\ \A m \in mailbox :
           m.type = "append_entries" => m.prevLogIndex = 0

View == INSTANCE LeaderView WITH
            leading <- [n \in Managers |-> state[n] = Leader],
            epoch <- restarts

(* With no reader of the messages, as in the operator, the detailed        *)
(* manager implements LeaderView: it leads until its process ends, and is  *)
(* elected in the end.  API failures, forced elections and goroutines of   *)
(* superseded elections do not prevent that as long as fewer calls fail    *)
(* than there are votes to spare.                                          *)
ImplementsLeaderView == View!FairSpec

----------------------------------------------------------------------------
(* A statement of the documentation that the code does not meet.           *)

(* README.md:21 and RAFT_DEPLOYMENT_GUIDE.md:171 promise at most one       *)
(* leader, and test/raft_test.go:106 counts them.                          *)
OneLeaderPerTerm ==
    \A n, k \in Managers :
        /\ state[n] = Leader /\ state[k] = Leader
        /\ currentTerm[n] = currentTerm[k]
        => n = k
============================================================================
