# TLA+ models of the Raft-based MySQL cluster operator

This directory holds the formal models of the operator in `internal/controller`:
the Raft manager that is to decide who leads, the monitor that publishes its
status and metrics, the fail-over that follows an election, the reconciler that
creates pods and sets up replication, and the older election by data.  TLC
checks the models on small instances; TLAPS proves their safety properties for
every instance.  Paths and line numbers in this file are those of the
repository; `PROJECT.json` maps every definition to its lines.

## 1. The system

| Component | Code | State it keeps | Operations |
|---|---|---|---|
| Raft manager | `raft.go` | `state`, `currentTerm`, `votedFor`, `log`, `commitIndex`, `nextIndex`, `lastHeartbeat`, all in memory | election timer, `startElection` with one goroutine per peer, `becomeLeader`, heartbeat timer, `sendAppendEntries`, `HandleVoteRequest`, `HandleAppendEntries`, `updateClusterStatus` |
| Raft monitor | `raft_monitoring.go` | none of its own | `syncClusterStatus` every 10 s, `collectMetrics` every 30 s, `healthCheck` every 5 s |
| Reconciler | `mysqlcluster_controller.go`, `initialization.go`, `reconcile_replicas.go`, `reconcile_master_slave.go`, `utlis.go` | Kubernetes objects, the `initialized` annotation, role labels, the slave threads of the MySQL servers | `Reconcile`, `init`, `reconcileReplicas`, `reconcileRaftBasedMasterSlave`, `setupMasterSlaveReplication`, `ensureSlaveRoles` |
| Raft-MySQL integration | `raft_mysql_integration.go` | none of its own | `HandleRaftBasedFailover`: forced election, role labels, semi-sync set-up |
| Legacy master election | `elect_new_master.go`, part of `reconcile_master_slave.go` | `MasterGTIDSnapshot` | `reconcileMasterSlave`, `handleMasterFailure`, `electNewMaster` and its scores, the snapshot goroutine |
| API types | `api/v1` | the stored resource | generated deep copies |
| Entry point | `cmd/main.go` | - | sets up the controller manager |

How they interact:

- `Reconcile` starts one `RaftManager` for the whole cluster and reads its
  `state` field to decide whether to repair replication.
- The managers talk through ConfigMaps.  `sendMessage` creates one for every
  vote request and heartbeat; nothing deletes them, and **nothing in the
  repository reads them back**: nothing calls the two handlers, the tests do
  not either.
- Manager and monitor share one in-memory copy of the resource and both write
  its status with `Status().Update`, one of them under the mutex.  The CRD of the
  repository (`config/crd/bases/apps.egonlin.com_mysqlclusters.yaml:104-116`) was
  not generated from these types: it knows neither `raftLeader` nor `raftTerm`
  and requires an array `slaves`, which nothing assigns and which is encoded as
  null.  An API server with this CRD refuses every status write.
- `Reconcile` starts the snapshot goroutine, but calls
  `reconcileRaftBasedMasterSlave` in the place of `reconcileMasterSlave`: the
  election by data that README.md:27 advertises is complete and unused.
- The fail-over takes the names of Raft nodes (`<cluster>-0`) for names of pods;
  the operator creates `mysql-01` and so on.
- The master is known through the Endpoints of the master service, which the
  Endpoints controller derives, with a delay, from labels and readiness.

What is hard here: goroutines of superseded elections that take the mutex late;
fields read without it; messages handled late, twice or in the wrong order;
status writes that race and are refused; Endpoints that lag behind; any of some
dozen API calls of a run failing; pods deleted while the worker waits for them;
restarts that lose all Raft state.  `PROJECT.json` lists each such hazard with
the properties that watch it.

What makes the parts correct:

- **Raft manager**: only a backed manager leads or is announced as leader; within
  one life of the process a term is led once, and terms and votes only move
  forward; the stored status does not change hands behind its owner's back;
  somebody is elected in the end.
- **Monitor**: what it writes beside the manager never names an unbacked leader,
  nor do its metrics, and takes the stored term back at most after a restart.
- **Fail-over**: it ends; only the node that leads becomes master; a success
  leaves one master.
- **Election by data**: a lost master is replaced; two masters do not last; the
  best candidate wins, by the measure the code really uses.
- **Reconciler**: storage before pods, never two masters, the master keeps its
  label, the annotation means what it says, and the cluster settles.

The repository does not compile as it stands (among others `rm.ctx`, `rm.Create`
and `heartbeatTimeout` do not exist, and some literals set fields their types
lack).  The models follow the evident intent of those lines and nothing else.

## 2. Modules

| Module | Models | Uses |
|---|---|---|
| `LeaderView` | abstract: what the reconciler relies on in its Raft manager | - |
| `RaftManager` | `raft.go`, the forced election of `raft_mysql_integration.go` | `INSTANCE LeaderView` |
| `RaftMonitor` | `syncClusterStatus` beside the manager | `EXTENDS RaftManager` |
| `RaftMetrics` | `collectMetrics` beside the manager | `EXTENDS RaftManager` |
| `RaftIntegration` | `HandleRaftBasedFailover` and all it calls | `EXTENDS LeaderView` as its manager |
| `MysqlReconciler` | `Reconcile` and all it calls, with the cluster around it | the promise of `LeaderView`, as fairness of `LeaderElected` |
| `MasterElection` | `reconcileMasterSlave`, `electNewMaster`, the snapshot goroutine | `EXTENDS MysqlReconciler` |
| `RaftManagerProofs` | theorems about `RaftManager` | `EXTENDS RaftManager`, `FiniteSetTheorems` |
| `RaftMetricsProofs` | theorems about `RaftMetrics` | `EXTENDS RaftMetrics`, `RaftManagerProofs` |
| `RaftMonitorProofs` | theorems about `RaftMonitor` | `EXTENDS RaftMonitor`, `RaftManagerProofs` |
| `RaftIntegrationProofs` | theorems about `RaftIntegration` | `EXTENDS RaftIntegration` |
| `MysqlReconcilerProofs` | theorems about `MysqlReconciler` | `EXTENDS MysqlReconciler` |
| `MasterElectionProofs` | theorems about `MasterElection` | `EXTENDS MasterElection`, `MysqlReconcilerProofs`, `FiniteSetTheorems` |
| `MC*` | sets and budgets for TLC | the module of the same name |

A definition that is named for a defect and stands directly before the
definition without it (`WinsInAnyState` before `WinsElection`) is a *mutant*:
no specification uses it.  Replacing the definition by it must violate the
property it is listed for in `PROJECT.json`; this shows that the property
depends on that code.

### RaftManager

`Managers` are the processes that run a manager, `Members` the names that
`getClusterNodes` derives from `spec.replicas`.  The operator has one manager
for all members.  `Dispatch` says whether some reader, which the repository does
not have, hands the ConfigMaps to the handlers.

| Code | Model |
|---|---|
| `votes` and the goroutines of `startElection` | `unsent`, `posted`, `counted`: sets of peers per election; `votes` is 1 + the size of `counted` |
| `time.Since(lastHeartbeat) > electionTimeout` | `~recent`; `HeartbeatExpires` lets the time pass |
| the critical section of the timer and `startElection` | `ElectionTimeout`, one step |
| `sendVoteRequest` outside the mutex | `SendVoteRequest`, which reads the term of the moment |
| `votes++` and the majority test | `CountVote`, which may become leader of a *later* election than its own |
| `becomeLeader`, with `sendHeartbeats` and `updateClusterStatus` | `BecomeLeader`, one step, since the mutex is held |
| `sendAppendEntries` goroutines | `pending`, a number per peer |
| ConfigMaps | `mailbox`, a set that only grows |
| `Status().Update` | `StatusStored` or `StatusRefused`; `fresh` stands for the comparison of resource versions |
| process end, or the runtime's fatal error on concurrent map access | `Restart` |
| any other writer of the resource | `ClusterEdited` |

Simplifications and why they are safe:

- A goroutine reads the fields and creates its ConfigMap in one step.  A read
  followed later by the Create yields a message that the atomic step could have
  sent at the time of the read.
- Fields that no code reads (`matchIndex`, `leaderId`, `electionCount`,
  `lastApplied`, `peers`) are left out.
- An `append_entries` ConfigMap carries only the number of entries, which is
  always 0; `Entries` is what a reader could rebuild from it.
- `lastVote` and `lastLed` are history variables.  They are in no guard.  They
  name the life of the process (`restarts`) in which the manager voted or led,
  and `Restart` leaves them alone, since it changes nothing that has happened.
- `StatusStored` can succeed.  With the CRD of the repository it never does
  (section 1), so every stored status of the model stands for a cluster whose
  CRD was generated from `api/v1`.  The safety theorems hold for any number of
  refused writes, all of them included; of the findings only `monitor_status`
  needs a success, and with the repository's CRD the leader's name is not stored
  in the first place.
- `Asked` counts the requests of this and of earlier terms and lives, as the
  code does: a goroutine of an old election may complete the count of a newer
  one.  `LeadershipBacked` is therefore weaker than a majority of one election.

### RaftMonitor

`syncClusterStatus` takes three steps: it rewrites the shared status under the
read lock (`SyncLocal`), and after unlocking the JSON encoder reads `raftLeader`
first (`SyncEncode`) and the other fields later (`SyncPublish`), so a torn
status can be stored.

### RaftMetrics

`gatherMetrics` reads the manager under the read lock (`GatherMetrics`), and
`createOrUpdateConfigMap` stores the result later or not at all
(`StoreMetrics`).  Of the metrics the model keeps the term in which they show a
leader; the others are read from fields that are never assigned, or never move.

### RaftIntegration

One step to each API call of `HandleRaftBasedFailover`.  The manager is
`LeaderView`, which `RaftManager` implements, so that the wait for a leader is
`ElectionCompleted` or `ElectionTimedOut` at any time.  `current` stands for the
resourceVersion between Get and Update.  The integration's own
`execCommandOnPod` is a stub that returns the empty string, hence SQL has no
effect and `VerifySemiSyncStatus` always fails, which is only logged.  A pod
without any label would make the assignment to `pod.Labels` panic
(raft_mysql_integration.go:265, :304); the process then ends where
`ProcessRestarts` may end it anyway.

For the operator's own pods the first lookup fails (`Failover` in
`MysqlReconciler`).  This module asks what the code does where its names are
right: any of the members may exist as pods, as README.md:199 names them.

### MasterElection

The reconciler with `reconcileMasterSlave` put back where `Reconcile` used to
call it, starting from a cluster that a first run has set up.  Each server has
the transactions it executed and those in its relay log; `GtidText` is what
`grep`, `awk` and the split at commas make of the output of MySQL.

| Code | Model |
|---|---|
| the loop of `electNewMaster` | `ElectNewMaster`, then `ReadSnapshot` and `GetDataScore` for each slave in any order |
| `r.MasterGTIDSnapshot`, read and written without a lock | `ReadSnapshot` sees the old, the new or a torn string while the goroutine is about to write; `TornTexts`: some of the items of one of them and possibly a piece of another item |
| the scores | `GtidScore` of the text that was read (in sixths, since at most three items occur), `DataScore`, `FinalScore` |
| `handleMasterFailure` | the same steps of `setupMasterSlaveReplication` that the reconciler takes, returning to `"done"` |
| `startAndUpdateGTIDSnapshot` | `SnapList`, `SnapExec`, `SnapWrite`; a failed List or exec leaves the old snapshot |
| mysqld | `Commit`, `ClientWrites`, `Replicate` |

### MysqlReconciler

One worker; `pc` is the step that comes next.  A step is one write or one exec
session, together with the read of the same object before it (the Get of the
`create...` and label functions, and of the pod in `checkReplicaStatus`), or one
read that decides.  `checkReplicaStatus` is `ReplicaStatus` (Endpoints),
`ListReplicas` and `CheckReplica` for each replica in any order; a missing number
takes `CreateMissingPVC`, `CreateMissingConfigMap` and `CreateMissingPod`.  Only
`SlaveRoles` joins two reads, of the Endpoints and of the list of pods.

Lists whose error is dropped have a branch in which they come back empty; every
other failure is `CallFails`, which ends the run and queues the request again.
`Finish` ends a run without an error.  An exec session that breaks off half way
is `ExecSlave` followed by `ReplicationBreaks`, or a `CallFails` in its place.

Reads see the API server's current state, with the exception of the Endpoints,
whose lag is what the code is exposed to.  Reconcile requests come from changes
of the resource and of the pods (`queue`), from errors, and from `Resync`, the
informer's own resync every ten hours.  Changes of the Endpoints and of slave
threads do not queue a request.  The status writes of manager and monitor would,
if the API server accepted them; since it need not, the model does not count on
them.

## 3. Runs

| Run | Instance | Result |
|---|---|---|
| `raft_operator` | 1 manager with its metrics, 3 members, no reader, 2 terms, 1 failing call, 1 restart | `LeadershipBacked`, `MetricsBacked`; implements `LeaderView` with its liveness |
| `raft_pair` | 2 managers, both members, messages handled in any order and number, 2 terms, 1 failing call or restart, 1 heartbeat goroutine per peer | types, `CandidateHoldsOwnVote`, `AnnouncedLeadersBacked`, `LogInert`, and the action properties `TermNeverDecreases`, `LeadsTermOnce`, `RevoteNeedsHeartbeat`, `SolePublisher` |
| `monitor_pair` | 2 managers with monitors, 1 term, 1 failing call, 1 restart each | `StoredLeaderBacked` with torn and outdated writes, also after a restart; `StoredTermMonotone` until a restart |
| `reconciler_faults` | 2 replicas, edits to 1..3, one fault of every kind | `PodHasStorage`, `AtMostOneMaster`, `MasterKept`, `InitializedMeansConfigured` |
| `reconciler_settles` | 3 replicas; a failing call, a crash, a deletion, a broken slave thread and a restart; no resync is assumed | `Settles` |
| `election_faults` | 2 replicas, a set-up cluster, any one fault, directories of 1..3 bytes, 1 transaction | `SizeDecides`, `MasterReelected`, `TwoMastersEnd` |
| `integration_faults` | 1 process, 3 members of which any exist, 2 failing calls, 3 changes of pods, 2 restarts | `SuccessLeavesOneMaster`, `MasterLabelMeansLeader`, `FailoverEnds` |

Runs that end in a violation show where the code and the documentation differ:

| Run | Statement | What the code does |
|---|---|---|
| `raft_two_leaders` | README.md:21, at most one leader | counts its own stored request as a vote, so two managers lead one term |
| `monitor_status` | README.md:219, the leader is in `status.raftLeader` | the monitor overwrites it with a field nobody sets |
| `reconciler_failover` | README.md:12, automatic fail-over | the fail-over looks up a pod name that never exists |
| `reconciler_scale_down` | reconcile_replicas.go:34, missing pods are created | only the number of pods is compared |
| `election_gtid` | elect_new_master.go:20, the highest share of the master's GTIDs | bytes are added to a share between 0 and 1, so the size decides |

Other statements hold with an exception, which the property states:

- RAFT_DEPLOYMENT_GUIDE.md:176 calls the term monotonic.  Term and vote live in
  memory only (raft.go:68-69) and a restart begins at 0, so
  `TermNeverDecreases` excepts the restart.
- For the same reason a manager may lead a term again that it led in an earlier
  life; `LeadsTermOnce` is about one life of the process.
- RAFT_DEPLOYMENT_GUIDE.md:183 says that a node votes once in a term.  There are
  two ways to vote twice: an accepted heartbeat of the current term clears
  `votedFor`, and a restart forgets vote and term while the old requests are
  still stored.  `RevoteNeedsHeartbeat` says that within one life the first is
  the only way.
- A heartbeat goroutine outlives its leadership and takes the newer term
  (RAFT_DEPLOYMENT_GUIDE.md:184 says that old leaders stop);
  `AnnouncedLeadersBacked` covers such late heartbeats.
- `SolePublisher` and `StoredTermMonotone` are excused after a restart: the new
  process reads the current version and may publish a lower term.

One more disagreement needs no violation, because the property that passes states
it.  README.md:31, RAFT_DEPLOYMENT_GUIDE.md:155-156 and :283 say that changes of
the MySQL configuration are recorded in the Raft log and replicated.  Nothing in
the operator appends to the log, and heartbeats never carry an entry:
`LogInert`, which is checked and proved, says that no log and no commit index
ever moves.  `TestRaftLogReplication` (test/raft_test.go:193) sees log index 1
only because a helper in the test file appends the entry itself.

`raft_two_leaders` needs more than one manager, as the documentation has it and
as `TestRaftLeaderElection` starts them, and is run with a reader of the messages
(`Dispatch`), which the repository lacks: even handled messages do not prevent
the second leader.  With the operator's one manager `ImplementsLeaderView` is
what holds instead.

### Bounds

- `MaxTerm = 2` is the least that has a goroutine of an old election beside a
  candidate of a new one, and a deposed leader.  The proofs have no such bound.
  In `monitor_pair` one term is enough: without a reader a manager leads once in
  its life, so a torn status pairs values of one election.
- `MaxPending` caps the heartbeat goroutines.  One is enough to outlive a
  leadership.  It is 0 where nobody reads heartbeats.
- `MaxFailures = 1` and `MaxRestarts = 1` put a failing call and a restart at
  every step.  With three members one failure can be outvoted, which the
  liveness of `raft_operator` needs: it asks for
  `MaxFailures <= |Members| - Majority`, because terms are bounded and a failed
  election cannot be repeated for ever.  For the same reason `ForceElection` has
  the guard `currentTerm < MaxTerm`, which the code does not have: forced
  elections disturb every election but the last.
- `OneFault` constrains `raft_pair` to one failing call or one restart, and after
  the restart to states in which not both managers are in the last term: a
  restarted manager meets the messages of its earlier life and a peer in any
  term, in either order.
- `Budget` bounds each kind of fault of the reconciler; one of each meets every
  pair and triple of different faults in every order.
- `MaxFaults = 1` in `election_faults` allows any one of a failing call, a
  deletion, a crash, a broken slave thread or a restart, at every step; with one
  crash the old master can come back beside the new one.  Sizes 1 to 3 have
  equal, adjacent and farther ones, which the GTID share of 0 to 1 can and
  cannot outweigh.  One transaction makes sets equal or different.  In a torn
  string (a pointer and a length of different writes) the items that are left are
  followed by at most one more piece.
- `MaxErrors = 2` and `MaxRestarts = 2` let a fail-over be interrupted and the
  next one fail as well; `MaxChanges = 3` is one for each member.
- Two managers are interchangeable in the safety runs, which use symmetry; the
  runs with liveness do not.

### Fairness

Weak fairness of the manager's timers and goroutines: Go's scheduler runs every
goroutine and the timers are re-armed in endless loops.  Weak fairness of the
worker's step, of a pod becoming ready (kubelet) and of the Endpoints
controller (`EventFairness`).  Weak fairness of `LeaderElected` is the promise
of `LeaderView`, checked by `raft_operator`; with a single replica it would not
hold, since the majority is only tested in the goroutines of the peers.  No
fault, edit, restart, forced election or handling of a message is fair.
`MasterElection` has the same fairness; the snapshot goroutine owes nothing.
`RaftIntegration` only assumes that the worker goes on: no election is promised,
since the loop that waits for it has a limit.

No passing run assumes that `Resync` happens: `Settles`, `MasterReelected` and
`TwoMastersEnd` hold by events alone.  The runs `reconciler_failover` and
`reconciler_scale_down` do assume it (`FairSpec`), which makes their violations
stronger: not even the resync helps.

`Settles` names the three dead ends of the code, rather than excluding the faults
that lead there:

- `WaitsForNobody`: the worker polls in `createPod` for a pod that was deleted;
- `MasterGone`: a new `mysql-01` is without its label after the old one was
  deleted;
- `Unnoticed`: the pods run and the master is labelled, but the replication is
  not complete and no event is coming.  This is the state that the "bug说明" at
  mysqlcluster_controller.go:132-150 complains of: the Endpoints are not watched
  and no later event comes.  In the model it is reached when slave threads stop
  by themselves, or when the last run found a manager that did not lead yet;
  lagging Endpoints and failing calls alone do not lead there, since the
  container that comes back raises an event of its own.  Only the informer's
  resync, ten hours apart, ends it.

`MasterReelected` names the ways in which no master comes back: the worker
polling in `createPod`, and a cluster in which no pod is labelled slave any
more, since only those are listed.  No master means that no pod has the label:
the master was deleted.  A crashed master keeps its label, and what becomes of it
beside a new one is `TwoMastersEnd`.

## 4. Proofs

### RaftManagerProofs

It proves, from `ConstantsAssumption` alone (finite `Members`,
`None` not a manager, natural bounds), for all sets of managers and members:

| Theorem | States |
|---|---|
| `Invariance` | `Spec => []IndInv` |
| `TypeCorrectness`, `OwnVote` | `[]TypeOK`, `[]CandidateHoldsOwnVote` |
| `LeadersAreBacked`, `AnnouncementsAreBacked` | `[]LeadershipBacked`, `[]AnnouncedLeadersBacked` |
| `TermsGrow`, `LeadsOnce`, `Revotes`, `FirstPublisherStays` | the four action properties of `raft_pair` |
| `LogsStayEmpty` | `[]LogInert` |
| `RefinesLeaderView` | without a reader, `Spec => View!Spec` |

None of the invariants is inductive.  `IndInv` adds:

- `IndexInv`: whoever may still send a heartbeat has set `nextIndex`; without it
  `prevLogIndex` could be -1 and `TypeOK` is lost;
- `GoroutineInv`: goroutines of an election exist only once its term was
  reached, a peer is in one of the three sets only, and one that got past
  `sendVoteRequest` has left a message.  With it the count of *any* election,
  old or new, is bounded by the peers asked so far (`WinnerBacked`);
- the third part of `BackedInv`: a heartbeat goroutine in flight belongs to a
  manager that was backed, and stays so when its term grows;
- `LedInv`: a candidate has not led its term yet in this life.  This is why a
  late count cannot re-elect a deposed leader: becoming a candidate takes a new
  term, and only a restart takes the term back;
- `VoteInv`: an uncleared vote of this life in the current term is the one in
  `votedFor`;
- `PublisherInv`: until a restart only the first publisher's copy carries the
  stored resource version, and its term is one that it has led.

Each part has its own step lemma with one case for each action that touches it;
`LeadershipSource`, `MessageSource` and `StatusSource` say once which step can
make a leader, a message or a stored status, and the step lemmas rest on them.
`LogInv` is proved on top of `IndInv`.  The refinement maps a step that makes a
leader to `Elected`, `Restart` to `Restarted`, and every other step to a
stutter, because without a reader no step but a restart leaves `Leader`.

### RaftMetricsProofs

From the same assumption.  `ObservedManager` shows that every step of
`RaftMetrics` is one of `RaftManager` or leaves it alone, so that `IndInv` can be
used; `StoredMetricsAreBacked` is `MetricsSpec => []MetricsBacked`.  The
invariant says the same of what is gathered and not stored yet; it is kept
because messages are never taken away.

### RaftMonitorProofs

From `ConstantsAssumption`:

| Theorem | States |
|---|---|
| `MonitorInvariance` | `MonitorSpec => []MonitorInv` |
| `MonitorTypes`, `StoredStatusIsBacked` | `[]MonitorTypeOK`, `[]StoredLeaderBacked` |
| `StoredTermGrows` | `StoredTermMonotone` |
| `MonitoredLeadersAreBacked`, `MonitoredLeadsOnce` | `[]LeadershipBacked`, `LeadsTermOnce` (in one life), of a manager with its monitor |
| `MonitoredRefinesLeaderView` | without a reader, `MonitorSpec => View!Spec` |

Unlike the metrics, the monitor is not a stutter of the manager: it rewrites the
shared copy of the status and stores it.  So `Spec` cannot be derived from
`MonitorSpec`.  The manager's step lemmas are used for the manager's steps and
each part is carried through the monitor's again.  `PublisherInv`, and
`SolePublisher` with it, is left behind: every monitor publishes.  `MonitorInv`
adds to the other parts:

- `CopyBacked`: a copy names nobody or a backed leader;
- `SyncInv`: while the monitor is between rewriting and sending, the copy was
  written by its own process and is not of a later term than the manager's;
- `EncodedInv`: the name the encoder has already read is backed in whichever term
  is in the copy when the rest is read.  This is what makes a torn status
  harmless: between the two reads the term only grows, and backing grows with it;
- `FreshInv`: until a process restarts, whoever has the stored resource version
  has a copy and a term at least as large as what is stored.

### MysqlReconcilerProofs

From `ReconcilerAssumption` and `SizesAssumption` (the sizes have a largest one,
as `spec.replicas` is an int32; api/v1/mysqlcluster_types.go:37), for every
size, every set of edits and every budget of faults:

| Theorem | States |
|---|---|
| `ReconcilerInvariance` | `Spec => []ReconcilerInv` |
| `ReconcilerTypes`, `StorageFirst` | `[]TypeOK`, `[]PodHasStorage` |
| `SingleMaster`, `MasterLabelKept` | `[]AtMostOneMaster`, `[]MasterKept` |
| `AnnotatedWhenConfigured` | `InitializedMeansConfigured` |

`ReconcilerInv` says for each kind of object what the worker has done, given
where it stands and what is left of its loop:

- `SizeInv` and `LoopInv`: the loops stay within a size that the resource had, so
  `TypeOK` survives an edit in mid-run;
- `PhaseInv`: init runs only without the annotation, the rest only with it, and
  `setupMasterSlaveReplication` returns to the caller it has in that phase;
- `StorageInv`: the numbers that a loop of init has left behind have their
  ConfigMaps and claims, even when an earlier run failed in a later loop, and
  so has a missing number whose pod is about to be created;
- `MasterInv`: every master label, every Endpoint and every master in
  `checkReplicaStatus` and `setupMasterSlaveReplication` is `mysql-01`, which is
  never among the failed replicas.  `AtMostOneMaster` follows from
  it, and only from it: the code has no check of its own;
- `KeptInv`: from the labelling on, only a deletion takes the label away;
- `LabelledInv`: in a first run each slave is still to come or was labelled.

`StateTypeOK`, `SizeInv` and `LoopInv` do not depend on the phase and are proved
apart (`CoreStep`), so that `MasterElection`, where `PhaseInv` and `MasterInv` do
not hold, can use them.

### RaftIntegrationProofs

From `IntegrationAssumption` (`Node` is a manager and a member, natural bounds):

| Theorem | States |
|---|---|
| `FailoverInvariance` | `IntegrationSpec => []FailoverInv` |
| `FailoverTypes`, `SuccessIsSafe` | `[]IntegrationTypeOK`, `[]SuccessLeavesOneMaster` |
| `LabelFollowsLeadership` | `MasterLabelMeansLeader` |

`FailoverInv` adds `ElectionInv`, that the node leads as long as the worker is
past the wait, because only a restart takes leadership back and it ends the
worker too; and `SlavesInv`, that in the loop over the slaves everyone who has
had its turn is no master, and that an unwritten fetched pod still exists.

### MasterElectionProofs

From the reconciler's assumptions and `ElectionAssumption` (at least one
replica, which init insists on; sizes are natural numbers):

| Theorem | States |
|---|---|
| `ElectionInvariance` | `ElectionSpec => []ElectionInv` |
| `ElectionTypes`, `LargestIsElected` | `[]ElectionTypeOK`, `[]SizeDecides` |

`SharedSteps` shows that all but five actions are steps of the reconciler, whose
`CoreStep` is used for them.  `ElectionInv` adds:

- `SnapshotInv`: a text has at most two items, and at most three after a torn
  read (`TornTextOK`).  With it `calculateGTIDScore` yields a share between 0 and
  1 of whatever was read (`GtidScoreRange`, which needs the cardinality of the
  items found);
- `LegacyPhaseInv`: who is scored was listed, and is one of those left to score;
  the check of the replicas returns to its caller;
- `ScoreInv`, the loop invariant of `electNewMaster`: `highest` is the score of
  `best`, in sixths six times its size and at most six more, and no slave scored
  so far exceeds it.  Nobody is scored twice, and nothing is left of an election
  that was broken off.

`ComparisonHolds` is one turn of the loop; the decision follows from the
invariant after the last turn by arithmetic.

### Only model-checked

Everything with fairness (`Settles`, `MasterReelected`, `TwoMastersEnd`,
`FailoverEnds` and the liveness in `ImplementsLeaderView`): liveness and
`ENABLED` are beyond the prover.  So are the five violations, each of which is a
behaviour that TLC finds.  Every invariant and every safety action property of a
passing run is stated by a theorem; of `ImplementsLeaderView` the safety part is.

## 5. Not modelled

- `healthCheck` and `GetClusterHealth` of the monitor: they change nothing.  Both
  count the manager's `peers`, a list that is always empty, so the partition
  warning never appears and `has_quorum` is always true.
- SQL of `raft_mysql_integration.go`: it goes to a stub.
- `ensureSemiSyncReplication` beyond its first test: `status.master` is never
  set.
- Deletion of the MysqlCluster resource, images, resources and storage classes,
  generated code, flags and probes of `cmd/main.go`.
- Edits of `spec.replicas` under a running Raft manager, which keeps the number
  it was started with.

## 6. Plan

Done, in this order: `LeaderView` and `RaftManager` with its runs, the monitor
beside it, the reconciler, the proofs about the manager; then `MasterElection`,
`RaftMetrics` and `RaftIntegration` with the proofs about the last two; then the
proofs about the monitor, the reconciler and the election.  Next:

1. `RaftLog`: `HandleAppendEntries` with real entries, which no caller passes yet,
   and what slicing and `commitIndex` keep of two logs.
2. Deletion of the resource in `MysqlReconciler`.
3. Proofs: that a wait of the worker in `createPod` for a deleted pod ends only
   with the process (the safety half of the dead end that `Settles` names), and
   that no step but a deletion or an election moves a master label in
   `MasterElection`.
