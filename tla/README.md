# RaftVDB: specification, model checking and proofs

RaftVDB is a replicated vector database: a Raft log of `Upsert` and `Delete` commands,
replicated from a leader to its peers directly or along a chain of mentors, and applied to
an HNSW index on every node. This directory holds TLA+ modules translated from its source,
TLC configurations that check them on small instances, and proofs checked by TLAPS.
`PROJECT.json` maps every definition to the lines it models and lists runs, findings,
hazards and theorems.

Paths below are those of the repository (`src/raft/raft_node.cpp` and so on).

## 1. Inventory

| Component | State | Operations | Interacts with | What makes it correct |
|---|---|---|---|---|
| Election, terms, roles (`raft_node.cpp` 533-626, 1046-1279; `raft_meta.cpp`) | `current_term_`, `voted_for_`, `state_`, `meta.bin` | `StartElection`, `HandleRequestVote`, `BecomeFollower/Candidate/Leader`, `BroadcastHeartbeat`, `HandleHeartbeat` | all handlers step down through `BecomeFollower` | one vote per term, one leader per term, a leader has a majority, terms grow, a crash forgets nothing it promised |
| Replication and commit (283-531, 1363-1552, 1859-1917, 2515-2579) | log, `commit_index_`, `flushed_index_`, `peer_progress_` | `Propose`, `ReplicatePeerOnce`, `HandleAppendEntries`, the RPC callback, `MaybeCommit` | heartbeats carry the commit index; WAL | log matching, acknowledged entries are there, committed entries are on a quorum, a peer commits the leader's entries, reachable peers catch up |
| Chain topology (`topology.cpp`; `raft_node.cpp` 2218-2431, 2598-2646) | role, source and health of each node as seen by one node | `MarkHealthy`, `MarkUnhealthy`, `PromoteToMentor`, `SwapFollowers`, `Rebalance`, `FromProto`, the maintenance thread | acknowledgements, received topologies, role changes | every healthy follower has a live source, a mentor has at most one follower, an assignment takes effect |
| Client writes (`raft_node.cpp` 814-934, 1935-2003; `dedup.cpp`) | `DedupTable`, commit listeners, handlers | `HandleClientWrite`, `Check`, `TrackPending`, `Record`, `NotifyCommitListener` | `Propose`, apply thread | at most once, answers report what was applied, no wakeup is lost, writes complete |
| Snapshots (`raft_node.cpp` 628-812, 2025-2185; `snapshot_store.cpp`; `cmd/node/main.cpp` 62-111) | `snapshot_dir`, `vector_index_`, applied and snapshot index | `LaunchSnapshotTask`, `HandleInstallSnapshot`, `ApplyInstalledSnapshot`, bootstrap | apply thread, WAL, dedup table | the snapshot on disk can be loaded, log and snapshot join, nothing applied is lost, the apply thread does not get stuck |
| WAL (`wal.cpp`) | segment files, offset index | `Append`, `Flush`, `TruncateSuffix`, `TruncateBefore`, `Open` | all of the above | recovered entries are gapless, files and index agree, flushed entries survive |
| Forwarding (`raft_node.cpp` 356-531, 1554-1671) | a mentor's `peer_progress_` of its follower, window, rollback state | `ForwardToFollower`, the follower's handler | replication, topology | the follower's log stays a prefix of the leader's, the window's counter is exact, acknowledged entries are there, the chain delivers |
| Lease reads (`lease.cpp`; `raft_node.cpp` 330-354, 936-990, 1217-1279, 2187-2216) | `expire_time_`, rounds of heartbeats | `Renew`, `Invalidate`, `BroadcastHeartbeat`, `EnsureLeaseReadable`, `HandleClientSearch` | elections, apply thread, forwarded searches | no later leader while a lease holds, reads see acknowledged writes |
| Client library (`db_client.cpp`, `db_client.hpp`) | cached leader | `GetLeader`, `ProbeLeaderConcurrently`, `WithRetry` | client writes, searches | calls end, and reach a leader that everybody knows |
| Configuration (`config.cpp`) | | `LoadFromFile` and its validations | constants of all other parts | what is accepted is usable |
| Vector index (`vector_index.cpp`; usearch's `index.hpp`, `index_dense.hpp`, `index_plugins.hpp`) | graph, lookup of keys, ring of free slots, `deleted_count_` | `Upsert`, `Delete`, `Search`, `SaveSnapshot`, `LoadFromSnapshot`, `Compact`, `Isolate` | apply thread, snapshots, searches | lookup, ring and graph agree, content is what was written, searches are sound, a snapshot loads back |
| Index maintenance (`index_maintenance.cpp`) | `state_`, the worker | `Check`, `RunCompact`, `RunIsolate` | the index, its replacement by an install | it ends, and the index is intact after it |
| Encoding, logging, benchmark | | | | see "Not modelled" |

Every node runs an election thread, a heartbeat thread, a replication thread, an apply
thread, a maintenance thread, at most one snapshot thread, and one gRPC thread per call;
RPCs of the leader run on threads of their own. Locks are held for single critical
sections. What is hard to test follows from that: state read in one critical section and
used in a later one, handlers of one peer that overlap, late answers, crashes between two
file operations. `PROJECT.json` lists these hazards line by line.

## 2. Modules

| Module | Models | Notes |
|---|---|---|
| `RaftElection` | election, roles, `meta.bin` | all nodes, a step per critical section, restarts, lost RPCs |
| `RaftElectionProofs` | | proofs about it |
| `PeerReplication` | one leader of one term and its peers | handlers of one peer interleave; lost calls, late answers, peers' snapshots |
| `PeerReplicationProofs` | | proofs about it |
| `Topology` | the `TopologyManager` of one node and the threads that drive it | ids kept by the maintenance thread across RPCs |
| `TopologyProofs` | | proofs about it |
| `ClientWrite` | client writes on one node | leadership comes and goes |
| `ClientWriteProofs` | | proofs about it |
| `NodeSnapshot` | the snapshots, apply thread and bootstrap of one node | a step per file operation, restarts |
| `NodeSnapshotProofs` | | proofs about it, and about `VectorIndex`, which is what it saves and loads |
| `Wal` | segment files and recovery | a step per file operation, process crashes and power failures |
| `DurableLog` | what the WAL promises: a gapless log with a durable part | abstract; `Wal` implements it |
| `WalProofs` | | proofs about `Wal`, the refinement included |
| `ChainForwarding` | a leader, its mentors, and a follower at the end of the chain | calls of mentors and leader overlap at the follower; lost forwards, rebinding, a second leadership |
| `ChainForwardingProofs` | | proofs about it |
| `NodeConfig` | the configuration file and its validation | functions only |
| `LeaseRead` | leases, rounds of heartbeats, the handler of a search | extends `NodeConfig`; time as distances |
| `DBClient` | the client library in front of these nodes | extends `LeaseRead` |
| `DBClientProofs` | | proofs about it and about the two modules it extends |
| `Ranking` | sequences taken from sets in a given order | helpers of the next two |
| `SlotLookup` | usearch's hash multi set from keys to slots | functions only |
| `HnswGraph` | usearch's graph | functions only |
| `VectorIndex` | the index, its snapshots and its maintenance | composes the two |
| `MC*` | | constants for TLC: sets of logs, symmetries, orders |

Fields keep their source names (`voted_for`, `commit_index`, `order_queue`, ...). Local
variables of a thread that survive an unlock are a record with a control point `pc`
(`election`, `heartbeat`, `draft`, `check`, `calls`, `apply`, `tasks`, `doing`). An action
is one critical section with everything it does, or one step on files. Operators that end in
a variant of another one's name (`BecomeFollowerAnyTerm`, `TruncateBeforeEverything`) are
deliberate errors; each shows that a property notices it, none is used by a specification.

### RaftElection
`ElectionTimeout` and `BecomeCandidate` start a round, `SendRequestVotes` sends it,
handlers go through the phases `locking`, `role`, `demote`, `vote` of
`HandleRequestVote` and `HandleHeartbeat`, responses are tallied as they arrive,
`CountVotes` checks that the candidacy still stands and `BecomeLeader` follows in a separate
step, as in the code (1195-1204). `RpcTimeout` ends a call at its deadline whether or not
its handler still runs. `Restart` reads `meta.bin` back. The log comparison may have any
outcome in `UpToDateChoices`. `votes_cast` is history, and so are `forgotten` (the votes that
their node may have lost track of: it stepped down at the very term, or saved a vote of an
older term, from which on a restart forgets everything) and `late` (the leaders whose term
changed between the count and `BecomeLeader`).

### PeerReplication
A log is a sequence of terms; with one leader per term, (index, term) identifies an entry.
`ReplicateRead` and `ReplicateSend` are the two halves of `ReplicatePeerOnce` around its
unlock; `HandleCheck`, `HandleRead`, `HandleTruncate`, `HandleAppend`, `HandleFinish` the
handler, `OnSuccess`, `OnConflict`, `OnError`, `OnTimeout` the callback. The initial states
are all combinations of peer logs in `PeerLogs` that match one another and of which a quorum
would vote for the leader's log: logs that earlier leaders can leave behind.
`TruncateSuffix` and `Appended` are the WAL's operations: an append must continue the log
unless the log is empty, when any index is taken (`wal.cpp` 304), so that a log may get a
hole (a term 0). The history `misled` holds the peers whose acknowledgements the code gets
wrong: those that began with a hole, those of which an answer counted a stale tail
(`CountsTail`), and those of which a late handler cut an entry that agreed with the leader's.
The module assumes one leader per term. The election run `election_leaders` shows that the
code does not guarantee it: what is proved here holds for terms that have one.

### Topology
Each operation of the manager is a function from view to view; the actions are those of
`RaftNode` that call them. `Rank` is the iteration order of the hash map `nodes_`.

### ClientWrite
A handler goes through `Arrive` (check), propose, register, double check, wait, last check.
`StepDown`, `BecomeLeader` and the truncation or extension of the log by another leader are
the environment. A client repeats its request until it gets a definite answer; `Workloads`
are the requests that the concurrent calls may carry, the same one included.

### NodeSnapshot
`LocalAfter` and `InstallAfter` give the order of the file steps of `LaunchSnapshotTask`
and `HandleInstallSnapshot`; the file steps themselves (open, write, rename) are shared.
Index files are sets of executed entries, `Missing` or `Torn`. `Restart` may happen between
any two steps. An install may bring any index at any time: the handler compares it with
nothing and takes no lock, so it may meet another install, the snapshot thread, new entries
and the apply thread. Two variables are history: `clean` until an install is `Disturbed`,
`forgot` from a crash between the renames of `snapshot.meta` and `dedup.bin` on. An install
is disturbed when two tasks work in `snapshot_dir` at once (`Meeting`), when it is older than
the snapshot on disk (`Older`), or when the apply thread holds an entry beyond its index while
it replaces the index, the indices and the table (`Crossing`). Nothing in the code prevents
these three; section 5 says what each of them destroys.

### Wal and DurableLog
`doing` is the operation a crash would interrupt. Recovery reads the files in order and
cuts the last one at its torn record. `DurableLog` has `entries`, `durable` and `covered`
(what a snapshot stands for) and a step for each promise: append, flush, cut a suffix, drop
a prefix, crash. `Wal!ImplementsDurableLog` is the refinement.

### ChainForwarding
`ForwardBegin`, `ForwardSend` and `ForwardAnswer` are the critical sections of
`ForwardToFollower`: the snapshot of the follower's progress with the check of the window,
the counted sending, and what is made of the answer; `Deadline` ends a call whose handler may
still run (`gone`). `Handle` and `HandleStore` are the follower's handler before and after
its consistency check, so that two calls, of the mentor, of a former mentor or of the leader
(`ReplicateDirectly`), interleave there. `Rebind` is what a rebalance does to the follower,
`FollowerCampaigns` a candidacy that makes answers carry a higher term, `BecomeLeader` a
second leadership of the same node that still receives answers of the first. Progress records
survive a change of the binding, as in the code, and are cleared by a higher term
(`BecomeFollower`), whoever brings it: the leader's request, its heartbeat or the follower's
answer. Three variables are history: `reset` are the mentors that forgot their progress under
calls that still wait, `astray` those that began with entries the leader lacks, and `clean`
says that the follower's log was a prefix of the leader's at the start and took nothing from
the latter. A mentor's acknowledgement is taken to reach the leader at once.

### NodeConfig, LeaseRead and DBClient
`LoadFromFile` maps a file (a function from keys to absent, ill-typed or given values) to a
configuration or `Refused`; `dim` and `data_type` are required and may be given under a second
name; differences of unsigned numbers are taken modulo `Word`. A run of
`LeaseRead` starts with what is accepted. Clocks are distances: `silence` since the last
contact with a leader, `left` until a lease expires, `age` of a round; they stop where no
comparison tells further values apart, so that time is unbounded. `Broadcast`,
`HandleHeartbeat`, `HeartbeatLost` and `EndRound` are a round: it renews the lease when it
ends, whoever leads then. `ElectionLoop` is the look at the election deadline, which the code
takes outside the lock; the node then stands (`Campaign`, `BecomeCandidate`) without another
look, whatever it has answered meanwhile. What follows of a candidacy and a committed entry
(`Replicate`) are one step each; `RaftElection` and `PeerReplication` have their interleavings. A search goes
through `SearchForward`, `EnsureLease`, the round it may have to wait for, `RecheckLease`,
`WaitApplied` or `WaitTimeout`, `SearchIndex`. `sound` and `backed` are history: whether the
lease rests on a round that all nodes answered within the drift bound, none of them `due`,
that is, between its look at the deadline and its candidacy. In `DBClient` a call
finds a leader in the cache or by a probe with a thread per node, and `WithRetry` follows
redirects and turns elsewhere when an answer does not come, up to `max_retry`.

### SlotLookup, HnswGraph and VectorIndex
`SlotLookup` is an open-addressing table with tombstones: probing, `equal_range`, `erase`,
growth. `HnswGraph` has nodes with a key, a vector and lists of neighbours per level, and the
algorithms on them: greedy descent, the search of a level with its bounded buffers, the
refinement of candidates, links and reverse links, `add`, `update` of a reused slot, `isolate`
and `compact`. A loop of the code is a function of the number of rounds done, up to a bound that
no run of it exceeds, so that a round is an operator of its own that a lemma can be about. A
vector is a number and the metric the square of a difference; the level that the code
draws at random is part of the input (`Payloads`). `VectorIndex` keeps graph, lookup and ring
together as `index_dense_gt` does and adds `Upsert`, `Delete`, growth that may fail, the
snapshot by clone, save and load, and the worker of `IndexMaintenance`, which decides on two
separate looks at the index and runs beside the writes. `history` records what makes an index
lose a property for good until it is loaded from a snapshot: a compaction that moved nodes
(`stale`), a write through a stale slot (`lost`), a count that was reset (`drift`).
`CompactOrders` are all orders that the unstable `std::sort` of a compaction may leave.

## 3. Runs

A passing run shows its properties on every state of its instance. A violation run shows
one promise of a document or comment that the code does not keep; `findings` in
`PROJECT.json` quotes it and explains the behaviour TLC found. One configuration asks all
questions that an instance can answer. The type invariants of the modules, and a few
statements that the listed properties imply or that section 5 refers to (`Contiguous`,
`PendingIsInLog`, `AppendPossible`, `DeletedCountMatches`), are defined beside them and are
part of no run.

| Run | Result | Properties | Instance |
|---|---|---|---|
| `election_safety` | pass | `VoteIsFinal`, `LeaderBackedByMajority`, `ElectionSafety`, `ElectionInv`, `TermNeverRegresses` | 3 nodes, 2 candidates, 2 terms, a crash, a heartbeat round |
| `election_live` | pass | `ElectionEnds`, `LoneCandidateWins` | 3 nodes, 2 candidates, every call may be lost |
| `election_leaders` | violation | `OneLeaderPerTerm` | a vote is cleared at its own term and given again |
| `replication_commit` | pass | `CommittedOnQuorum`, `CatchUp` | 2 peers with an equal log or one more entry than the new leader, one handler and one batch at a time, a proposal, a lost call |
| `replication_races` | pass | `AcksAreReal`, `LogMatching`, `TypeOK`, `ReplicationInv` | a peer with an empty, shorter or equal log, one that diverges at its first, second or third entry, or one with a hole, two overlapping handlers of single-entry batches, a lost call, a failed heartbeat, a snapshot |
| `topology` | pass | `EveryoneServed`, `OneFollowerPerMentor`, `AssignmentTakesEffect` | 4 nodes, a leadership with 3 maintenance passes, 2 received topologies |
| `write` | pass | `AnswersAreReal`, `NoLostWakeup`, `AtMostOnce`, `WritesComplete` | 2 calls of one or two clients, 3 requests, window 2, a change of leader |
| `snapshot` | pass | `SnapshotIntact`, `WalReplayable`, `NothingLost`, `DedupCoversApplied`, `CommittedIsApplied` | 3 entries, local snapshots, 2 installs of any index at any time, a crash |
| `wal` | pass | `ImplementsDurableLog` | 5 entries, segments of 2, 2 crashes outside `TruncateSuffix` |
| `index` | pass | `GraphWellFormed`, `LookupAgrees`, `ContentMatches`, `SnapshotRoundTrip`, `SearchSound` | 4 keys, 5 vectors on 2 levels, 4 writes, a check with its task, a snapshot and its loading |
| `chain` | pass | `InFlightExact`, `FollowerAgrees`, `CommittedOnQuorum`, `FollowerCommits`, `ChainDelivers` | leader, mentor with an equal log or a diverged tail, follower with an empty log, 2 calls at once, a direct send, a fault, window and batch of 1 |
| `reads` | pass | `ConfigUsable`, `LeaseExclusive`, `ReadsFresh`, `SettledSucceeds` | 3 nodes, 2 terms, a round at a time, a call; a write without faults, or a fault and all kinds of calls |

Some properties hold under a condition only, which their definitions state and their
comments explain; section 5 says what happens without it. `AtMostOnce` and `WritesComplete` speak of a leader that stays, `AssignmentTakesEffect` of a node that has
not led, `SnapshotIntact`, `WalReplayable`, `NothingLost` and `DedupCoversApplied` of a history in
which no install was disturbed, the last also of one without the crash that `forgot` remembers,
`CommittedIsApplied` of one that installs no snapshot, `LoneCandidateWins` of a candidate
without competitors, `VoteIsFinal`, `LeaderBackedByMajority` and `ElectionSafety` of votes that
are not forgotten and leaders that are not late. `AcksAreReal` speaks of
peers that were not misled, and `CommittedOnQuorum` takes the acknowledgements of misled peers for
what they are. `CatchUp` is
restricted by the instance of `replication_commit` (one call to a peer at a time) instead, `EveryoneServed` by the one
leadership of `topology`, `ImplementsDurableLog` by where `wal` lets a crash strike. `LookupAgrees`,
`ContentMatches`, `SnapshotRoundTrip` and `SearchSound`
speak of an index to which the history above has not happened; the properties of `chain` other than
`InFlightExact` of a follower that started in agreement and took nothing from a diverged mentor,
`CommittedOnQuorum` there of logs that all started in agreement; `LeaseExclusive`
and `ReadsFresh` of leases that rest on a sound round, one that all nodes answered in time and
without being about to stand; `SettledSucceeds` of a call during
which the nodes agree on their leader.

**Bounds.** Three nodes and two candidates are the smallest cluster in which votes
compete; two terms let a stale term meet a newer one. One peer suffices for what happens
between the leader and that peer, two for the quorum (the leader and one of them). Logs of
up to three entries hold a common prefix, a divergence and a tail behind it. A batch of one
entry forces several calls for one divergence. Four nodes give a leader, two mentors and a
follower; three passes let a promotion, an exchange and a return follow each other. Three
requests overflow a window of two. Three entries and a threshold of one allow a local
snapshot with entries before, at and behind it, and installs at each of them; the safety
properties were also checked with four entries and one install. `CONSTRAINT Undisturbed` stops
`snapshot` behind the steps that disturb an install: its safety properties say nothing of what
follows them, and `CommittedIsApplied` speaks of nodes without installs, which nothing disturbs. Segments of two records make appends, truncations and
crashes cross a boundary. Of four keys two share a home cell, and four writes fill the
first capacity, grow it, remove, and reuse a slot. Two calls at once are the smallest number
that overtake each other at the follower; with a window of one the second is the leader's or
that of a former binding, and what two forwards of one mentor do is in section 5. Election
timeout 2 and drift 1 give a lease of one tick, which a late answer outlives by one. A client
with one call starts from every cache that earlier calls can leave. Every bound is a constant of its module with a comment; counters
that only enforce bounds are `restarts`, `lost`, `rounds`, `crashes`, `step_downs` and the
fields of `spent`.

**Symmetry** (nodes that may be candidates, nodes that may not, peers) is used in runs
that check invariants or step properties, never with liveness.

**Deadlock** is left unchecked where an instance runs out of terms, entries, clients or crashes;
the topology and chain runs check it.

**Fairness.** Election: threads of a running node run, and every RPC ends, because
`raft_client.cpp` sets a deadline on each; `LoneCandidateWins` also assumes that
received requests are served and that only a minority of the calls is lost. Replication:
the thread polls its peers every `batch_flush_interval_us`, `fdatasync` returns, reachable
peers serve and answer; reading for a peer is strongly fair because the thread visits the peers in turn and the window may
be closed at some visits. Client writes: handlers and the apply thread run, the client
retries, in the end the node leads and its log gets committed; no timeout is assumed to
happen. Chain: threads
that were started and handlers that were entered go on, the leader's heartbeats go on, and a
cluster that lost its leader gets one again (the model has one node to elect); lost calls,
new entries and direct sends are promised by no one. That requests with entries keep coming is
an assumption of `ChainDelivers` itself, since nothing else makes a mentor forward. Snapshots: the apply thread, the snapshot thread and the handlers run. Elections in
which candidates compete have no fairness that the code guarantees (randomised timeouts),
and no property says that they succeed.

## 4. Proofs

`RaftElectionProofs`, from `ServerAssumption`, `BoundAssumption` and `ChoiceAssumption`
(finite cluster, natural bounds), for any number of nodes, crashes and lost calls:

- `TypeCorrect`: `Spec => []TypeOK`.
- `ElectionInvariant`: `Spec => []ElectionInv`. The invariant has three parts. An awaited
  request belongs to the round being counted (`AwaitedInRound`), hence a late answer is
  never counted for a later round. A handler votes in a term its node has reached
  (`VotingTermReached`), although it compared terms in an earlier critical section. And what
  a round has counted are votes really cast (`TallyIsReal`).
- `LeaderHasMajority`: a leader has a majority's votes of the term it leads, unless it is
  `late`. The majority is only known from `TallyIsReal` between `CountVotes` and
  `BecomeLeader`, which is why the invariant is needed.
- `TermsGrow`: `Spec => TermNeverRegresses`, from the check at the head of `BecomeFollower`.
- `VotesAreFinal`: `Spec => []VoteIsFinal`, from the invariant `VotesOnFile`: a vote that is
  not forgotten is not newer than `meta.bin`, and the one of the file's term is on file; where
  the file lags behind memory, all votes from its term on are forgotten.
- `ElectionsAreSafe`: `Spec => []ElectionSafety`. Two majorities of one term share a voter,
  which has voted once unless it has forgotten.

`PeerReplicationProofs`, from `ReplicationAssumption` (any finite set of peers, any window
and batch size, any leader log and peer logs with matching prefixes):

- `ReplicationInvariant`: `Spec => [](TypeOK /\ ReplicationInv)`; `ReplicationTypes` and
  `LogsMatch` (`Spec => []LogMatching`) follow. Log matching alone is not inductive. A
  request is a piece of the leader's log (`IsLeaderPiece`); a handler that passed the
  consistency check stands at the end of a stretch in which the peer has no entry that
  differs from the leader's, whatever the other handlers of that peer have done since
  (`Aligned`), since they truncate or append only where the logs agree; a snapshot vouches
  for its last entry only while the log holds it (`SnapshotsAligned`); and entries of the
  current term come from the leader (`OwnTermFromLeader`). The central lemma is
  `PeerBecomesPrefix`. Logs may have holes, so that log matching says that two logs with a
  common entry hold no different entries before it.
- `AckInvariant`, and from it `AcksReal` (`Spec => []AcksAreReal`) and `CommitOnQuorum`
  (`Spec => []CommittedOnQuorum`), for any peer logs and any interleaving of handlers. A peer
  that is not misled has no hole, each of its handlers stands at the end of a prefix it
  shares with the leader, and it holds what it has answered and what the leader has recorded
  (`PeerAck`, `CallAck`). Its snapshot lies within its log, or it vouches for an entry that is
  not the leader's and no request ends there (`SnapshotApart`). A quorum has acknowledged
  what is committed (`CommitInv`), and acknowledged indices do not fall.
- `PeersCommitLeaderEntries`: peers whose logs are prefixes of the leader's when it is elected (`PeersTrail`) commit only the
  leader's entries, although a heartbeat does not say for which log.

`ClientWriteProofs`, for any requests, calls, window and changes of leadership:

- `WriteInvariant`: whatever a call may be told, by a committed record of the table, by its
  promise or by the notification under way, has been executed with that outcome
  (`NewsIsReal`); between `Record` and `NotifyCommitListener` the apply thread stands at a
  committed command (`Applying`); between its registration and its second `Check` a call
  is registered or its promise broken (`RecheckIsRegistered`). `AnswersReal` and
  `NoWakeupLost` follow: the second `Check` closes the gap between the first one and the
  registration.
- `ExecutedOnce`: `Spec => []AtMostOnce` when `Cardinality(Call) <= WindowSize`. With more
  requests than places a pending record can be evicted and its request proposed again, so
  the hypothesis is needed. `OnceInv` is about the time before the first loss of leadership:
  what is in the log is known to the table, a request carried by one call is in the log
  once and not before that call proposes it, and what was executed is in the log.

`ChainForwardingProofs`, for any mentors, forwards, bindings, lost calls and terms:

- `ChainTypes` and `CountExact` (`Spec => []InFlightExact`): a call is counted when it begins
  to wait and counted back when it ends; a cleared counter is below the number of waiting calls
  and stays so, since a decrement stops at zero, until the last of them has ended.
- `ChainInvariant`, and from it `FollowerInAgreement`, `FollowerCommitsReal` and
  `CommitsOnQuorum`, for any logs at the start: the properties are stated with `clean` and
  `astray`. What a mentor outside `astray` forwards is a piece of the leader's log and stays
  one however late it arrives, since that log only
  grows (`CallsCarryLog`); a piece put into an initial part gives a longer initial part; what
  the others forward either changes nothing or ends `clean`.
  A commit index is computed in one step of the handler and stored in another, hence the
  clause on calls at `store`. `QuorumHolds` speaks of every index up to the commit index,
  not only of the last one.

`WalProofs`, when power does not fail and no crash strikes inside `TruncateSuffix` (both
cases lose or corrupt entries, section 5), for any segment size and any number of crashes:

- `WalInvariant`: segments are sound and in order and only the last is empty; what they
  hold is what `offset_index_` has; the log has no holes from the snapshot to `last_index_`;
  a torn record is the one being appended. While `TruncateSuffix` goes from file to file
  this is so below its index only, which is what `Limit` is for.
- `NoHoles`, `FlushedIsKept`, and `Implements`: `Spec => ImplementsDurableLog`, initial
  states to initial states and every step to a step of `DurableLog` or a stutter. The
  recovery of `Open` is the step with content: from the files alone it rebuilds the log.

`NodeSnapshotProofs`, for any number of entries, installs and crashes, with `clean` and
`forgot` in the statements (nothing in the code keeps an install from being disturbed, and
section 5 has what happens then):

- `SnapshotInvariant`: a clause for each control point says which of `snapshot.tmp`,
  `snapshot.usearch`, `dedup.bin.tmp` and `dedup.bin` are complete (`TaskInv`), that
  `snapshot.meta` never runs ahead of `snapshot.usearch` (`DiskInv`), that the log continues
  the snapshot on disk and reaches what is applied unless the last snapshot or an install
  does (`LogInv`, `Reaches`), that an entry which the apply thread has in hand is either on
  the index that is served or covered by the one that replaced it (`ApplyInv`), and that the
  tables in memory and on disk are those of the indices (`DedupInv`).
- `SnapshotOnDisk`, `LogContinuesSnapshot`, `AppliedIsServed`, `TableCoversApplied` and
  `AlwaysBootstraps` follow, with crashes between any two file operations.

The same module, from `GraphAssumption`, `BucketAssumption` and `IndexAssumption` (a positive
expansion, a connectivity of at least two, buckets of a power of two up to 64 cells, any finite
set of keys other than the mark of a free slot), for any vectors, levels, capacities, number of
writes and any interleaving with checks, maintenance, snapshots and installs:

- `IndexInvariant`: `IndexSpec => []IndexInv`. What the properties say is not inductive, because
  each holds under a condition and the operations rely on more than it. The invariant has three
  layers. `Usable` always holds, also after a write has gone to a wrong slot: the graph is as the
  assertions of `index.hpp` want it, every live cell of the lookup is on the chain of its key, and
  cells and ring name slots that exist. `Good` holds until a write is lost: each present key has
  one node with its last vector and one cell, even if that cell names the wrong slot. `Agree`
  holds until a compaction moves a node: cells, ring and marks describe the same slots. A saved
  snapshot keeps the graph part of the first two, from which `reindex_keys_` rebuilds all three.
- The lemmas below it: a traversal never leaves the slots that have the level, visits each once,
  and its buffer holds candidates of distinct slots, closest first (`TopOK`); `refine_` returns a
  sub-list of these within its limit; a reverse link is new and goes to a node that has the
  level; an emptied cell never lies on a chain since `erase` leaves a tombstone, and `Rehash`
  places every live entry once in a table with room for it. Loops are unfolded by a lemma of
  their own (`...Loop`) and followed round by round by induction over the rounds (`CountUp`).
- `GraphAlwaysWellFormed`, `LookupAlwaysAgrees`, `ContentAlwaysMatches`,
  `SnapshotAlwaysRoundTrips` and `SearchAlwaysSound` follow.

`TopologyProofs`, for any cluster and any order in which the table is iterated:

- `TopologyInvariant` and `AtMostOneFollower`: the topology of a leader names it, binds no
  lost node and gives nobody two followers. The clause is about all nodes, not about
  mentors only, since a follower becomes a mentor without a look at its followers.
- `AllServed`: `EveryoneServed` as long as the node leads for the first time. The mentor
  that a pass of the maintenance thread has recorded is still one when followers are
  exchanged, because only that thread retires mentors (`ServedInv`); a pass begun in an
  earlier term breaks this.
- `AssignmentApplied`: `Spec => AssignmentTakesEffect`. A node that has not led has at most
  one follower and counts nobody as lost (`Fresh`).

`DBClientProofs`, for any number of nodes, terms, concurrent rounds, writes and faults, from
`ReadAssumption` and `WordAssumption`: the default times fit a word; the numbers of a file
are natural, and those the lease is computed from fit a word; a search may be forwarded at
least once (the code has no bound on forwards, the model has `MaxHops`):

- `ConfigIsUsable`: whatever is in the file, what `LoadFromFile` accepts has a positive lease
  of `election_min` minus the drift bound, and what else `Usable` lists. Window and batch are
  not in it: the code accepts 0 for both.
- `LeaseIsExclusive` and `ReadsAreFresh`, from `ReadInvariant`. If a round has taken no
  longer than the drift bound, whoever has answered it has been silent no longer than the
  round has lasted, and a later term is unknown only as long as some node ahead has not
  answered (`RoundInv`). So a round that all have answered in time finds nobody ahead and
  nobody silent for longer than the drift bound, and its lease ends before anyone can start
  an election (`LeaseInv`). A node that has found its deadline in the past stands without another
  look, so the same must hold of those: they are under no sound lease and among the confirmations
  of no round in time (`DueInv`). Elections need quorums, so a term has one winner (`ClaimsInv`);
  committed entries are in the log of every winner that may still commit (`DataInv`); hence
  a leader that has such a lease and has committed an entry of its term has everything that
  was acknowledged.
- `SettledSearchSucceeds`: while all nodes agree on the leader of their term, the search is
  at that leader or on its way there in its first attempt, and its round has met no refusal
  (`CourseInv`). The leader cannot change unnoticed, since a term has one.

TLC checks the properties on the instances of the runs as well, and the invariants of the
first two modules with them (`election_safety`, `replication_races`). Not proved, and only
model-checked:

- liveness (`ElectionEnds`, `LoneCandidateWins`, `CatchUp`, `WritesComplete`,
  `CommittedIsApplied`, `ChainDelivers`): the proof system has no fairness reasoning.

That a search finds every present key (`SearchComplete`) is neither checked nor proved: HNSW
promises nothing of the kind, and the code loses keys (section 5). What it does promise of an
answer is `SearchSound`, which is proved.
The histories (`misled`, `forgotten` and the like) and the hypotheses of the theorems mark
where the properties stop holding.

## 5. Behaviours known not to hold

A run shows the first of these violations, `OneLeaderPerTerm`. The modules exhibit more, found with the same definitions; each
line gives the property and what to change in the configuration of a run to see it.

| Property | Configuration | What happens |
|---|---|---|
| `VoteIsFinal` without `forgotten` | `election_safety` | `BecomeFollower` clears `voted_for_` also at its own term (`raft_node.cpp` 1053), the cause of `OneLeaderPerTerm`; or `HandleRequestVote` saves the term of a request that its node has passed meanwhile (559), and a restart goes back to it |
| `LeaderBackedByMajority`, `ElectionSafety` without `late` | `election_safety` | the term changes between the count (1195) and `BecomeLeader` (1100), which leads the new term |
| `AcksAlwaysReal` | `replication_races` | `HandleAppendEntries` answers with its whole last index, not with the end of what the request matched (529): the stale tail counts as acknowledged; or, with `Window = 1` and `BatchMax = 4`, a late handler truncates entries that another handler has acknowledged (480) |
| `NoHole` | `replication_races`, no hole in `PeerLogs` | the first entry of the peer has diverged; two handlers of it overlap, one truncates the log to nothing after the other has stored entry 1, and `WAL::Append`, which takes any index on an empty log (`wal.cpp` 304), stores entry 2: the peer acknowledges 2 without entry 1 |
| `WindowRespected` | `replication_commit`, `MaxHeartbeatLost = 1` | a failed heartbeat releases a place that a batch holds (1251) |
| `EverythingCommits` | `replication_commit`, `Reachable = {p}` | all acknowledgements come before `Propose`'s flush, and nothing evaluates the commit rule after it (316) |
| `CatchUp` | `replication_commit`, `Window = 2` | an acknowledgement between the reading and the sending of a batch makes `next_index` overshoot the log (1478) |
| `PeerCommitsLeaderEntries` | `replication_races` | a heartbeat makes a peer commit its diverged tail (615) |
| `AssignmentTakesEffect` without `spent.terms = 0` | `topology` | `FromProto` clears one of two nodes bound to a former leader (`topology.cpp` 383) |
| `EveryoneServed` | `topology`, `MaxTerms = 2` | bindings of an earlier leadership survive in the view of a later one |
| `AtMostOnce` without its conditions | `write` | two calls pass the first check; or a request known from another leader's log is proposed again (835, 496) |
| `PendingIsInLog` without its condition | `write` | a pending record outlives its truncated entry (301) |
| `DedupCoversApplied` without `~forgot` | `snapshot` | a crash between the commit of the snapshot and `SaveTo` (2114), or the rename of an installed table (793) |
| `AppendPossible` | `snapshot` | a crash between the commit of an installed snapshot and the truncation of the log (2168), or an entry that is stored between that truncation and the new `last_snapshot_index_` (2175), leaves a log short of the snapshot, and `WAL::Append` takes nothing more |
| `CommittedIsApplied` without its condition | `snapshot`, one installer, 3 entries, no crash, no constraint | the apply thread stores its index over the installed one (1999) and waits for an entry the install has truncated |
| `SnapshotIntact`, `WalReplayable`, `NothingLost`, `DedupCoversApplied` with two tasks that meet (`Disturbed` without `Meeting`) | `snapshot` | two installs, or a local snapshot and an install, share `snapshot.tmp`, `snapshot.meta.tmp` and `dedup.bin.tmp`: the rename of one commits the half-written file of the other, and the older of two finishes last (2077) |
| `SnapshotIntact`, `WalReplayable`, `NothingLost` with an older install (without `Older`) | `snapshot` | the log of a node with a snapshot at 3 begins at 3; an install at 1 renames its file and its `snapshot.meta` over them, and entry 2 is nowhere (787, 2168) |
| `SnapshotIntact`, `NothingLost`, `DedupCoversApplied` with the apply thread beyond the install (without `Crossing`) | `snapshot` | that thread executes its entry on the replaced index or records it in the replaced table, and publishes it as applied (1999, 2164, 2178); the next local snapshot is saved without it |
| `FlushedSurvives` | `wal` with power failures | `RotateSegment` closes a full segment without `fdatasync` and `Flush` synchronises only the active one (`wal.cpp` 270) |
| `Contiguous` | `wal`, `CrashPoints` with `"suffix"` | a crash inside `TruncateSuffix` leaves a hole that recovery accepts (`wal.cpp` 728) |
| `CommitNeverRegresses` | `chain` | a handler stores the commit index it computed before another handler stored a higher one (508) |
| `WindowRespected` | `chain` | two forwards pass the check of the window before either is counted (1584); a higher term also clears the counter (1066-1069) under calls that wait on |
| `AlwaysAgrees` | `chain` | a mentor that holds entries of an earlier leader behind what it shares with the new one forwards them when a request that it stores reaches it, and the follower stores them |
| `AlwaysDelivers` | `chain` | the mentor's diverged entry is read for a forward, replaced by the leader, and sent; the follower acknowledges the length of its log (529), the mentor takes its own new entry for delivered and sends no more |
| `OnlyItsMentor` | `chain` | a request's topology is taken over before its sender is compared with it (391-401): a former mentor that still believes in the binding is accepted, although the comment (397) says only the mentor and the leader are |
| `ChainDeliversQuietly` | `chain` | a lost or skipped last forward is repeated only when the mentor receives more entries |
| `ChainDelivers` | `chain`, `Window = 2` | each of two overlapping forwards sets `next_index` back up to where it was when the other began (1629) |
| `LeaseAlwaysExclusive` | `reads` | voters do not ask when they last heard of a leader, and a lease may rest on a mere quorum or on answers given long before the round ended, or on the answer of a node that has already found its deadline in the past and becomes a candidate all the same (2470-2477): another node is elected while it holds (553, 1275) |
| `ReadsAlwaysFresh` | `reads` | such a leader answers a search without a write that its successor has acknowledged |
| `LeaseOnlyWhileLeading` | `reads` | a round that ends after its node stepped down renews the lease (1275) |
| `CacheIsALeader` | `reads` | `WithRetry` caches the follower that forwarded a search (`db_client.hpp` 105) |
| `NoEndlessWalk` | `index`, `MaxWrites = 6` | a lookup without an empty cell: tombstones are never reclaimed until the table grows (`index_plugins.hpp` 5179) |
| `NoOverrun` | `index`, `MaxWrites = 6` | a stale slot number lies behind the end of a compacted graph |
| `WorkerTargetAlive` | `index`, `MaxWrites = 6` | the worker uses an index that an installed snapshot has replaced and freed (`index_maintenance.cpp` 81) |
| `LookupAgrees`, `ContentMatches` without their conditions | `index`, `MaxWrites = 6` | a compaction moves nodes; lookup and ring keep the old slots, and later writes hit other keys (`index.hpp` 4048) |
| `SearchComplete` | `index` | a reused slot drops the links through which other keys were reached (`index.hpp` 3391) |
| `DeletedCountMatches` without `drift` | `index`, `MaxWrites = 6` | `Compact` sets the count to zero and leaves the ring as it is |

Also seen: `Check` subtracts a size read later than the number of slots, which wraps when a
write came between (`index_maintenance.cpp` 46); `pipeline_window_size` and
`batch_max_entries` are accepted as 0 (`config.cpp` 223), with which nothing is ever sent.

## 6. Not modelled

- Snapshots sent by a leader or a mentor (`SendSnapshotToPeer`), other than by what the
  receiver does.
- In usearch: metrics, SIMD kernels, quantisation, memory-mapped views, filters, clustering,
  joins, its thread pool (searches and writes are single steps under the index's lock), and
  the growth of buffers when memory runs out at other places than `Upsert`.
- The pauses of `WithRetry`, whose lengths nothing depends on; gRPC channels and stubs.
- Failing disks (an error of `write`, `rename` or `fdatasync`); configuration changes, which
  the program does not have; single-node clusters.
- Record and protobuf encodings, CRC32, TOML, logging and the benchmark: no protocol state.

## 7. Plan

Done: the modules above, in the order election, replication, topology, client writes,
snapshots, WAL, index, forwarding, reads. What is left:

1. Proofs: the count of removed slots (`DeletedCountMatches`), which needs the length of the
   ring beside its members; a commit index of replication that never regresses.
2. Leader-sent snapshots in replication (`SendSnapshotToPeer`), with
   `last_snapshot_index_` lowered by a local snapshot.
3. Chains of two mentors that exchange their followers.
