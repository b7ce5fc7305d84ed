--------------------------- MODULE PeerReplication ---------------------------
(***************************************************************************)
(* Log replication by one leader during one term: Propose, ReplicationLoop *)
(* / ReplicatePeerOnce with its pipeline window, the AppendEntries handler *)
(* of the peers, the leader's RPC callback (ack, conflict, rollback,       *)
(* failure), MaybeCommit, the commit index carried by heartbeats, and      *)
(* snapshots taken by a peer.                                              *)
(*                                                                         *)
(* A log is the sequence of the terms of its entries, as long as the WAL's *)
(* last_index_, with 0 in the place of an entry that the WAL does not hold *)
(* (it takes any index for its first entry).  One leader per term makes    *)
(* (index, term) the identity of an entry.  Every call runs on its own     *)
(* thread, so requests and responses arrive in any order.  Topology        *)
(* (which peers the leader serves itself) is not modelled: the leader      *)
(* serves all of them, as it does in direct and quorum-edge mode.  The     *)
(* leader takes no snapshot, and WAL segments below a snapshot stay        *)
(* readable (TruncateBefore only drops whole segments).  A cluster of one  *)
(* node, which commits inside Propose, is left out.                        *)
(*                                                                         *)
(* Atomic in the model: the handler's consistency check; its flush, commit *)
(* and reply; the leader's reading of a batch; an ack with the MaybeCommit *)
(* that follows it.  Between them every interleaving is possible.          *)
(***************************************************************************)
EXTENDS Naturals, Sequences, FiniteSets

CONSTANTS
    Leader, Peers,     \* the leader of the term, and the other nodes
    LeaderTerm,        \* its term
    LeaderLog,         \* its log when it is elected, before the no-op
    PeerLogs,          \* the logs a peer may have then
    Window,            \* config_.raft.pipeline_window_size
    BatchMax,          \* config_.raft.batch_max_entries
    MaxHandlers,       \* AppendEntries calls a peer serves at the same time
    MaxCalls,          \* bound: calls of the leader to one peer that exist at a time
    MaxProposals,      \* bound: client entries in a behaviour
    MaxLost,           \* bound: calls that time out
    MaxHeartbeatLost,  \* bound: heartbeats that fail
    MaxFailures,       \* bound: rollback_failures counts no further
    MaxSnapshots,      \* bound: snapshots taken by peers
    Reachable          \* the peers whose calls are served and answered (fairness only)

ASSUME ReplicationAssumption ==
    /\ IsFiniteSet(Peers) /\ Peers # {} /\ Leader \notin Peers
    /\ LeaderTerm \in Nat \ {0}
    /\ LeaderLog \in Seq(1..(LeaderTerm - 1)) /\ PeerLogs \subseteq Seq(0..(LeaderTerm - 1))
    /\ {Window, BatchMax, MaxHandlers, MaxCalls, MaxFailures} \subseteq Nat \ {0}
    /\ {MaxProposals, MaxLost, MaxHeartbeatLost, MaxSnapshots} \subseteq Nat
    /\ Reachable \subseteq Peers

Nodes == Peers \cup {Leader}
QuorumSize == Cardinality(Nodes) \div 2 + 1

VARIABLES
    log,             \* the WAL of every node
    commit_index,    \* of every node
    snapshot,        \* last_snapshot_index_ and last_snapshot_term_ of every peer
    flushed_index,   \* of the leader: what Propose has fdatasync'ed
    progress,        \* peer_progress_ of the leader
    draft,           \* the request ReplicatePeerOnce is building
    calls,           \* AppendEntries calls, from the request to the callback
    spent,           \* how much of each bound has been used
    misled           \* history: the peers that began with a hole in their log, cut off an
                     \* entry the leader had sent, or answered with entries behind the
                     \* request that are not the leader's

vars == <<log, commit_index, snapshot, flushed_index, progress, draft, calls, spent, misled>>

MinOf(a, b) == IF a <= b THEN a ELSE b
MaxOf(a, b) == IF a >= b THEN a ELSE b

-----------------------------------------------------------------------------
(* The WAL.                                                                *)

\* offset_index_: the indices whose entries the WAL holds.
Held(l) == {i \in DOMAIN l : l[i] # 0}

\* WAL::TruncateSuffix: nothing to do for a WAL without entries or without this one.
TruncateSuffix(l, i) == IF Held(l) = {} \/ i > Len(l) THEN l ELSE SubSeq(l, 1, i - 1)

\* WAL::Append: a WAL that holds entries takes the next index only, an empty one any.
CanAppend(l, i) == Held(l) = {} \/ i = Len(l) + 1
Appended(l, i, t) ==
    IF Held(l) = {} THEN [j \in 1..i |-> IF j = i THEN t ELSE 0] ELSE Append(l, t)

\* LogicalLastIndex and TermAtLogicalIndex of a peer.
LastIndex(p) == MaxOf(snapshot[p].index, Len(log[p]))
TermAt(p, i) ==
    IF i = 0 THEN 0 ELSE IF i = snapshot[p].index THEN snapshot[p].term ELSE log[p][i]
\* The same for the leader, which has no snapshot.
LeaderLast == Len(log[Leader])
LeaderTermAt(i) == IF i = 0 THEN 0 ELSE log[Leader][i]
LastTermOf(l) == IF l = <<>> THEN 0 ELSE l[Len(l)]

\* IsCandidateLogUpToDateLocked: would a node with log l vote for candidate log c?
UpToDate(c, l) ==
    IF LastTermOf(c) # LastTermOf(l) THEN LastTermOf(c) > LastTermOf(l) ELSE Len(c) >= Len(l)

\* Where l and k hold a common entry they hold no different ones before it.
Matching(l, k) ==
    \A i \in Held(l) \cap Held(k) :
        l[i] = k[i] => \A j \in Held(l) \cap Held(k) : j <= i => l[j] = k[j]

FreshProgress(next) ==
    [next |-> next, match |-> 0, in_flight |-> 0, anchor |-> 0, failures |-> 0]

NoDraft == [peer |-> Leader, prev |-> 0, prev_term |-> 0, entries |-> <<>>, commit |-> 0]

\* BecomeLeader has appended and flushed the no-op and reset peer_progress_; a quorum of
\* nodes, the leader included, had logs that let them vote for it.
Init ==
    /\ log \in [Nodes -> PeerLogs \cup {Append(LeaderLog, LeaderTerm)}]
    /\ log[Leader] = Append(LeaderLog, LeaderTerm)
    /\ \A p \in Peers : log[p] \in PeerLogs
    /\ \A m, n \in Nodes : Matching(log[m], log[n])
    /\ Cardinality({Leader} \cup {p \in Peers : UpToDate(LeaderLog, log[p])}) >= QuorumSize
    /\ commit_index = [n \in Nodes |-> 0]
    /\ snapshot = [p \in Peers |-> [index |-> 0, term |-> 0]]
    /\ flushed_index = LeaderLast
    /\ progress = [p \in Peers |-> FreshProgress(LeaderLast + 1)]
    /\ draft = NoDraft
    /\ calls = {}
    /\ spent = [proposals |-> 0, lost |-> 0, heartbeats |-> 0, snapshots |-> 0]
    /\ misled = {p \in Peers : Held(log[p]) # DOMAIN log[p]}

-----------------------------------------------------------------------------
(* Propose: append, wake the pipeline, fdatasync.  The lock it holds keeps *)
(* other proposals out, and nobody else.                                   *)

ProposeAppend ==
    /\ spent.proposals < MaxProposals
    /\ flushed_index = LeaderLast
    /\ log' = [log EXCEPT ![Leader] = Append(@, LeaderTerm)]
    /\ spent' = [spent EXCEPT !.proposals = @ + 1]
    /\ UNCHANGED <<commit_index, snapshot, flushed_index, progress, draft, calls, misled>>

\* No MaybeCommit here: only the callback of an acknowledged call runs it.
ProposeFlush ==
    /\ flushed_index < LeaderLast
    /\ flushed_index' = LeaderLast
    /\ UNCHANGED <<log, commit_index, snapshot, progress, draft, calls, spent, misled>>

-----------------------------------------------------------------------------
(* ReplicatePeerOnce: reads progress, builds the request, then books it.   *)

ReplicateRead(p) ==
    LET next == progress[p].next
        entries == SubSeq(log[Leader], next, MinOf(LeaderLast, next + BatchMax - 1))
    IN
    /\ draft = NoDraft
    /\ progress[p].in_flight < Window
    /\ entries # <<>> \/ progress[p].match < LeaderLast
    /\ next - 1 <= LeaderLast
    /\ draft' = [peer |-> p, prev |-> next - 1, prev_term |-> LeaderTermAt(next - 1),
                 entries |-> entries, commit |-> commit_index[Leader]]
    /\ UNCHANGED <<log, commit_index, snapshot, flushed_index, progress, calls, spent,
                   misled>>

CallIds(p) == {c.id : c \in {d \in calls : d.peer = p}}

ReplicateSend ==
    LET p == draft.peer IN
    /\ draft # NoDraft
    /\ \E id \in 1..MaxCalls :
           /\ id \notin CallIds(p)
           /\ \A j \in 1..(id - 1) : j \in CallIds(p)
           /\ calls' = calls \cup
                  {[id |-> id, peer |-> p, prev |-> draft.prev, prev_term |-> draft.prev_term,
                    entries |-> draft.entries, commit |-> draft.commit, phase |-> "sent",
                    pos |-> 1, hint |-> 0, awaited |-> TRUE]}
    /\ progress' = [progress EXCEPT ![p].in_flight = @ + 1,
                                    ![p].next = @ + Len(draft.entries)]
    /\ draft' = NoDraft
    /\ UNCHANGED <<log, commit_index, snapshot, flushed_index, spent, misled>>

-----------------------------------------------------------------------------
(* HandleAppendEntries on a peer, in the leader's term.  The WAL locks each *)
(* operation; nothing locks the sequence of them.                          *)

Replace(c, d) == calls' = (calls \ {c}) \cup {d}

\* The handler ends: its answer goes back if the caller still waits, else nowhere.
Answer(c, phase, hint) ==
    IF c.awaited THEN Replace(c, [c EXCEPT !.phase = phase, !.hint = hint, !.pos = 1])
                 ELSE calls' = calls \ {c}

Busy(p) == Cardinality({c \in calls : c.peer = p /\ c.phase \in {"loop", "truncate", "append"}})

\* The first index of the run of entries with the term of entry i, above the snapshot.
RunStart(p, i) ==
    CHOOSE j \in (snapshot[p].index + 1)..i :
        /\ \A k \in j..i : log[p][k] = log[p][i]
        /\ j > snapshot[p].index + 1 => log[p][j - 1] # log[p][i]

\* Mutant: the term of the previous entry is not compared.
ConflictIgnoresTerm(p, prev, prev_term) ==
    IF prev > LastIndex(p) THEN LastIndex(p) + 1
    ELSE IF prev < snapshot[p].index THEN snapshot[p].index + 1
    ELSE 0

\* The conflict index answered to a request that does not fit, 0 for one that does.
Conflict(p, prev, prev_term) ==
    IF prev > LastIndex(p) THEN LastIndex(p) + 1
    ELSE IF prev < snapshot[p].index THEN snapshot[p].index + 1
    ELSE IF prev = 0 \/ TermAt(p, prev) = prev_term THEN 0
    ELSE IF TermAt(p, prev) = 0 THEN snapshot[p].index + 1
    ELSE IF prev = snapshot[p].index THEN prev
    ELSE RunStart(p, prev)

HandleCheck(c) ==
    LET conflict == Conflict(c.peer, c.prev, c.prev_term) IN
    /\ c.phase = "sent"
    /\ Busy(c.peer) < MaxHandlers
    /\ IF conflict = 0 THEN Replace(c, [c EXCEPT !.phase = "loop", !.pos = 1])
                       ELSE Answer(c, "conflict", conflict)
    /\ UNCHANGED <<log, commit_index, snapshot, flushed_index, progress, draft, spent,
                   misled>>

\* Mutant: an entry that is there is kept, whatever its term.
HandleReadKeeps(c) ==
    /\ c.phase = "loop" /\ c.pos <= Len(c.entries)
    /\ Replace(c, IF c.prev + c.pos \in Held(log[c.peer])
                  THEN [c EXCEPT !.pos = @ + 1]
                  ELSE [c EXCEPT !.phase = "append"])
    /\ UNCHANGED <<log, commit_index, snapshot, flushed_index, progress, draft, spent,
                   misled>>

\* wal_->Read of the next entry: present with this term, with another one, or absent.
\* (The test for an entry inside the snapshot never fires: prev is not below it.)
HandleRead(c) ==
    LET p == c.peer
        i == c.prev + c.pos
    IN
    /\ c.phase = "loop" /\ c.pos <= Len(c.entries)
    /\ Replace(c, IF i \in Held(log[p]) /\ log[p][i] = c.entries[c.pos]
                  THEN [c EXCEPT !.pos = @ + 1]
                  ELSE IF i \in Held(log[p]) THEN [c EXCEPT !.phase = "truncate"]
                  ELSE [c EXCEPT !.phase = "append"])
    /\ UNCHANGED <<log, commit_index, snapshot, flushed_index, progress, draft, spent,
                   misled>>

\* Another handler may have replaced the entry since it was read.
HandleTruncate(c) ==
    LET p == c.peer
        i == c.prev + c.pos
    IN
    /\ c.phase = "truncate"
    /\ log' = [log EXCEPT ![p] = TruncateSuffix(@, i)]
    /\ misled' = IF i \in Held(log[p]) /\ log[p][i] = c.entries[c.pos]
                 THEN misled \cup {p} ELSE misled
    /\ Replace(c, [c EXCEPT !.phase = "append"])
    /\ UNCHANGED <<commit_index, snapshot, flushed_index, progress, draft, spent>>

\* Mutant: the WAL appends wherever its end is.
HandleAppendAnywhere(c) ==
    /\ c.phase = "append"
    /\ log' = [log EXCEPT ![c.peer] = Append(@, c.entries[c.pos])]
    /\ Replace(c, [c EXCEPT !.phase = "loop", !.pos = @ + 1])
    /\ UNCHANGED <<commit_index, snapshot, flushed_index, progress, draft, spent, misled>>

\* A refused append ends the call with an error.
HandleAppend(c) ==
    LET p == c.peer
        i == c.prev + c.pos
    IN
    /\ c.phase = "append"
    /\ \/ /\ CanAppend(log[p], i)
          /\ log' = [log EXCEPT ![p] = Appended(@, i, c.entries[c.pos])]
          /\ Replace(c, [c EXCEPT !.phase = "loop", !.pos = @ + 1])
       \/ /\ ~CanAppend(log[p], i)
          /\ Answer(c, "error", 0)
          /\ UNCHANGED log
    /\ UNCHANGED <<commit_index, snapshot, flushed_index, progress, draft, spent, misled>>

RaiseCommit(p, leader_commit) ==
    commit_index' = [commit_index EXCEPT ![p] = MaxOf(@, MinOf(leader_commit, LastIndex(p)))]

\* What the handler reports as match_index: its own last index.
MatchIndex(c) == LastIndex(c.peer)

\* Peer p holds the leader's entry i.
Shared(p, i) == i \in Held(log[p]) /\ i <= LeaderLast /\ log[p][i] = log[Leader][i]

\* The entries that peer p holds up to k are the leader's.
Agrees(p, k) == \A i \in 1..k : i \in Held(log[p]) => Shared(p, i)

\* The answer counts an entry behind the request which is not the leader's.
CountsTail(c) ==
    \E i \in (c.prev + Len(c.entries) + 1)..MatchIndex(c) : ~Shared(c.peer, i)

HandleFinish(c) ==
    /\ c.phase = "loop" /\ c.pos > Len(c.entries)
    /\ RaiseCommit(c.peer, c.commit)
    /\ Answer(c, "ok", MatchIndex(c))
    /\ misled' = IF CountsTail(c) THEN misled \cup {c.peer} ELSE misled
    /\ UNCHANGED <<log, snapshot, flushed_index, progress, draft, spent>>

Handle(c) ==
    HandleCheck(c) \/ HandleRead(c) \/ HandleTruncate(c) \/ HandleAppend(c) \/ HandleFinish(c)

-----------------------------------------------------------------------------
(* The leader's callback.                                                  *)

\* Mutant: the leader counts itself for entries it has not flushed.
CommittableUnflushed(match) ==
    LET Holders(i) == {p \in Peers : match[p] >= i} \cup {Leader}
        S == {i \in (commit_index[Leader] + 1)..LeaderLast :
                  log[Leader][i] = LeaderTerm /\ Cardinality(Holders(i)) >= QuorumSize}
    IN  IF S = {} THEN commit_index[Leader] ELSE CHOOSE i \in S : \A j \in S : j <= i

\* The highest index of the current term that a quorum holds, or the old commit index.
Committable(match) ==
    LET Holders(i) == {p \in Peers : match[p] >= i}
                          \cup (IF flushed_index >= i THEN {Leader} ELSE {})
        S == {i \in (commit_index[Leader] + 1)..LeaderLast :
                  log[Leader][i] = LeaderTerm /\ Cardinality(Holders(i)) >= QuorumSize}
    IN  IF S = {} THEN commit_index[Leader] ELSE CHOOSE i \in S : \A j \in S : j <= i

\* Mutant: the count of calls in flight is not kept from underflowing.
DecrementUnguarded(n) == n - 1

Decrement(n) == IF n > 0 THEN n - 1 ELSE 0

\* UpdatePeerAck, then MaybeCommit.
OnSuccess(c) ==
    LET g == progress[c.peer] IN
    /\ c.phase = "ok" /\ c.awaited
    /\ progress' = [progress EXCEPT ![c.peer] =
           [next |-> MaxOf(g.next, c.hint + 1), match |-> MaxOf(g.match, c.hint),
            in_flight |-> Decrement(g.in_flight), anchor |-> 0, failures |-> 0]]
    /\ commit_index' = [commit_index EXCEPT
           ![Leader] = Committable([p \in Peers |-> progress'[p].match])]
    /\ calls' = calls \ {c}
    /\ UNCHANGED <<log, snapshot, flushed_index, draft, spent, misled>>

LinearThreshold == MaxOf(1, 2 * Window)

\* ApplyPeerRollbackStateLocked: linear retreat, exponential beyond the threshold.
Rollback(g, attempted, conflict) ==
    LET from == IF g.anchor = 0 THEN attempted ELSE g.anchor
        anchor == IF conflict # 0 /\ conflict < from THEN conflict ELSE from
        failures == MinOf(g.failures + 1, MaxFailures)
        retreat == IF failures > LinearThreshold
                   THEN LinearThreshold + 2 ^ MinOf(failures - LinearThreshold - 1, 20)
                   ELSE failures
    IN  [next |-> IF anchor > retreat THEN anchor - retreat ELSE 1,
         match |-> g.match, in_flight |-> 0, anchor |-> anchor, failures |-> failures]

OnConflict(c) ==
    LET g == progress[c.peer] IN
    /\ c.phase = "conflict" /\ c.awaited
    /\ progress' = [progress EXCEPT ![c.peer] =
           IF c.hint > 0 /\ c.hint < c.prev + 1
           THEN [next |-> c.hint, match |-> g.match, in_flight |-> 0,
                 anchor |-> 0, failures |-> 0]
           ELSE Rollback(g, c.prev + 1, c.hint)]
    /\ calls' = calls \ {c}
    /\ UNCHANGED <<log, commit_index, snapshot, flushed_index, draft, spent, misled>>

\* Mutant: a failed call does not give its place in the window back.
FailedKeepsPlace(p, restore) ==
    progress' = [progress EXCEPT ![p].next = IF restore > 0 THEN MinOf(@, restore) ELSE @]

\* UpdatePeerFailure with the next index of the failed request.
Failed(p, restore) ==
    progress' = [progress EXCEPT ![p].in_flight = Decrement(@),
                                 ![p].next = IF restore > 0 THEN MinOf(@, restore) ELSE @]

OnError(c) ==
    /\ c.phase = "error" /\ c.awaited
    /\ Failed(c.peer, c.prev + 1)
    /\ calls' = calls \ {c}
    /\ UNCHANGED <<log, commit_index, snapshot, flushed_index, draft, spent, misled>>

\* The deadline of the call expires; the request may be gone, still on its way, inside
\* the handler, or answered too late.
OnTimeout(c) ==
    /\ c.awaited
    /\ spent.lost < MaxLost
    /\ spent' = [spent EXCEPT !.lost = @ + 1]
    /\ Failed(c.peer, c.prev + 1)
    /\ \/ c.phase \in {"sent", "ok", "conflict", "error"} /\ calls' = calls \ {c}
       \/ /\ c.phase \in {"sent", "loop", "truncate", "append"}
          /\ Replace(c, [c EXCEPT !.awaited = FALSE])
    /\ UNCHANGED <<log, commit_index, snapshot, flushed_index, draft, misled>>

-----------------------------------------------------------------------------
(* Heartbeats and peer snapshots.                                          *)

\* HandleHeartbeat trusts any commit index the leader has passed, for whatever log the
\* peer has.
HeartbeatCommit(p) ==
    /\ \E commit \in 1..commit_index[Leader] : RaiseCommit(p, commit)
    /\ UNCHANGED <<log, snapshot, flushed_index, progress, draft, calls, spent, misled>>

\* A failed heartbeat runs UpdatePeerFailure although no batch was in flight for it.
HeartbeatFails(p) ==
    /\ spent.heartbeats < MaxHeartbeatLost
    /\ spent' = [spent EXCEPT !.heartbeats = @ + 1]
    /\ Failed(p, 0)
    /\ UNCHANGED <<log, commit_index, snapshot, flushed_index, draft, calls, misled>>

\* The snapshot thread of a peer finishes a snapshot of a prefix that was applied.
TakeSnapshot(p) ==
    /\ spent.snapshots < MaxSnapshots
    /\ spent' = [spent EXCEPT !.snapshots = @ + 1]
    /\ \E i \in (snapshot[p].index + 1)..MinOf(commit_index[p], Len(log[p])) :
           /\ log[p][i] # 0
           /\ snapshot' = [snapshot EXCEPT ![p] = [index |-> i, term |-> log[p][i]]]
    /\ UNCHANGED <<log, commit_index, flushed_index, progress, draft, calls, misled>>

Callback(c) == OnSuccess(c) \/ OnConflict(c) \/ OnError(c)

Next ==
    \/ ProposeAppend \/ ProposeFlush \/ ReplicateSend
    \/ \E p \in Peers : ReplicateRead(p) \/ HeartbeatCommit(p) \/ HeartbeatFails(p)
                            \/ TakeSnapshot(p)
    \/ \E c \in calls : Handle(c) \/ Callback(c) \/ OnTimeout(c)

Spec == Init /\ [][Next]_vars

\* The replication thread keeps visiting its peers (it polls every
\* batch_flush_interval_us), fdatasync returns, and the reachable peers serve and answer
\* what they receive.
FairSpec ==
    /\ Spec
    /\ WF_vars(ProposeFlush) /\ WF_vars(ReplicateSend)
    /\ \A p \in Reachable :
           /\ SF_vars(ReplicateRead(p))
           /\ WF_vars(\E c \in calls : c.peer = p /\ Handle(c))
           /\ WF_vars(\E c \in calls : c.peer = p /\ Callback(c))

-----------------------------------------------------------------------------
(* Properties.                                                             *)

Logs == Seq(0..LeaderTerm)
Entries == Seq(1..LeaderTerm)
Progress == [next: Nat \ {0}, match: Nat, in_flight: Nat, anchor: Nat, failures: Nat]
Call == [id: 1..MaxCalls, peer: Peers, prev: Nat, prev_term: Nat, entries: Entries,
         commit: Nat, phase: {"sent", "loop", "truncate", "append", "ok", "conflict", "error"},
         pos: Nat \ {0}, hint: Nat, awaited: BOOLEAN]
Draft == [peer: Peers, prev: Nat, prev_term: Nat, entries: Entries, commit: Nat]
Spent == [proposals: 0..MaxProposals, lost: 0..MaxLost, heartbeats: 0..MaxHeartbeatLost,
          snapshots: 0..MaxSnapshots]

TypeOK ==
    /\ log \in [Nodes -> Logs] /\ log[Leader] \in Entries
    /\ commit_index \in [Nodes -> Nat]
    /\ snapshot \in [Peers -> [index: Nat, term: Nat]]
    /\ flushed_index \in Nat
    /\ progress \in [Peers -> Progress]
    /\ draft \in Draft \cup {NoDraft}
    /\ calls \subseteq Call
    /\ spent \in Spent
    /\ misled \subseteq Peers

\* n holds the first k entries of the leader's log.
LeaderPrefix(n, k) == \A i \in 1..k : Shared(n, i)

\* Raft's Log Matching: whatever order requests arrive in and however the handlers of one
\* peer interleave their Read, TruncateSuffix and Append calls, two logs that hold the
\* same entry hold no different entries before it.  (That they hold the same ones would be
\* too much: the WAL takes any index for its first entry.)
LogMatching == \A m, n \in Nodes : Matching(log[m], log[n])

\* A request is a piece of the leader's log.
IsLeaderPiece(r) ==
    /\ r.prev <= LeaderLast
    /\ r.prev_term = LeaderTermAt(r.prev)
    /\ \A j \in 1..Len(r.entries) :
           r.prev + j <= LeaderLast /\ r.entries[j] = log[Leader][r.prev + j]

\* A handler that has passed the consistency check stands at the end of a prefix of the
\* leader's log, whatever the other handlers have done to the log since.
Aligned(c) ==
    c.phase \in {"loop", "truncate", "append"} =>
        /\ Agrees(c.peer, c.prev + c.pos - 1)
        /\ c.phase # "loop" => c.pos <= Len(c.entries)

\* A snapshot taken before its last entry was overwritten vouches for that entry only as
\* long as the log still holds it; otherwise the log is the leader's up to there.
SnapshotsAligned ==
    \A p \in Peers :
        \/ snapshot[p].index \in Held(log[p]) /\ log[p][snapshot[p].index] = snapshot[p].term
        \/ Agrees(p, snapshot[p].index)

\* Entries of the leader's term come from its log.
OwnTermFromLeader ==
    \A p \in Peers : \A i \in DOMAIN log[p] : log[p][i] = LeaderTerm => i <= LeaderLast

\* The inductive invariant behind LogMatching.
ReplicationInv ==
    /\ LogMatching
    /\ IsLeaderPiece(draft)
    /\ \A c \in calls : IsLeaderPiece(c) /\ Aligned(c)
    /\ SnapshotsAligned
    /\ OwnTermFromLeader

\* What the leader believes a peer has matched, the peer holds, entry by entry and without
\* a hole, for as long as the leader believes it (UpdatePeerAck stores the match_index of
\* the response).  The exceptions are the peers in misled: their log had a hole at first, or
\* a handler's TruncateSuffix came after another handler had put the leader's entry there,
\* or a response counted a diverged tail behind the entries of the request.
AcksAreReal == \A p \in Peers \ misled : LeaderPrefix(p, progress[p].match)

\* The same without the exceptions, which the code does not keep.
AcksAlwaysReal == \A p \in Peers : LeaderPrefix(p, progress[p].match)

\* No peer has a hole in its log, which the code does not keep either.
NoHole == \A p \in Peers : Held(log[p]) = DOMAIN log[p]

\* What the leader has committed is on a quorum of logs, the leader's own being counted
\* for what it has flushed and a misled peer for what it has acknowledged: MaybeCommit
\* counts nothing else, and what it counted stays.
CommittedOnQuorum ==
    LET k == commit_index[Leader] IN
    Cardinality({n \in Nodes : IF n = Leader THEN flushed_index >= k
                               ELSE IF n \in misled THEN progress[n].match >= k
                               ELSE LeaderPrefix(n, k)}) >= QuorumSize

\* A peer commits, and so applies, only what the leader has.
PeerCommitsLeaderEntries == \A p \in Peers : LeaderPrefix(p, commit_index[p])

\* The leader never waits for more calls to a peer than the pipeline window.
WindowRespected ==
    \A p \in Peers : Cardinality({c \in calls : c.peer = p /\ c.awaited}) <= Window

\* Whatever was lost, every reachable peer ends up with the leader's log.
CatchUp == \A p \in Reachable : <>[](log[p] = log[Leader])

\* With a quorum reachable, the leader commits everything it has accepted.
EverythingCommits == <>[](commit_index[Leader] = LeaderLast)
=============================================================================
