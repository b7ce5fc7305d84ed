---------------------------- MODULE RaftElection ----------------------------
(***************************************************************************)
(* Terms, votes and roles of RaftNode: the election thread, the heartbeat  *)
(* thread and the RequestVote / Heartbeat handlers of every node, at the   *)
(* granularity of the code's critical sections.  state_mutex_ is not held  *)
(* across the steps of a handler, so every unlock is a point where another *)
(* thread of the same node may run.                                        *)
(*                                                                         *)
(* Abstractions: the log is not kept, so the outcome of                    *)
(* IsCandidateLogUpToDateLocked is any member of UpToDateChoices; timers   *)
(* are not kept, so an election deadline may expire whenever the election  *)
(* thread looks; a crash and the restart that follows are one step.        *)
(***************************************************************************)
EXTENDS Naturals, FiniteSets

CONSTANTS
    Server,            \* the nodes of the cluster (config_.cluster.peers + self)
    Nil,               \* the empty voted_for_
    Candidates,        \* the nodes whose election deadline may expire
    MaxTerm,           \* bound: no election beyond this term
    MaxRestarts,       \* bound: crashes in a behaviour
    MaxLost,           \* bound: RPCs that time out or whose response is lost
    MaxRounds,         \* bound: heartbeat rounds in a behaviour
    UpToDateChoices    \* the outcomes the log comparison may have

ASSUME ServerAssumption == IsFiniteSet(Server) /\ Nil \notin Server /\ Candidates \subseteq Server
ASSUME BoundAssumption == MaxTerm \in Nat /\ MaxRestarts \in Nat
                          /\ MaxLost \in Nat /\ MaxRounds \in Nat
ASSUME ChoiceAssumption == UpToDateChoices \subseteq BOOLEAN

VARIABLES
    current_term, voted_for, state,  \* the fields of RaftNode
    meta,          \* the RaftMeta file of each node: survives a crash
    election,      \* the local variables of StartElection, with its control point
    heartbeat,     \* the local variables of BroadcastHeartbeat
    requests,      \* RPCs in the network or inside a handler
    restarts,      \* crashes so far
    lost,          \* RPCs lost so far
    rounds,        \* heartbeat rounds so far
    votes_cast,    \* history: <<voter, candidate, term>> of every vote given
    forgotten,     \* history: <<voter, term>> of every vote the voter may have lost track of
    late           \* history: the leaders whose term changed between count and BecomeLeader

bounds == <<restarts, lost, rounds>>
nodeVars == <<current_term, voted_for, state, meta, forgotten, late>>
vars == <<nodeVars, election, heartbeat, requests, bounds, votes_cast>>

Term == 0..MaxTerm

\* Mutants: half of the cluster is taken for a majority; every node has to vote.
QuorumSizeHalf == Cardinality(Server) \div 2
QuorumSizeAll == Cardinality(Server)

QuorumSize == Cardinality(Server) \div 2 + 1
IsQuorum(S) == Cardinality(S) >= QuorumSize
MaxOf(a, b) == IF a >= b THEN a ELSE b

Request == [kind: {"vote", "heartbeat"}, from: Server, to: Server, term: Term,
            phase: {"sent", "locking", "role", "demote", "vote"}, awaited: BOOLEAN]

IdleElection == [pc |-> "idle", term |-> 0, votes |-> {}, highest |-> 0]
IdleHeartbeat == [pc |-> "idle", term |-> 0, highest |-> 0]

TypeOK ==
    /\ current_term \in [Server -> Term]
    /\ voted_for \in [Server -> Server \cup {Nil}]
    /\ state \in [Server -> {"follower", "candidate", "leader"}]
    /\ meta \in [Server -> [term: Term, voted_for: Server \cup {Nil}]]
    /\ election \in [Server -> [pc: {"idle", "prepare", "wait", "won"}, term: Term,
                                votes: SUBSET Server, highest: Term]]
    /\ heartbeat \in [Server -> [pc: {"idle", "term", "wait"}, term: Term, highest: Term]]
    /\ requests \subseteq Request
    /\ restarts \in 0..MaxRestarts
    /\ lost \in 0..MaxLost
    /\ rounds \in 0..MaxRounds
    /\ votes_cast \subseteq (Server \X Server \X Term)
    /\ forgotten \subseteq (Server \X Term)
    /\ late \subseteq Server

Init ==
    /\ current_term = [n \in Server |-> 0]
    /\ voted_for = [n \in Server |-> Nil]
    /\ state = [n \in Server |-> "follower"]
    /\ meta = [n \in Server |-> [term |-> 0, voted_for |-> Nil]]
    /\ election = [n \in Server |-> IdleElection]
    /\ heartbeat = [n \in Server |-> IdleHeartbeat]
    /\ requests = {}
    /\ restarts = 0
    /\ lost = 0
    /\ rounds = 0
    /\ votes_cast = {}
    /\ forgotten = {}
    /\ late = {}

-----------------------------------------------------------------------------
(* Role changes: one critical section of state_mutex_ each.                *)

\* Mutant: the vote is not saved with the term.
PersistTermOnly(n, t, v) == meta' = [meta EXCEPT ![n].term = t]

PersistMeta(n, t, v) == meta' = [meta EXCEPT ![n] = [term |-> t, voted_for |-> v]]

\* Mutant: the check against a regressing term is dropped.
BecomeFollowerAnyTerm(n, t) ==
    /\ PersistMeta(n, t, Nil)
    /\ current_term' = [current_term EXCEPT ![n] = t]
    /\ voted_for' = [voted_for EXCEPT ![n] = Nil]
    /\ state' = [state EXCEPT ![n] = "follower"]
    /\ UNCHANGED <<forgotten, late>>

\* Fails, changing nothing, when the term would regress.  Otherwise the vote is
\* cleared on disk and in memory, also when t is the current term: then a vote that was
\* given in t is forgotten.
BecomeFollower(n, t) ==
    IF t < current_term[n]
    THEN UNCHANGED nodeVars
    ELSE /\ PersistMeta(n, t, Nil)
         /\ current_term' = [current_term EXCEPT ![n] = t]
         /\ voted_for' = [voted_for EXCEPT ![n] = Nil]
         /\ state' = [state EXCEPT ![n] = "follower"]
         /\ forgotten' = IF t = current_term[n] /\ voted_for[n] # Nil
                         THEN forgotten \cup {<<n, t>>} ELSE forgotten
         /\ UNCHANGED late

BecomeCandidate(n) ==
    LET next_term == current_term[n] + 1 IN
    /\ PersistMeta(n, next_term, n)
    /\ current_term' = [current_term EXCEPT ![n] = next_term]
    /\ voted_for' = [voted_for EXCEPT ![n] = n]
    /\ state' = [state EXCEPT ![n] = "candidate"]
    /\ votes_cast' = votes_cast \cup {<<n, n, next_term>>}
    /\ UNCHANGED <<forgotten, late>>

-----------------------------------------------------------------------------
(* RPC plumbing.                                                           *)

Send(kind, n, t) ==
    requests' = requests \cup
        {[kind |-> kind, from |-> n, to |-> p, term |-> t,
          phase |-> "sent", awaited |-> TRUE] : p \in Server \ {n}}

Advance(r, phase) == requests' = (requests \ {r}) \cup {[r EXCEPT !.phase = phase]}

\* The threads a round spawned have all been joined.
Joined(kind, n) == ~\E r \in requests : r.kind = kind /\ r.from = n /\ r.awaited

\* The handler returns.  The response reaches the caller's round if the caller still
\* waits for it, or is lost (an error status, a broken connection, a late answer).
Respond(r, term, granted) ==
    /\ requests' = requests \ {r}
    /\ \/ /\ r.awaited
          /\ r.kind = "vote"
          /\ election' = [election EXCEPT ![r.from] =
                 [pc |-> @.pc, term |-> @.term, highest |-> MaxOf(@.highest, term),
                  votes |-> IF granted THEN @.votes \cup {r.to} ELSE @.votes]]
          /\ UNCHANGED <<heartbeat, lost>>
       \/ /\ r.awaited
          /\ r.kind = "heartbeat"
          /\ heartbeat' = [heartbeat EXCEPT ![r.from].highest = MaxOf(@, term)]
          /\ UNCHANGED <<election, lost>>
       \/ /\ r.awaited
          /\ lost < MaxLost
          /\ lost' = lost + 1
          /\ UNCHANGED <<election, heartbeat>>
       \/ /\ ~r.awaited
          /\ UNCHANGED <<election, heartbeat, lost>>
    /\ UNCHANGED <<restarts, rounds>>

\* Mutant: the calls carry no deadline.
RpcTimeoutNever(r) == FALSE /\ UNCHANGED vars

\* The caller's deadline (raft_client) expires: its thread returns without a
\* response, while the request may still be on its way or inside the handler.
RpcTimeout(r) ==
    /\ r.awaited
    /\ lost < MaxLost
    /\ lost' = lost + 1
    /\ requests' = (requests \ {r}) \cup {[r EXCEPT !.awaited = FALSE]}
    /\ UNCHANGED <<nodeVars, election, heartbeat, restarts, rounds, votes_cast>>

-----------------------------------------------------------------------------
(* The election thread: ElectionLoop and StartElection.                    *)

ElectionTimeout(n) ==
    /\ n \in Candidates
    /\ election[n].pc = "idle"
    /\ state[n] # "leader"
    /\ current_term[n] < MaxTerm
    /\ BecomeCandidate(n)
    /\ election' = [election EXCEPT ![n].pc = "prepare"]
    /\ UNCHANGED <<heartbeat, requests, bounds>>

\* request.set_term(CurrentTerm()) is read after BecomeCandidate has unlocked.
SendRequestVotes(n) ==
    /\ election[n].pc = "prepare"
    /\ election' = [election EXCEPT ![n] =
           [pc |-> "wait", term |-> current_term[n], votes |-> {n},
            highest |-> current_term[n]]]
    /\ Send("vote", n, current_term[n])
    /\ UNCHANGED <<nodeVars, heartbeat, bounds, votes_cast>>

ElectionStepDown(n) ==
    /\ election[n].pc = "wait"
    /\ Joined("vote", n)
    /\ election[n].highest > election[n].term
    /\ BecomeFollower(n, election[n].highest)
    /\ election' = [election EXCEPT ![n] = IdleElection]
    /\ UNCHANGED <<heartbeat, requests, bounds, votes_cast>>

\* The candidacy is checked under the lock, which is released before BecomeLeader.
CountVotes(n) ==
    /\ election[n].pc = "wait"
    /\ Joined("vote", n)
    /\ election[n].highest <= election[n].term
    /\ election' = [election EXCEPT ![n] =
           IF /\ state[n] = "candidate"
              /\ current_term[n] = election[n].term
              /\ IsQuorum(election[n].votes)
           THEN [election[n] EXCEPT !.pc = "won"]
           ELSE IdleElection]
    /\ UNCHANGED <<nodeVars, heartbeat, requests, bounds, votes_cast>>

\* Takes the lock again and does not look at the role or the term.
BecomeLeader(n) ==
    /\ election[n].pc = "won"
    /\ state' = [state EXCEPT ![n] = "leader"]
    /\ late' = IF current_term[n] = election[n].term THEN late \ {n} ELSE late \cup {n}
    /\ election' = [election EXCEPT ![n] = IdleElection]
    /\ UNCHANGED <<current_term, voted_for, meta, forgotten, heartbeat, requests, bounds,
                   votes_cast>>

-----------------------------------------------------------------------------
(* HandleRequestVote.                                                      *)

\* CurrentTerm() is read without the lock.
RequestVoteEnter(r) ==
    /\ r.kind = "vote" /\ r.phase = "sent"
    /\ \/ /\ r.term < current_term[r.to]
          /\ Respond(r, current_term[r.to], FALSE)
       \/ /\ r.term >= current_term[r.to]
          /\ Advance(r, IF r.term > current_term[r.to] THEN "demote" ELSE "vote")
          /\ UNCHANGED <<election, heartbeat, bounds>>
    /\ UNCHANGED <<nodeVars, votes_cast>>

\* A failing BecomeFollower ends the RPC with an error.
RequestVoteDemote(r) ==
    /\ r.kind = "vote" /\ r.phase = "demote"
    /\ BecomeFollower(r.to, r.term)
    /\ IF r.term < current_term[r.to]
       THEN requests' = requests \ {r}
       ELSE Advance(r, "vote")
    /\ UNCHANGED <<election, heartbeat, bounds, votes_cast>>

\* Mutant: a vote given earlier in the term is not looked at.
CanVoteAgain(n, candidate) == TRUE

CanVote(n, candidate) == voted_for[n] \in {Nil, candidate}

\* The vote is decided under the lock; the term is not compared again, and the
\* term of the request is the one that is persisted.  When the node has moved on to a
\* later term, a restart takes it back to the old one: the votes from there on, and the
\* one it may have given in the old term, are forgotten.
RequestVoteDecide(r) ==
    /\ r.kind = "vote" /\ r.phase = "vote"
    /\ \/ \E up_to_date \in UpToDateChoices :
              /\ CanVote(r.to, r.from) /\ up_to_date
              /\ PersistMeta(r.to, r.term, r.from)
              /\ voted_for' = [voted_for EXCEPT ![r.to] = r.from]
              /\ state' = [state EXCEPT ![r.to] = "follower"]
              /\ votes_cast' = votes_cast \cup {<<r.to, r.from, r.term>>}
              /\ forgotten' = IF r.term < current_term[r.to]
                              THEN forgotten \cup ({r.to} \X (r.term..current_term[r.to]))
                              ELSE forgotten
              /\ Respond(r, current_term[r.to], TRUE)
              /\ UNCHANGED <<current_term, late>>
       \/ \E up_to_date \in UpToDateChoices :
              /\ ~(CanVote(r.to, r.from) /\ up_to_date)
              /\ Respond(r, current_term[r.to], FALSE)
              /\ UNCHANGED <<nodeVars, votes_cast>>

-----------------------------------------------------------------------------
(* BroadcastHeartbeat and HandleHeartbeat (the same role changes open      *)
(* HandleAppendEntries and HandleInstallSnapshot).                         *)

\* IsLeader() is read first ...
HeartbeatStart(n) ==
    /\ heartbeat[n].pc = "idle"
    /\ state[n] = "leader"
    /\ rounds < MaxRounds
    /\ rounds' = rounds + 1
    /\ heartbeat' = [heartbeat EXCEPT ![n].pc = "term"]
    /\ UNCHANGED <<nodeVars, election, requests, restarts, lost, votes_cast>>

\* ... and CurrentTerm() afterwards, both without the lock.
HeartbeatSend(n) ==
    /\ heartbeat[n].pc = "term"
    /\ heartbeat' = [heartbeat EXCEPT ![n] =
           [pc |-> "wait", term |-> current_term[n], highest |-> current_term[n]]]
    /\ Send("heartbeat", n, current_term[n])
    /\ UNCHANGED <<nodeVars, election, bounds, votes_cast>>

HeartbeatFinish(n) ==
    /\ heartbeat[n].pc = "wait"
    /\ Joined("heartbeat", n)
    /\ IF heartbeat[n].highest > heartbeat[n].term
       THEN BecomeFollower(n, heartbeat[n].highest)
       ELSE UNCHANGED nodeVars
    /\ heartbeat' = [heartbeat EXCEPT ![n] = IdleHeartbeat]
    /\ UNCHANGED <<election, requests, bounds, votes_cast>>

HeartbeatEnter(r) ==
    /\ r.kind = "heartbeat" /\ r.phase = "sent"
    /\ \/ /\ r.term < current_term[r.to]
          /\ Respond(r, current_term[r.to], FALSE)
       \/ /\ r.term >= current_term[r.to]
          /\ Advance(r, "locking")
          /\ UNCHANGED <<election, heartbeat, bounds>>
    /\ UNCHANGED <<nodeVars, votes_cast>>

\* Under the lock the handler reads the term once more ...
HeartbeatLocked(r) ==
    /\ r.kind = "heartbeat" /\ r.phase = "locking"
    /\ Advance(r, IF r.term > current_term[r.to] THEN "demote" ELSE "role")
    /\ UNCHANGED <<nodeVars, election, heartbeat, bounds, votes_cast>>

\* ... and the role after it has unlocked.
HeartbeatRole(r) ==
    /\ r.kind = "heartbeat" /\ r.phase = "role"
    /\ \/ /\ state[r.to] # "follower"
          /\ Advance(r, "demote")
          /\ UNCHANGED <<election, heartbeat, bounds>>
       \/ /\ state[r.to] = "follower"
          /\ Respond(r, current_term[r.to], FALSE)
    /\ UNCHANGED <<nodeVars, votes_cast>>

HeartbeatDemote(r) ==
    /\ r.kind = "heartbeat" /\ r.phase = "demote"
    /\ BecomeFollower(r.to, r.term)
    /\ IF r.term < current_term[r.to]
       THEN requests' = requests \ {r} /\ UNCHANGED <<election, heartbeat, bounds>>
       ELSE Respond(r, r.term, FALSE)
    /\ UNCHANGED votes_cast

-----------------------------------------------------------------------------
\* A crash and the restart of RaftNode from its meta file: the threads and the
\* handlers of n are gone, callers of n see a broken connection, and nobody waits
\* for the answers to what n had sent.
Restart(n) ==
    /\ restarts < MaxRestarts
    /\ restarts' = restarts + 1
    /\ current_term' = [current_term EXCEPT ![n] = meta[n].term]
    /\ voted_for' = [voted_for EXCEPT ![n] = meta[n].voted_for]
    /\ state' = [state EXCEPT ![n] = "follower"]
    /\ election' = [election EXCEPT ![n] = IdleElection]
    /\ heartbeat' = [heartbeat EXCEPT ![n] = IdleHeartbeat]
    /\ requests' = {IF r.from = n THEN [r EXCEPT !.awaited = FALSE] ELSE r :
                        r \in {q \in requests : q.to # n}}
    /\ UNCHANGED <<meta, lost, rounds, votes_cast, forgotten, late>>

ElectionThread(n) ==
    ElectionTimeout(n) \/ SendRequestVotes(n) \/ ElectionStepDown(n)
        \/ CountVotes(n) \/ BecomeLeader(n)

HeartbeatThread(n) == HeartbeatStart(n) \/ HeartbeatSend(n) \/ HeartbeatFinish(n)

Handler(r) ==
    RequestVoteEnter(r) \/ RequestVoteDemote(r) \/ RequestVoteDecide(r)
        \/ HeartbeatEnter(r) \/ HeartbeatLocked(r) \/ HeartbeatRole(r) \/ HeartbeatDemote(r)

Next ==
    \/ \E n \in Server : ElectionThread(n) \/ HeartbeatThread(n) \/ Restart(n)
    \/ \E r \in requests : Handler(r) \/ RpcTimeout(r)

Spec == Init /\ [][Next]_vars

\* The threads of a node run, and every RPC a thread waits for ends: it is answered or
\* its deadline expires (raft_client sets one on every call).  A peer may hang inside a
\* handler, an election deadline need not expire and a crash need not happen.
Fairness ==
    /\ \A n \in Server :
           /\ WF_vars(SendRequestVotes(n) \/ ElectionStepDown(n)
                          \/ CountVotes(n) \/ BecomeLeader(n))
           /\ WF_vars(HeartbeatThread(n))
    /\ WF_vars(\E r \in requests : RpcTimeout(r))

FairSpec == Spec /\ Fairness

\* The gRPC server of a node serves the requests it receives.
Served == \A n \in Server : WF_vars(\E r \in requests : r.to = n /\ Handler(r))

-----------------------------------------------------------------------------
(* Properties.                                                             *)

VotersOf(n, t) == {v \in Server : <<v, n, t>> \in votes_cast}

\* A node leads a term only with the votes of a majority of the cluster, given to it in
\* that very term: however the handlers, the tally of StartElection, late responses and
\* restarts interleave, votes are never made up, counted twice or carried over from another
\* term.  (A leader whose term changed between the count of its votes and BecomeLeader,
\* which does not look again, is excepted: it leads a term that nobody elected it for.)
LeaderBackedByMajority ==
    \A n \in Server \ late : state[n] = "leader" =>
        \E Q \in SUBSET VotersOf(n, current_term[n]) :
            2 * Cardinality(Q) > Cardinality(Server)

\* A vote is final, through role changes, interleaved handlers and crashes at any point: a
\* node votes for two candidates of one term only if it has stepped down at that very term
\* (BecomeFollower clears the vote), or has saved a vote of an older term over the newer
\* one (HandleRequestVote saves the term of the request).
VoteIsFinal ==
    \A v, c, d \in Server, t \in Term :
        /\ <<v, c, t>> \in votes_cast /\ <<v, d, t>> \in votes_cast
        /\ <<v, t>> \notin forgotten
        => c = d

\* Election safety, as far as the code keeps it: two nodes lead the same term only if some
\* node has forgotten its vote of that term, or a term changed under a BecomeLeader.
ElectionSafety ==
    \A m, n \in Server \ late :
        /\ state[m] = "leader" /\ state[n] = "leader" /\ current_term[m] = current_term[n]
        /\ \A v \in Server : <<v, current_term[n]>> \notin forgotten
        => m = n

\* What a restart would read back: the vote in memory, under the term in memory or under an
\* older one from which on all votes count as forgotten; a vote that is not forgotten is
\* not newer than the file and, in the term of the file, it is the one on file.
VotesOnFile ==
    \A v \in Server :
        /\ meta[v].voted_for = voted_for[v]
        /\ meta[v].term <= current_term[v]
        /\ meta[v].term < current_term[v] =>
               \A t \in meta[v].term..current_term[v] : <<v, t>> \in forgotten
        /\ \A c \in Server, t \in Term :
               <<v, c, t>> \in votes_cast /\ <<v, t>> \notin forgotten =>
                   t <= meta[v].term /\ (t = meta[v].term => c = voted_for[v])

\* Between crashes the term of a node never decreases, whichever stale term a handler,
\* an election or a heartbeat round carried across an unlock (BecomeFollower's check).
TermNeverRegresses ==
    [][restarts' = restarts => \A n \in Server : current_term'[n] >= current_term[n]]_vars

\* An RPC that StartElection still waits for belongs to the round it is counting.
AwaitedInRound ==
    \A r \in requests : r.kind = "vote" /\ r.awaited =>
        election[r.from].pc = "wait" /\ election[r.from].term = r.term

\* A handler that has passed the term check and BecomeFollower votes in a term that its
\* node has reached.
VotingTermReached == \A r \in requests : r.phase = "vote" => r.term <= current_term[r.to]

\* What a round has counted: votes really cast for it, in a term its node has reached,
\* and a majority of them once the round is won; a candidate has voted for itself.
TallyIsReal ==
    \A n \in Server :
        /\ election[n].pc \in {"wait", "won"} =>
               /\ election[n].term <= current_term[n]
               /\ \A v \in election[n].votes \ {n} : <<v, n, election[n].term>> \in votes_cast
        /\ election[n].pc = "won" =>
               <<n, n, election[n].term>> \in votes_cast /\ IsQuorum(election[n].votes)
        /\ state[n] = "candidate" => <<n, n, current_term[n]>> \in votes_cast

\* The inductive invariant: why the tally of StartElection can be trusted although the
\* handlers that answer it, its own node and the restarts run between any two steps.
ElectionInv == AwaitedInRound /\ VotingTermReached /\ TallyIsReal

\* Election safety: two leaders are never in the same term.
OneLeaderPerTerm ==
    \A m, n \in Server :
        state[m] = "leader" /\ state[n] = "leader" /\ current_term[m] = current_term[n]
            => m = n

\* An election never blocks its thread for good, whatever happens to its RPCs.
ElectionEnds == \A n \in Server : election[n].pc # "idle" ~> election[n].pc = "idle"

\* Nobody else stands, and a minority of the RPCs has failed.
Favoured(n) ==
    /\ \A m \in Server \ {n} : state[m] = "follower"
    /\ lost < Cardinality(Server) - Cardinality(Server) \div 2

\* Where requests are served, a candidate that nobody competes with becomes leader although
\* a minority of its RPCs fails (StartElection counts a failed RPC as no vote and goes on).
LoneCandidateWins ==
    \A n \in Server :
        Served /\ []Favoured(n) => (state[n] = "candidate" ~> state[n] = "leader")
=============================================================================
