------------------------------ MODULE Topology ------------------------------
(***************************************************************************)
(* TopologyManager of one node, and the threads of RaftNode that drive it: *)
(* acknowledgements (MarkHealthy), the maintenance thread of a leader      *)
(* (CheckMentorTimeouts, CheckFollowerTimeouts, RebalanceTopology), the    *)
(* handlers of a non-leader (SetLeader, FromProto) and role changes.       *)
(*                                                                         *)
(* A view is what nodes_ and leader_id_ hold.  Every operation is one      *)
(* critical section of the manager's mutex; the maintenance thread keeps   *)
(* node ids it has read across several of them and across the RPCs in      *)
(* between.  Addresses are left out, and node ids are numbers because the  *)
(* code sorts them.  nodes_ holds every configured node from               *)
(* RegisterConfiguredPeers on.                                             *)
(***************************************************************************)
EXTENDS Naturals, FiniteSets

CONSTANTS
    Node,            \* the node ids of the cluster
    Self,            \* the node whose manager this is
    Rank,            \* the place of a node in the iteration order of nodes_
    MaxPasses,       \* bound: passes of the maintenance loop
    MaxTerms,        \* bound: times this node becomes leader
    MaxReceived      \* bound: topologies it receives from other leaders

Nil == 0    \* the empty node id

ASSUME TopologyAssumption ==
    /\ Node \subseteq Nat \ {Nil} /\ IsFiniteSet(Node) /\ Self \in Node
    /\ Rank \in [Node -> Nat] /\ \A m, n \in Node : Rank[m] = Rank[n] => m = n
    /\ MaxPasses \in Nat /\ MaxTerms \in Nat /\ MaxReceived \in Nat

Peers == Node \ {Self}

VARIABLES
    view,      \* leader_id_ and nodes_
    leading,   \* state_ of RaftNode is kLeader
    refresh,   \* topology_refresh_requested_
    check,     \* the maintenance thread: its control point and what it has read
    spent      \* how much of each bound has been used

vars == <<view, leading, refresh, check, spent>>

-----------------------------------------------------------------------------
(* The queries of TopologyManager.                                         *)

Mentors(v) == {n \in Node : v.nodes[n].healthy /\ v.nodes[n].role = "mentor"}

FollowersOf(v, m) ==
    {n \in Node : v.nodes[n].healthy /\ v.nodes[n].role = "follower" /\ v.nodes[n].source = m}

Least(S) == CHOOSE n \in S : \A m \in S : n <= m

\* FindFollowerIdOfLocked: the first one the iteration meets, or Nil.
FollowerOf(v, m) ==
    LET S == FollowersOf(v, m) IN
    IF S = {} THEN Nil ELSE CHOOSE n \in S : \A k \in S : Rank[n] <= Rank[k]

\* GetMentorOf: the source of a follower, whatever the role of that source is.
MentorOf(v, n) == IF v.nodes[n].role = "follower" THEN v.nodes[n].source ELSE Nil

\* Mutant: a mentor that has a follower is not passed over.
FreeMentorsAll(v, n) == Mentors(v) \ {n}

FreeMentors(v, n) == {m \in Mentors(v) \ {n} : FollowerOf(v, m) \in {Nil, n}}

SelectSource(v, n) ==
    IF FreeMentors(v, n) # {} THEN Least(FreeMentors(v, n))
    ELSE IF v.leader # n THEN v.leader
    ELSE Nil

\* The member of S with k smaller members: S sorted, indexed from 0.
Position(S, n) == Cardinality({m \in S : m < n})
Nth(S, k) == CHOOSE n \in S : Position(S, n) = k

-----------------------------------------------------------------------------
(* The operations of TopologyManager, as functions from view to view.      *)

Info(role, source, healthy) == [role |-> role, source |-> source, healthy |-> healthy]

EnsureLeader(v) ==
    IF v.leader = Nil THEN v
    ELSE [v EXCEPT !.nodes[v.leader] = Info("leader", Nil, TRUE)]

SetLeader(v, l) == EnsureLeader([v EXCEPT !.leader = l])

\* The first half of the healthy nodes in id order, rounded up, are mentors; the k-th of
\* the others follows the k-th mentor.
Rebalance(v, healthy_nodes) ==
    LET leader == IF v.leader = Nil THEN Self ELSE v.leader
        candidates == healthy_nodes \ {leader}
        mentor_count == (Cardinality(candidates) + 1) \div 2
        Place(n) == Position(candidates, n)
    IN  [leader |-> leader,
         nodes |-> [n \in Node |->
             IF n = leader THEN Info("leader", Nil, TRUE)
             ELSE IF n \notin candidates THEN Info("follower", Nil, FALSE)
             ELSE IF Place(n) < mentor_count THEN Info("mentor", leader, TRUE)
             ELSE Info("follower", Nth(candidates, Place(n) - mentor_count), TRUE)]]

PromoteToMentor(v, n) ==
    LET w == EnsureLeader(v) IN
    [w EXCEPT !.nodes[n] = IF n = w.leader THEN Info("leader", Nil, TRUE)
                           ELSE Info("mentor", w.leader, TRUE)]

\* ReassignFollowersLocked: in id order, the k-th follower left behind gets the k-th
\* mentor without a follower, and the leader when there is none.
ReassignFollowers(v, old_source, excluded) ==
    LET left == FollowersOf(v, old_source) \ {excluded}
        free == {m \in Mentors(v) : FollowerOf(v, m) = Nil}
        k(n) == Position(left, n)
    IN  [v EXCEPT !.nodes = [n \in Node |->
            IF n \notin left THEN v.nodes[n]
            ELSE [v.nodes[n] EXCEPT !.source =
                     IF k(n) < Cardinality(free) THEN Nth(free, k(n))
                     ELSE IF v.leader # n THEN v.leader ELSE Nil]]]

\* Mutant: the followers of a lost mentor stay with it.
MarkUnhealthyKeeps(v, n) ==
    [v EXCEPT !.nodes[n] = Info(IF n = v.leader THEN "leader" ELSE "follower", Nil, FALSE)]

MarkUnhealthy(v, n) ==
    IF n = v.leader THEN [v EXCEPT !.nodes[n] = Info("leader", Nil, FALSE)]
    ELSE ReassignFollowers([v EXCEPT !.nodes[n] = Info("follower", Nil, FALSE)], n, Nil)

MarkHealthy(v, n) ==
    LET w == [EnsureLeader(v) EXCEPT !.nodes[n].healthy = TRUE] IN
    IF n = w.leader THEN [w EXCEPT !.nodes[n] = Info("leader", Nil, TRUE)]
    ELSE IF w.nodes[n].source # Nil THEN w
    ELSE LET u == [w EXCEPT !.nodes[n].role = "follower"]
         IN  [u EXCEPT !.nodes[n].source = SelectSource(u, n)]

SwapFollowers(v, a, b) ==
    LET follower_a == FollowerOf(v, a)
        follower_b == FollowerOf(v, b)
    IN  [v EXCEPT !.nodes = [n \in Node |->
            IF n = follower_b THEN [v.nodes[n] EXCEPT !.source = a]
            ELSE IF n = follower_a THEN [v.nodes[n] EXCEPT !.source = b]
            ELSE v.nodes[n]]]

NormalizeMentorSources(v) ==
    IF v.leader = Nil THEN v
    ELSE [v EXCEPT !.nodes = [n \in Node |->
             IF n = v.leader THEN Info("leader", Nil, TRUE)
             ELSE IF v.nodes[n].role = "mentor" THEN [v.nodes[n] EXCEPT !.source = v.leader]
             ELSE v.nodes[n]]]

\* Mutant: an empty follower_node_id clears nothing.
ClearStaleFollowerUnlessEmpty(v, assigned) ==
    LET stale == FollowerOf(v, Self) IN
    IF stale \in {Nil, assigned} \/ assigned = Nil THEN v
    ELSE [v EXCEPT !.nodes[stale] = Info("follower", Nil, TRUE)]

\* The follower this mentor has had so far is released, also when it gets no new one.
ClearStaleFollower(v, assigned) ==
    LET stale == FollowerOf(v, Self) IN
    IF stale \in {Nil, assigned} THEN v
    ELSE [v EXCEPT !.nodes[stale] = Info("follower", Nil, TRUE)]

\* FromProto about this node itself; nobody tells it that it is the leader.
FromProto(v, proto) ==
    LET mentor == proto.role = "mentor"
        own == [v EXCEPT !.nodes[Self] = Info(proto.role, proto.source, TRUE)]
        sourced ==
            IF proto.source = Nil THEN own
            ELSE IF mentor
            THEN [leader |-> proto.source,
                  nodes |-> [own.nodes EXCEPT ![proto.source] = Info("leader", Nil, TRUE)]]
            ELSE [own EXCEPT !.nodes[proto.source].healthy = TRUE]
        cleared == IF mentor THEN ClearStaleFollower(sourced, proto.follower) ELSE sourced
    IN  NormalizeMentorSources(
            IF ~mentor \/ proto.follower = Nil THEN cleared
            ELSE [cleared EXCEPT !.nodes[proto.follower] = Info("follower", Self, TRUE)])

-----------------------------------------------------------------------------
(* Role changes and handlers of RaftNode.                                  *)

Idle == [pc |-> "idle", todo |-> {}, node |-> Nil, mentor |-> Nil, recent |-> FALSE,
         healthy |-> {}]

\* RegisterConfiguredPeers: every node is a healthy follower of nobody.
Init ==
    /\ view = [leader |-> Nil, nodes |-> [n \in Node |-> Info("follower", Nil, TRUE)]]
    /\ leading = FALSE
    /\ refresh = FALSE
    /\ check = Idle
    /\ spent = [passes |-> 0, terms |-> 0, received |-> 0]

BecomeLeader ==
    /\ ~leading
    /\ spent.terms < MaxTerms
    /\ spent' = [spent EXCEPT !.terms = @ + 1]
    /\ leading' = TRUE
    /\ view' = Rebalance(SetLeader(view, Self), Peers)
    /\ UNCHANGED <<refresh, check>>

\* BecomeFollower with the leader's id, or with none when only a higher term was seen.
BecomeFollower ==
    /\ leading
    /\ leading' = FALSE
    /\ \E l \in Peers \cup {Nil} : view' = SetLeader(view, l)
    /\ UNCHANGED <<refresh, check, spent>>

\* HandleHeartbeat and HandleAppendEntries: the sender becomes the leader of the view and
\* what it says about this node is applied.
Protos(l) ==
    [role: {"mentor"}, source: {l}, follower: (Peers \ {l}) \cup {Nil}]
        \cup [role: {"follower"}, source: Peers \cup {Nil}, follower: {Nil}]

ReceiveTopology ==
    /\ ~leading
    /\ spent.received < MaxReceived
    /\ spent' = [spent EXCEPT !.received = @ + 1]
    /\ \E l \in Peers : \E proto \in Protos(l) : view' = FromProto(SetLeader(view, l), proto)
    /\ UNCHANGED <<leading, refresh, check>>

\* UpdatePeerAck or UpdatePeerHeartbeatAck, on the thread of the call it ends; the ack of a
\* peer that was served directly and has caught up asks for a refresh.
Ack(n) ==
    /\ view' = MarkHealthy(view, n)
    /\ refresh' \in {refresh, TRUE}
    /\ UNCHANGED <<leading, check, spent>>

-----------------------------------------------------------------------------
(* One pass of MaintenanceLoop.  A peer has timed out or not: time is not  *)
(* kept, so any may.                                                       *)

StartPass ==
    /\ check.pc = "idle"
    /\ leading
    /\ spent.passes < MaxPasses
    /\ spent' = [spent EXCEPT !.passes = @ + 1]
    /\ check' = [Idle EXCEPT !.pc = "mentors", !.todo = Mentors(view)]
    /\ UNCHANGED <<view, leading, refresh>>

\* The ids of GetMentors() are visited in order.  A node that is no longer leader has no
\* peer_progress_, and visits them in vain.
MentorTimeout(m) ==
    LET follower == FollowerOf(view, m) IN
    /\ leading /\ check.pc = "mentors" /\ m \in check.todo
    /\ view' = MarkUnhealthy(view, m)
    /\ check' = [check EXCEPT !.todo = {n \in @ : n > m}, !.node = follower,
                              !.pc = IF follower = Nil THEN "mentors" ELSE "promote"]
    /\ UNCHANGED <<leading, refresh, spent>>

PromoteOrphan ==
    /\ check.pc = "promote"
    /\ view' = PromoteToMentor(view, check.node)
    /\ refresh' = TRUE
    /\ check' = [check EXCEPT !.pc = "notify"]
    /\ UNCHANGED <<leading, spent>>

\* The heartbeat that tells it is answered, or not.
OrphanAnswers ==
    /\ check.pc = "notify"
    /\ view' \in {MarkHealthy(view, check.node), MarkUnhealthy(view, check.node)}
    /\ check' = [check EXCEPT !.pc = "mentors", !.node = Nil]
    /\ UNCHANGED <<leading, refresh, spent>>

MentorsDone ==
    /\ check.pc = "mentors"
    /\ check' = IF leading
                THEN [check EXCEPT !.pc = "followers", !.todo =
                         {n \in Peers : view.nodes[n].role = "follower" /\ view.nodes[n].healthy}]
                ELSE [check EXCEPT !.pc = "refresh", !.todo = {}]
    /\ UNCHANGED <<view, leading, refresh, spent>>

\* mentor_recent needs a mentor with an entry in peer_progress_: the leader has none.
FollowerTimeout(n) ==
    LET source == MentorOf(view, n)
        mentor == IF source # Nil /\ view.nodes[source].healthy THEN source ELSE Nil
    IN
    /\ leading /\ check.pc = "followers" /\ n \in check.todo
    /\ \E recent \in IF mentor \in {Nil, Self} THEN {FALSE} ELSE BOOLEAN :
           check' = [check EXCEPT !.todo = {k \in @ : k > n}, !.pc = "probe", !.node = n,
                                  !.mentor = mentor, !.recent = recent]
    /\ UNCHANGED <<view, leading, refresh, spent>>

FollowerAnswers ==
    /\ check.pc = "probe"
    /\ view' = MarkHealthy(view, check.node)
    /\ check' = [check EXCEPT !.pc = IF check.recent THEN "diagnose" ELSE "replace"]
    /\ UNCHANGED <<leading, refresh, spent>>

NextFollower == check' = [check EXCEPT !.pc = "followers", !.node = Nil, !.mentor = Nil,
                                       !.recent = FALSE]

FollowerSilent ==
    /\ check.pc = "probe"
    /\ IF check.recent
       THEN view' = MarkUnhealthy(view, check.node) /\ refresh' = TRUE
       ELSE UNCHANGED <<view, refresh>>
    /\ NextFollower
    /\ UNCHANGED <<leading, spent>>

\* The mentor is the silent one: the follower takes its place ...
ReplaceMentor ==
    /\ check.pc = "replace"
    /\ view' = PromoteToMentor(view, check.node)
    /\ check' = [check EXCEPT !.pc = "retire"]
    /\ UNCHANGED <<leading, refresh, spent>>

\* ... and the mentor leaves the topology.
RetireMentor ==
    /\ check.pc = "retire"
    /\ view' = IF check.mentor = Nil THEN view ELSE MarkUnhealthy(view, check.mentor)
    /\ refresh' = TRUE
    /\ NextFollower
    /\ UNCHANGED <<leading, spent>>

\* The mentor is slow: the leader serves the follower itself (direct_mode).
ServeDirectly ==
    /\ check.pc = "diagnose"
    /\ NextFollower
    /\ UNCHANGED <<view, leading, refresh, spent>>

\* The link is slow: two mentors exchange their followers, if there are two.
ExchangeFollowers ==
    LET others == Mentors(view) \ {check.mentor} IN
    /\ check.pc = "diagnose"
    /\ view' = IF others = {} THEN view ELSE SwapFollowers(view, check.mentor, Least(others))
    /\ refresh' = TRUE
    /\ NextFollower
    /\ UNCHANGED <<leading, spent>>

FollowersDone ==
    /\ check.pc = "followers"
    /\ check' = [check EXCEPT !.pc = "refresh", !.todo = {}]
    /\ UNCHANGED <<view, leading, refresh, spent>>

\* RebalanceTopology reads HealthyPeerIds; a refresh also falls due by time.
RebalanceRead ==
    /\ check.pc = "refresh"
    /\ check' = [check EXCEPT !.pc = "rebalance",
                              !.healthy = {n \in Peers : view.nodes[n].healthy}]
    /\ UNCHANGED <<view, leading, refresh, spent>>

RebalanceApply ==
    /\ check.pc = "rebalance"
    /\ view' = Rebalance(view, check.healthy)
    /\ refresh' = FALSE
    /\ check' = Idle
    /\ UNCHANGED <<leading, spent>>

NoRefresh ==
    /\ check.pc = "refresh" /\ ~refresh
    /\ check' = Idle
    /\ UNCHANGED <<view, leading, refresh, spent>>

Maintenance ==
    \/ StartPass \/ PromoteOrphan \/ OrphanAnswers \/ MentorsDone \/ FollowerAnswers
    \/ FollowerSilent \/ ReplaceMentor \/ RetireMentor \/ ServeDirectly \/ ExchangeFollowers
    \/ FollowersDone \/ RebalanceRead \/ RebalanceApply \/ NoRefresh
    \/ \E n \in Peers : MentorTimeout(n) \/ FollowerTimeout(n)

Next ==
    \/ BecomeLeader \/ BecomeFollower \/ ReceiveTopology \/ Maintenance
    \/ \E n \in Peers : Ack(n)

Spec == Init /\ [][Next]_vars

-----------------------------------------------------------------------------
(* Properties.                                                             *)

NodeInfo == [role: {"leader", "mentor", "follower"}, source: Node \cup {Nil}, healthy: BOOLEAN]

TypeOK ==
    /\ view \in [leader: Node \cup {Nil}, nodes: [Node -> NodeInfo]]
    /\ leading \in BOOLEAN /\ refresh \in BOOLEAN
    /\ check \in [pc: {"idle", "mentors", "promote", "notify", "followers", "probe", "replace",
                       "retire", "diagnose", "refresh", "rebalance"},
                  todo: SUBSET Peers, node: Node \cup {Nil}, mentor: Node \cup {Nil},
                  recent: BOOLEAN, healthy: SUBSET Peers]
    /\ spent \in [passes: 0..MaxPasses, terms: 0..MaxTerms, received: 0..MaxReceived]

\* A mentor of the leader's topology has at most one follower, however acknowledgements,
\* timeouts, promotions, exchanges and refreshes interleave.
OneFollowerPerMentor ==
    leading => \A m \in Mentors(view) : Cardinality(FollowersOf(view, m)) <= 1

\* Every healthy node of the leader's topology is reached: a mentor by the leader, a
\* follower by the leader or by a healthy mentor.
EveryoneServed ==
    leading => \A n \in Peers : view.nodes[n].healthy =>
        \/ view.nodes[n].source = Self
        \/ view.nodes[n].role = "follower" /\ view.nodes[n].source \in Mentors(view)

\* A mentor forwards to the node its leader has assigned to it and to no other, from the
\* moment it has applied the topology that says so (FromProto clears the follower it
\* had).  It is stated for a node that has not led: the view of a former leader may bind two
\* nodes to itself, and FromProto clears only one of them.
AssignmentTakesEffect ==
    [][spent.received < spent'.received /\ spent.terms = 0 =>
           \A l \in Peers : \A proto \in [role: {"mentor"}, source: {l}, follower: (Peers \ {l}) \cup {Nil}] :
               view' = FromProto(SetLeader(view, l), proto) => FollowerOf(view', Self) = proto.follower]_vars
=============================================================================
