--------------------------- MODULE TopologyProofs ---------------------------
(***************************************************************************)
(* The topology of one node: the shape of a leader's topology and the      *)
(* assignments a mentor takes, for any cluster, any iteration order of the *)
(* table and any number of passes, acknowledgements and topologies.        *)
(***************************************************************************)
EXTENDS Topology, FiniteSetTheorems, WellFoundedInduction, TLAPS

LEMMA NodeFacts ==
    /\ Node \subseteq Nat /\ Nil \notin Node /\ Self \in Node /\ Self \notin Peers
    /\ Peers \subseteq Node /\ Nil \notin Peers /\ Nil # Self
    /\ \A S \in SUBSET Node : IsFiniteSet(S) /\ Cardinality(S) \in Nat
  <1>1. \A S \in SUBSET Node : IsFiniteSet(S) /\ Cardinality(S) \in Nat
    BY TopologyAssumption, FS_Subset, FS_CardinalityType
  <1> QED
    BY <1>1, TopologyAssumption DEF Peers, Nil

(***************************************************************************)
(* Choices: the least of a set, the first of the iteration, the k-th of a  *)
(* sorted set.                                                             *)
(***************************************************************************)

LEMMA Smallest ==
    ASSUME NEW T, T \subseteq Nat, T # {}
    PROVE  \E x \in T : \A y \in T : x <= y
  <1>1. IsWellFoundedOn(OpToRel(<, Nat), Nat)
    BY NatLessThanWellFounded
  <1>2. PICK x \in T : \A y \in T : ~(<<y, x>> \in OpToRel(<, Nat))
    <2> HIDE DEF OpToRel
    <2> QED
      BY <1>1, WFMin
  <1>3. \A y \in T : ~(y < x)
    BY <1>2 DEF OpToRel
  <1> QED
    BY <1>3, SMT

LEMMA LeastFacts ==
    ASSUME NEW T, T \subseteq Nat, T # {}
    PROVE  Least(T) \in T
  BY Smallest DEF Least

LEMMA FollowerOfFacts ==
    ASSUME NEW v, NEW m
    PROVE  /\ FollowersOf(v, m) \subseteq Node
           /\ FollowersOf(v, m) = {} <=> FollowerOf(v, m) = Nil
           /\ FollowersOf(v, m) # {} => FollowerOf(v, m) \in FollowersOf(v, m)
  <1> DEFINE S == FollowersOf(v, m)
             T == {Rank[n] : n \in S}
  <1>1. S \subseteq Node
    BY DEF FollowersOf
  <1>2. ASSUME S # {} PROVE \E n \in S : \A k \in S : Rank[n] <= Rank[k]
    <2>1. T \subseteq Nat /\ T # {}
      BY <1>1, <1>2, TopologyAssumption
    <2>2. PICK x \in T : \A y \in T : x <= y
      <3> HIDE DEF T
      <3> QED
        BY <2>1, Smallest
    <2> QED
      BY <2>2
  <1>3. S # {} => FollowerOf(v, m) \in S
    BY <1>2 DEF FollowerOf
  <1>4. Nil \notin Node
    BY NodeFacts
  <1>5. S = {} => FollowerOf(v, m) = Nil
    BY DEF FollowerOf
  <1> QED
    BY <1>1, <1>3, <1>4, <1>5

LEMMA PositionFacts ==
    ASSUME NEW S, S \subseteq Nat, IsFiniteSet(S)
    PROVE  /\ \A n \in S : Position(S, n) \in Nat /\ Position(S, n) < Cardinality(S)
           /\ \A m, n \in S : m < n => Position(S, m) < Position(S, n)
           /\ \A m, n \in S : Position(S, m) = Position(S, n) => m = n
  <1> DEFINE Below(n) == {m \in S : m < n}
  <1>0. Cardinality(S) \in Nat
    BY FS_CardinalityType
  <1>1. \A n \in S : IsFiniteSet(Below(n)) /\ Cardinality(Below(n)) \in Nat
    <2> TAKE n \in S
    <2>1. Below(n) \in SUBSET S
      OBVIOUS
    <2> HIDE DEF Below
    <2> QED
      BY <2>1, FS_Subset, FS_CardinalityType
  <1>2. ASSUME NEW n \in S PROVE Cardinality(Below(n)) < Cardinality(S)
    <2>1. Below(n) \in SUBSET S /\ n \in S /\ n \notin Below(n)
      OBVIOUS
    <2> HIDE DEF Below
    <2>2. Cardinality(Below(n)) <= Cardinality(S) /\ (Cardinality(S) = Cardinality(Below(n)) => S = Below(n))
      BY <2>1, FS_Subset
    <2> QED
      BY <1>0, <1>1, <2>1, <2>2
  <1>3. ASSUME NEW m \in S, NEW n \in S, m < n PROVE Cardinality(Below(m)) < Cardinality(Below(n))
    <2>1. Below(m) \in SUBSET Below(n)
      <3>1. \A x \in S : x < m => x < n
        BY <1>3
      <3> QED
        BY <3>1
    <2>2. m \in Below(n) /\ m \notin Below(m)
      BY <1>3
    <2> HIDE DEF Below
    <2>3. Cardinality(Below(m)) <= Cardinality(Below(n))
          /\ (Cardinality(Below(n)) = Cardinality(Below(m)) => Below(n) = Below(m))
      BY <1>1, <2>1, FS_Subset
    <2> QED
      BY <1>1, <2>2, <2>3
  <1>4. \A n \in S : Position(S, n) = Cardinality(Below(n))
    BY DEF Position
  <1> HIDE DEF Below
  <1>5. \A m, n \in S : m < n => Position(S, m) < Position(S, n)
    BY <1>3, <1>4
  <1>6. \A n \in S : Position(S, n) \in Nat
    BY <1>1, <1>4
  <1>7. \A m, n \in S : m < n \/ n < m \/ m = n
    OBVIOUS
  <1> QED
    BY <1>2, <1>4, <1>5, <1>6, <1>7

LEMMA NthFacts ==
    ASSUME NEW S, S \subseteq Nat, IsFiniteSet(S), NEW k \in Nat, k < Cardinality(S)
    PROVE  Nth(S, k) \in S /\ Position(S, Nth(S, k)) = k
  <1> DEFINE c == Cardinality(S)
             T == 0 .. (c - 1)
             f == [n \in S |-> Position(S, n)]
  <1>1. c \in Nat
    BY FS_CardinalityType
  <1>2. IsFiniteSet(T) /\ Cardinality(T) = c
    <2>1. c - 1 \in Int /\ 0 \in Int
      BY <1>1
    <2>2. IsFiniteSet(0 .. (c - 1)) /\ Cardinality(0 .. (c - 1)) = IF 0 > c - 1 THEN 0 ELSE (c - 1) - 0 + 1
      <3> HIDE DEF c
      <3> QED
        BY <2>1, FS_Interval
    <2> QED
      BY <1>1, <2>2
  <1>3. \A n \in S : Position(S, n) \in T
    <2>1. \A n \in S : Position(S, n) \in Nat /\ Position(S, n) < c
      BY PositionFacts
    <2> HIDE DEF c
    <2> QED
      BY <1>1, <2>1
  <1>4. \A m, n \in S : f[m] = f[n] => m = n
    BY PositionFacts
  <1>5. f \in Injection(S, T)
    BY <1>3, <1>4 DEF Injection, IsInjective
  <1>6. f \in Surjection(S, T)
    <2> HIDE DEF f, T
    <2> QED
      BY <1>2, <1>5, FS_Injection
  <1>7. k \in T
    BY <1>1
  <1>8. \E n \in S : f[n] = k
    <2> HIDE DEF f
    <2> QED
      BY <1>6, <1>7 DEF Surjection
  <1> QED
    BY <1>8 DEF Nth

(***************************************************************************)
(* What each operation of the manager makes of a view.                     *)
(***************************************************************************)

View == [leader: Node \cup {Nil}, nodes: [Node -> NodeInfo]]

Single(S) == \A x, y \in S : x = y

LEMMA InfoFacts ==
    /\ \A role \in {"leader", "mentor", "follower"}, source \in Node \cup {Nil}, healthy \in BOOLEAN :
           Info(role, source, healthy) \in NodeInfo
    /\ \A role, source, healthy : /\ Info(role, source, healthy).role = role
                                  /\ Info(role, source, healthy).source = source
                                  /\ Info(role, source, healthy).healthy = healthy
  BY DEF Info, NodeInfo

LEMMA ViewFacts ==
    ASSUME NEW v \in View
    PROVE  /\ v.leader \in Node \cup {Nil}
           /\ \A n \in Node : /\ v.nodes[n] \in NodeInfo
                              /\ v.nodes[n].role \in {"leader", "mentor", "follower"}
                              /\ v.nodes[n].source \in Node \cup {Nil}
                              /\ v.nodes[n].healthy \in BOOLEAN
  BY DEF View, NodeInfo

LEMMA ChangeOne ==
    ASSUME NEW v \in View, NEW n \in Node, NEW info \in NodeInfo
    PROVE  LET w == [v EXCEPT !.nodes[n] = info] IN
           /\ w \in View /\ w.leader = v.leader /\ w.nodes[n] = info
           /\ \A p \in Node : p # n => w.nodes[p] = v.nodes[p]
  BY DEF View

LEMMA ChangeAll ==
    ASSUME NEW v \in View, NEW f \in [Node -> NodeInfo]
    PROVE  LET w == [v EXCEPT !.nodes = f] IN
           w \in View /\ w.leader = v.leader /\ w.nodes = f
  BY DEF View

LEMMA ChangeHealth ==
    ASSUME NEW v \in View, NEW n \in Node
    PROVE  LET w == [v EXCEPT !.nodes[n].healthy = TRUE] IN
           /\ w \in View /\ w.leader = v.leader
           /\ w.nodes[n] = Info(v.nodes[n].role, v.nodes[n].source, TRUE)
           /\ \A p \in Node : p # n => w.nodes[p] = v.nodes[p]
  BY DEF View, NodeInfo, Info

LEMMA ChangeRole ==
    ASSUME NEW v \in View, NEW n \in Node
    PROVE  LET w == [v EXCEPT !.nodes[n].role = "follower"] IN
           /\ w \in View /\ w.leader = v.leader
           /\ w.nodes[n] = Info("follower", v.nodes[n].source, v.nodes[n].healthy)
           /\ \A p \in Node : p # n => w.nodes[p] = v.nodes[p]
  BY DEF View, NodeInfo, Info

LEMMA ChangeSource ==
    ASSUME NEW v \in View, NEW n \in Node, NEW s \in Node \cup {Nil}
    PROVE  LET w == [v EXCEPT !.nodes[n].source = s] IN
           /\ w \in View /\ w.leader = v.leader
           /\ w.nodes[n] = Info(v.nodes[n].role, s, v.nodes[n].healthy)
           /\ \A p \in Node : p # n => w.nodes[p] = v.nodes[p]
  BY DEF View, NodeInfo, Info

LEMMA InfoSource ==
    ASSUME NEW info \in NodeInfo, NEW s \in Node \cup {Nil}
    PROVE  /\ [info EXCEPT !.source = s] \in NodeInfo
           /\ [info EXCEPT !.source = s] = Info(info.role, s, info.healthy)
  BY DEF NodeInfo, Info

LEMMA EnsureLeaderIs ==
    ASSUME NEW v \in View
    PROVE  LET w == EnsureLeader(v) IN
           /\ w \in View /\ w.leader = v.leader
           /\ \A p \in Node : w.nodes[p] = IF p = v.leader THEN Info("leader", Nil, TRUE) ELSE v.nodes[p]
  <1> DEFINE w == EnsureLeader(v)
  <1>1. CASE v.leader = Nil
    BY <1>1, NodeFacts DEF EnsureLeader
  <1>2. CASE v.leader # Nil
    <2>1. v.leader \in Node
      BY <1>2, ViewFacts
    <2>2. Info("leader", Nil, TRUE) \in NodeInfo
      BY InfoFacts
    <2>3. w = [v EXCEPT !.nodes[v.leader] = Info("leader", Nil, TRUE)]
      BY <1>2 DEF EnsureLeader
    <2>4. w \in View /\ w.leader = v.leader /\ w.nodes[v.leader] = Info("leader", Nil, TRUE)
          /\ \A p \in Node : p # v.leader => w.nodes[p] = v.nodes[p]
      <3> DEFINE l == v.leader
                 info == Info("leader", Nil, TRUE)
      <3>1. l \in Node /\ info \in NodeInfo /\ w = [v EXCEPT !.nodes[l] = info]
        BY <2>1, <2>2, <2>3
      <3> HIDE DEF w, l, info
      <3>2. w \in View /\ w.leader = v.leader /\ w.nodes[l] = info
            /\ \A p \in Node : p # l => w.nodes[p] = v.nodes[p]
        BY <3>1, ChangeOne
      <3> QED
        BY <3>2 DEF l, info
    <2> QED
      BY <2>4
  <1> QED
    BY <1>1, <1>2

LEMMA SetLeaderIs ==
    ASSUME NEW v \in View, NEW l \in Node \cup {Nil}
    PROVE  LET w == SetLeader(v, l) IN
           /\ w \in View /\ w.leader = l
           /\ \A p \in Node : w.nodes[p] = IF p = l THEN Info("leader", Nil, TRUE) ELSE v.nodes[p]
  <1> DEFINE u == [v EXCEPT !.leader = l]
  <1>1. u \in View /\ u.leader = l /\ u.nodes = v.nodes
    BY DEF View
  <1>2. SetLeader(v, l) = EnsureLeader(u)
    BY DEF SetLeader
  <1> HIDE DEF u
  <1>3. LET w == EnsureLeader(u) IN
        /\ w \in View /\ w.leader = u.leader
        /\ \A p \in Node : w.nodes[p] = IF p = u.leader THEN Info("leader", Nil, TRUE) ELSE u.nodes[p]
    BY <1>1, EnsureLeaderIs
  <1> QED
    BY <1>1, <1>2, <1>3

LEMMA PromoteIs ==
    ASSUME NEW v \in View, NEW n \in Node
    PROVE  LET w == PromoteToMentor(v, n) IN
           /\ w \in View /\ w.leader = v.leader
           /\ \A p \in Node : w.nodes[p] = IF p = v.leader THEN Info("leader", Nil, TRUE)
                                           ELSE IF p = n THEN Info("mentor", v.leader, TRUE)
                                           ELSE v.nodes[p]
  <1> DEFINE u == EnsureLeader(v)
             info == IF n = u.leader THEN Info("leader", Nil, TRUE) ELSE Info("mentor", u.leader, TRUE)
             w == PromoteToMentor(v, n)
  <1>1. u \in View /\ u.leader = v.leader
        /\ \A p \in Node : u.nodes[p] = IF p = v.leader THEN Info("leader", Nil, TRUE) ELSE v.nodes[p]
    BY EnsureLeaderIs
  <1>2. info \in NodeInfo
    <2> HIDE DEF u
    <2> QED
      BY <1>1, ViewFacts, InfoFacts
  <1>3. w = [u EXCEPT !.nodes[n] = info]
    BY DEF PromoteToMentor
  <1>4. w \in View /\ w.leader = u.leader /\ w.nodes[n] = info
        /\ \A p \in Node : p # n => w.nodes[p] = u.nodes[p]
    <2> HIDE DEF u, info, w
    <2> QED
      BY <1>1, <1>2, <1>3, ChangeOne
  <1>5. w.nodes[n] = IF n = v.leader THEN Info("leader", Nil, TRUE) ELSE Info("mentor", v.leader, TRUE)
    BY <1>1, <1>4
  <1> HIDE DEF u, w, info
  <1>6. w \in View /\ w.leader = v.leader
        /\ \A p \in Node : w.nodes[p] = IF p = v.leader THEN Info("leader", Nil, TRUE)
                                        ELSE IF p = n THEN Info("mentor", v.leader, TRUE)
                                        ELSE v.nodes[p]
    BY <1>1, <1>4, <1>5
  <1> QED
    BY <1>6 DEF w

\* The k-th follower of a rebalanced topology follows the k-th mentor: there are enough of
\* them, and no two followers get the same one.
LEMMA RebalanceIs ==
    ASSUME NEW v \in View, NEW H, H \subseteq Peers
    PROVE  LET w == Rebalance(v, H)
               l == IF v.leader = Nil THEN Self ELSE v.leader
           IN  /\ w \in View /\ w.leader = l /\ l \in Node
               /\ w.nodes[l] = Info("leader", Nil, TRUE)
               /\ \A n \in Node \ {l} :
                     \/ w.nodes[n] = Info("follower", Nil, FALSE)
                     \/ w.nodes[n] = Info("mentor", l, TRUE)
                     \/ \E s \in Node \ {l} : /\ w.nodes[n] = Info("follower", s, TRUE)
                                              /\ w.nodes[s] = Info("mentor", l, TRUE)
               /\ \A m \in Node : Single(FollowersOf(w, m))
  <1> DEFINE l == IF v.leader = Nil THEN Self ELSE v.leader
             C == H \ {l}
             c == Cardinality(C)
             mc == (c + 1) \div 2
             Place(n) == Position(C, n)
             N == [n \in Node |->
                     IF n = l THEN Info("leader", Nil, TRUE)
                     ELSE IF n \notin C THEN Info("follower", Nil, FALSE)
                     ELSE IF Place(n) < mc THEN Info("mentor", l, TRUE)
                     ELSE Info("follower", Nth(C, Place(n) - mc), TRUE)]
             w == Rebalance(v, H)
  <1>1. w = [leader |-> l, nodes |-> N]
    BY DEF Rebalance
  <1>2. l \in Node /\ C \subseteq Node /\ l \notin C /\ C \subseteq Nat /\ IsFiniteSet(C) /\ c \in Nat
    <2>1. l \in Node
      BY ViewFacts, NodeFacts
    <2>2. C \in SUBSET Node /\ l \notin C
      BY NodeFacts
    <2> HIDE DEF l, C
    <2> QED
      BY <2>1, <2>2, NodeFacts
  <1> HIDE DEF l, C
  <1>3. mc \in Nat /\ c <= mc + mc
    <2> HIDE DEF c
    <2> QED
      BY <1>2
  <1>4. \A n \in C : Place(n) \in Nat /\ Place(n) < c
    BY <1>2, PositionFacts
  <1>5. \A m, n \in C : Place(m) = Place(n) => m = n
    BY <1>2, PositionFacts
  <1> HIDE DEF mc
  <1>6. ASSUME NEW n \in C, ~(Place(n) < mc)
        PROVE  LET s == Nth(C, Place(n) - mc) IN s \in C /\ Place(s) = Place(n) - mc /\ Place(s) < mc
    <2> DEFINE k == Place(n) - mc
    <2>1. k \in Nat /\ k < c /\ k < mc
      <3> HIDE DEF Place, c
      <3> QED
        BY <1>2, <1>3, <1>4, <1>6
    <2>2. Nth(C, k) \in C /\ Position(C, Nth(C, k)) = k
      <3> HIDE DEF k
      <3> QED
        BY <1>2, <2>1, NthFacts
    <2> QED
      BY <2>1, <2>2
  <1> HIDE DEF Place, c
  <1> DEFINE Source(n) == Nth(C, Place(n) - mc)
  <1>7. \A n \in C : ~(Place(n) < mc) => Source(n) \in C /\ Place(Source(n)) = Place(n) - mc
                                         /\ Place(Source(n)) < mc
    BY <1>6
  <1>8. \A n \in Node : N[n] = IF n = l THEN Info("leader", Nil, TRUE)
                               ELSE IF n \notin C THEN Info("follower", Nil, FALSE)
                               ELSE IF Place(n) < mc THEN Info("mentor", l, TRUE)
                               ELSE Info("follower", Source(n), TRUE)
    OBVIOUS
  <1> HIDE DEF Source
  <1>9. \A n \in Node : N[n] \in NodeInfo
    BY <1>2, <1>7, <1>8, InfoFacts
  <1>10. w \in View /\ w.leader = l /\ w.nodes = N
    <2>1. N \in [Node -> NodeInfo]
      <3>1. N = [n \in Node |-> N[n]]
        OBVIOUS
      <3> HIDE DEF N
      <3> QED
        BY <1>9, <3>1
    <2> HIDE DEF N, w
    <2> QED
      BY <1>1, <1>2, <2>1 DEF View
  <1> HIDE DEF N, w
  <1>11. ASSUME NEW n \in Node \ {l}
         PROVE  \/ w.nodes[n] = Info("follower", Nil, FALSE)
                \/ w.nodes[n] = Info("mentor", l, TRUE)
                \/ \E s \in Node \ {l} : /\ w.nodes[n] = Info("follower", s, TRUE)
                                         /\ w.nodes[s] = Info("mentor", l, TRUE)
    <2>1. CASE n \in C /\ ~(Place(n) < mc)
      <3>1. Source(n) \in Node \ {l} /\ w.nodes[n] = Info("follower", Source(n), TRUE)
        BY <1>2, <1>7, <1>8, <1>10, <1>11, <2>1
      <3>2. w.nodes[Source(n)] = Info("mentor", l, TRUE)
        BY <1>2, <1>7, <1>8, <1>10, <2>1
      <3> QED
        BY <3>1, <3>2
    <2>2. CASE ~(n \in C /\ ~(Place(n) < mc))
      BY <1>8, <1>10, <1>11, <2>2
    <2> QED
      BY <2>1, <2>2
  <1>12. ASSUME NEW m \in Node, NEW x \in FollowersOf(w, m)
         PROVE  x \in C /\ ~(Place(x) < mc) /\ m = Source(x)
    <2>1. x \in Node /\ N[x].healthy /\ N[x].role = "follower" /\ N[x].source = m
      BY <1>10, <1>12 DEF FollowersOf
    <2>2. x # l
      <3>1. ASSUME x = l PROVE N[x] = Info("leader", Nil, TRUE)
        BY <1>8, <2>1, <3>1
      <3>2. ASSUME x = l PROVE FALSE
        BY <2>1, <3>1, <3>2 DEF Info
      <3> QED
        BY <3>2
    <2>3. x \in C
      <3>1. ASSUME x \notin C PROVE N[x] = Info("follower", Nil, FALSE)
        BY <1>8, <2>1, <2>2, <3>1
      <3>2. ASSUME x \notin C PROVE FALSE
        BY <2>1, <3>1, <3>2 DEF Info
      <3> QED
        BY <3>2
    <2>4. ~(Place(x) < mc)
      <3>1. ASSUME Place(x) < mc PROVE N[x] = Info("mentor", l, TRUE)
        BY <1>8, <2>1, <2>2, <2>3, <3>1
      <3>2. ASSUME Place(x) < mc PROVE FALSE
        BY <2>1, <3>1, <3>2 DEF Info
      <3> QED
        BY <3>2
    <2>5. N[x] = Info("follower", Source(x), TRUE)
      BY <1>8, <2>1, <2>2, <2>3, <2>4
    <2>6. m = Source(x)
      BY <2>1, <2>5 DEF Info
    <2> QED
      BY <2>3, <2>4, <2>6
  <1>13. ASSUME NEW m \in Node, NEW x \in FollowersOf(w, m), NEW y \in FollowersOf(w, m)
         PROVE  x = y
    <2>1. x \in C /\ ~(Place(x) < mc) /\ m = Source(x) /\ y \in C /\ ~(Place(y) < mc) /\ m = Source(y)
      BY <1>12
    <2>2. Place(x) - mc = Place(y) - mc
      BY <1>7, <2>1
    <2>3. Place(x) \in Nat /\ Place(y) \in Nat
      BY <1>4, <2>1
    <2> QED
      BY <1>3, <1>5, <2>1, <2>2, <2>3
  <1>14. w.nodes[l] = Info("leader", Nil, TRUE)
    BY <1>2, <1>8, <1>10
  <1> QED
    BY <1>2, <1>10, <1>11, <1>13, <1>14 DEF Single, l, w

\* When a node is lost, those that followed it are bound elsewhere, each to a mentor that
\* had no follower or to the leader.
LEMMA MarkUnhealthyIs ==
    ASSUME NEW v \in View, NEW n \in Node, n # v.leader
    PROVE  LET w == MarkUnhealthy(v, n)
               left == FollowersOf(v, n) \ {n}
           IN  /\ w \in View /\ w.leader = v.leader
               /\ w.nodes[n] = Info("follower", Nil, FALSE)
               /\ \A p \in Node \ {n} : p \notin left => w.nodes[p] = v.nodes[p]
               /\ \A p \in left : \E s \in Node \cup {Nil} :
                     /\ w.nodes[p] = Info("follower", s, TRUE)
                     /\ \/ s = IF p = v.leader THEN Nil ELSE v.leader
                        \/ s # n /\ s \in Mentors(v) /\ FollowersOf(v, s) \subseteq {n}
               /\ \A p, q \in left : w.nodes[p].source = w.nodes[q].source =>
                     p = q \/ w.nodes[p].source \in {Nil, v.leader}
  <1> DEFINE gone == Info("follower", Nil, FALSE)
             u == [v EXCEPT !.nodes[n] = gone]
             L == FollowersOf(u, n) \ {Nil}
             free == {m \in Mentors(u) : FollowerOf(u, m) = Nil}
             k(p) == Position(L, p)
             S(p) == IF k(p) < Cardinality(free) THEN Nth(free, k(p))
                     ELSE IF u.leader # p THEN u.leader ELSE Nil
             N == [p \in Node |-> IF p \notin L THEN u.nodes[p] ELSE [u.nodes[p] EXCEPT !.source = S(p)]]
             w == MarkUnhealthy(v, n)
             left == FollowersOf(v, n) \ {n}
  <1>1. w = [u EXCEPT !.nodes = N]
    BY DEF MarkUnhealthy, ReassignFollowers
  <1>2. u \in View /\ u.leader = v.leader /\ u.nodes[n] = gone
        /\ \A p \in Node : p # n => u.nodes[p] = v.nodes[p]
    <2>1. gone \in NodeInfo
      BY InfoFacts
    <2> HIDE DEF gone
    <2> QED
      BY <2>1, ChangeOne
  <1>3. gone.role = "follower" /\ gone.source = Nil /\ gone.healthy = FALSE
    BY DEF Info
  <1> HIDE DEF u, gone
  <1>4. L = left
    <2>1. L = FollowersOf(u, n)
      BY NodeFacts DEF FollowersOf
    <2> QED
      BY <1>2, <1>3, <2>1 DEF FollowersOf
  <1>5. L \subseteq Node /\ free \subseteq Node /\ L \subseteq Nat /\ free \subseteq Nat
        /\ IsFiniteSet(L) /\ IsFiniteSet(free) /\ Cardinality(free) \in Nat
    <2>1. L \in SUBSET Node /\ free \in SUBSET Node
      BY DEF FollowersOf, Mentors
    <2> HIDE DEF L, free
    <2> QED
      BY <2>1, NodeFacts
  <1>6. \A s \in free : s # n /\ s \in Mentors(v) /\ FollowersOf(v, s) \subseteq {n}
    <2> TAKE s \in free
    <2>1. s \in Mentors(u) /\ FollowersOf(u, s) = {}
      BY FollowerOfFacts
    <2>2. s # n
      BY <1>2, <1>3, <2>1 DEF Mentors
    <2>3. s \in Mentors(v)
      BY <1>2, <2>1, <2>2 DEF Mentors
    <2>4. \A x \in FollowersOf(v, s) : x # n => x \in FollowersOf(u, s)
      BY <1>2 DEF FollowersOf
    <2> QED
      BY <2>1, <2>2, <2>3, <2>4
  <1> HIDE DEF free, L
  <1>7. \A p \in L : k(p) \in Nat
    BY <1>5, PositionFacts
  <1>8. \A p, q \in L : k(p) = k(q) => p = q
    BY <1>5, PositionFacts
  <1> DEFINE Taken(p) == k(p) < Cardinality(free)
  <1>9. \A p \in L : Taken(p) => S(p) \in free /\ Position(free, S(p)) = k(p)
    <2> SUFFICES ASSUME NEW p \in L, Taken(p) PROVE S(p) \in free /\ Position(free, S(p)) = k(p)
      OBVIOUS
    <2>1. k(p) \in Nat /\ k(p) < Cardinality(free) /\ S(p) = Nth(free, k(p))
      BY <1>7
    <2> HIDE DEF k
    <2>2. Nth(free, k(p)) \in free /\ Position(free, Nth(free, k(p))) = k(p)
      BY <1>5, <2>1, NthFacts
    <2> HIDE DEF S
    <2> QED
      BY <2>1, <2>2
  <1>10. \A p \in L : ~Taken(p) => S(p) = IF p = v.leader THEN Nil ELSE v.leader
    BY <1>2
  <1> HIDE DEF S, k, Taken
  <1>11. \A p \in L : S(p) \in Node \cup {Nil}
    BY <1>5, <1>9, <1>10, ViewFacts
  <1>12. \A p \in L : N[p] = Info("follower", S(p), TRUE)
    <2> TAKE p \in L
    <2>1. p \in Node /\ p # n /\ u.nodes[p] \in NodeInfo
      BY <1>2, <1>4, <1>5, ViewFacts
    <2>2. v.nodes[p].role = "follower" /\ v.nodes[p].healthy
      BY <1>4 DEF FollowersOf
    <2>3. v.nodes[p].healthy = TRUE
      BY <2>1, <2>2, ViewFacts
    <2>4. N[p] = [u.nodes[p] EXCEPT !.source = S(p)]
      BY <2>1
    <2>5. [u.nodes[p] EXCEPT !.source = S(p)] = Info(u.nodes[p].role, S(p), u.nodes[p].healthy)
      BY <2>1, <1>11, InfoSource
    <2> QED
      BY <1>2, <2>1, <2>2, <2>3, <2>4, <2>5
  <1>13. \A p \in Node \ L : N[p] = u.nodes[p]
    OBVIOUS
  <1>14. w \in View /\ w.leader = v.leader /\ w.nodes = N
    <2>1. \A p \in Node : N[p] \in NodeInfo
      <3>1. \A p \in L : N[p] \in NodeInfo
        BY <1>11, <1>12, InfoFacts, ZenonT(60)
      <3>2. \A p \in Node \ L : N[p] \in NodeInfo
        BY <1>2, <1>13, ViewFacts
      <3> QED
        BY <3>1, <3>2
    <2>2. N \in [Node -> NodeInfo]
      <3>1. N = [p \in Node |-> N[p]]
        OBVIOUS
      <3> HIDE DEF N
      <3> QED
        BY <2>1, <3>1
    <2> HIDE DEF N, w
    <2> QED
      BY <1>1, <1>2, <2>2, ChangeAll
  <1> HIDE DEF N, w
  <1>15. w.nodes[n] = Info("follower", Nil, FALSE)
    BY <1>2, <1>4, <1>13, <1>14 DEF gone
  <1>16. \A p \in Node \ {n} : p \notin left => w.nodes[p] = v.nodes[p]
    BY <1>2, <1>4, <1>13, <1>14
  <1>17. ASSUME NEW p \in left
         PROVE  \E s \in Node \cup {Nil} :
                     /\ w.nodes[p] = Info("follower", s, TRUE)
                     /\ \/ s = IF p = v.leader THEN Nil ELSE v.leader
                        \/ s # n /\ s \in Mentors(v) /\ FollowersOf(v, s) \subseteq {n}
    <2>1. S(p) \in Node \cup {Nil} /\ w.nodes[p] = Info("follower", S(p), TRUE)
      BY <1>4, <1>11, <1>12, <1>14
    <2>2. \/ S(p) = IF p = v.leader THEN Nil ELSE v.leader
          \/ S(p) # n /\ S(p) \in Mentors(v) /\ FollowersOf(v, S(p)) \subseteq {n}
      BY <1>4, <1>6, <1>9, <1>10
    <2> QED
      BY <2>1, <2>2
  <1>18. ASSUME NEW p \in left, NEW q \in left, w.nodes[p].source = w.nodes[q].source
         PROVE  p = q \/ w.nodes[p].source \in {Nil, v.leader}
    <2>0. w.nodes[p] = Info("follower", S(p), TRUE) /\ w.nodes[q] = Info("follower", S(q), TRUE)
      BY <1>4, <1>12, <1>14
    <2>1. w.nodes[p].source = S(p) /\ w.nodes[q].source = S(q)
      BY <2>0 DEF Info
    <2>2. CASE Taken(p) /\ Taken(q)
      <3>1. S(p) = S(q) /\ p \in L /\ q \in L
        BY <1>4, <1>18, <2>1
      <3>2. Position(free, S(p)) = k(p) /\ Position(free, S(q)) = k(q)
        BY <1>9, <2>2, <3>1
      <3>3. k(p) = k(q)
        BY <3>1, <3>2
      <3> QED
        BY <1>8, <3>1, <3>3
    <2>3. CASE ~(Taken(p) /\ Taken(q))
      BY <1>4, <1>10, <1>18, <2>1, <2>3
    <2> QED
      BY <2>2, <2>3
  <1> QED
    BY <1>14, <1>15, <1>16, <1>17, <1>18 DEF w

\* A node that is back and has no source gets a mentor that has no follower, or the leader.
LEMMA MarkHealthyIs ==
    ASSUME NEW v \in View, NEW n \in Node
    PROVE  LET w == MarkHealthy(v, n)
               s == w.nodes[n].source
           IN  /\ w \in View /\ w.leader = v.leader
               /\ v.leader # Nil => w.nodes[v.leader] = Info("leader", Nil, TRUE)
               /\ \A p \in Node \ {n} : p # v.leader => w.nodes[p] = v.nodes[p]
               /\ n # v.leader => w.nodes[n].healthy
               /\ n # v.leader /\ v.nodes[n].source # Nil =>
                     w.nodes[n].role = v.nodes[n].role /\ s = v.nodes[n].source
               /\ n # v.leader /\ v.nodes[n].source = Nil =>
                     /\ w.nodes[n].role = "follower"
                     /\ \/ s = v.leader
                        \/ /\ s \in Mentors(v) \ {n, v.leader}
                           /\ \A x \in FollowersOf(v, s) : x \in {n, v.leader}
  <1> DEFINE e == EnsureLeader(v)
             w1 == [e EXCEPT !.nodes[n].healthy = TRUE]
             w == MarkHealthy(v, n)
             led == Info("leader", Nil, TRUE)
  <1>1. e \in View /\ e.leader = v.leader
        /\ \A p \in Node : e.nodes[p] = IF p = v.leader THEN led ELSE v.nodes[p]
    BY EnsureLeaderIs
  <1>2. /\ w1 \in View /\ w1.leader = v.leader
        /\ w1.nodes[n] = Info(e.nodes[n].role, e.nodes[n].source, TRUE)
        /\ \A p \in Node : p # n => w1.nodes[p] = e.nodes[p]
    <2> HIDE DEF e
    <2> QED
      BY <1>1, ChangeHealth
  <1>3. led \in NodeInfo
    BY InfoFacts
  <1>4. v.leader # Nil => v.leader \in Node
    BY ViewFacts
  <1>5. n # v.leader =>
          /\ w1.nodes[n].role = v.nodes[n].role /\ w1.nodes[n].source = v.nodes[n].source
          /\ w1.nodes[n].healthy = TRUE
    <2> HIDE DEF w1, e
    <2> QED
      BY <1>1, <1>2 DEF Info
  <1>6. CASE n = v.leader
    <2>1. w = [w1 EXCEPT !.nodes[n] = led]
      BY <1>2, <1>6 DEF MarkHealthy
    <2>2. /\ w \in View /\ w.leader = w1.leader /\ w.nodes[n] = led
          /\ \A p \in Node : p # n => w.nodes[p] = w1.nodes[p]
      <3> HIDE DEF w1, w, led
      <3> QED
        BY <1>2, <1>3, <2>1, ChangeOne
    <2>3. \A p \in Node \ {n} : p # v.leader => w.nodes[p] = v.nodes[p]
      <3> HIDE DEF w1, w, led, e
      <3> QED
        BY <1>1, <1>2, <2>2
    <2> HIDE DEF w1, led, e
    <2> QED
      BY <1>2, <1>6, <2>2, <2>3 DEF led
  <1>7. CASE n # v.leader /\ v.nodes[n].source # Nil
    <2>1. w = w1
      <3>1. n # w1.leader /\ w1.nodes[n].source # Nil
        BY <1>2, <1>5, <1>7
      <3> HIDE DEF w1, e
      <3>2. w = IF n = w1.leader THEN [w1 EXCEPT !.nodes[n] = led]
                ELSE IF w1.nodes[n].source # Nil THEN w1
                ELSE LET u == [w1 EXCEPT !.nodes[n].role = "follower"]
                     IN  [u EXCEPT !.nodes[n].source = SelectSource(u, n)]
        BY DEF MarkHealthy, w1, e
      <3> QED
        BY <3>1, <3>2
    <2> HIDE DEF w1, e, w
    <2>2. v.leader # Nil => w.nodes[v.leader] = led
      BY <1>1, <1>2, <1>4, <1>7, <2>1
    <2> QED
      BY <1>1, <1>2, <1>5, <1>7, <2>1, <2>2 DEF w
  <1>8. CASE n # v.leader /\ v.nodes[n].source = Nil
    <2> DEFINE u == [w1 EXCEPT !.nodes[n].role = "follower"]
               s == SelectSource(u, n)
    <2>1. w = [u EXCEPT !.nodes[n].source = s]
      <3>1. n # w1.leader /\ w1.nodes[n].source = Nil
        BY <1>2, <1>5, <1>8
      <3>2. w = IF n = w1.leader THEN [w1 EXCEPT !.nodes[n] = led]
                ELSE IF w1.nodes[n].source # Nil THEN w1
                ELSE [u EXCEPT !.nodes[n].source = s]
        BY DEF MarkHealthy
      <3> HIDE DEF w1, u, s
      <3> QED
        BY <3>1, <3>2
    <2>2. /\ u \in View /\ u.leader = v.leader
          /\ u.nodes[n] = Info("follower", w1.nodes[n].source, w1.nodes[n].healthy)
          /\ \A p \in Node : p # n => u.nodes[p] = w1.nodes[p]
      <3> HIDE DEF w1
      <3> QED
        BY <1>2, ChangeRole
    <2> HIDE DEF w1, e, u
    <2>3. u.nodes[n].role = "follower" /\ u.nodes[n].healthy = TRUE /\ u.nodes[n].source = Nil
      BY <1>5, <1>8, <2>2 DEF Info
    <2>4. \A p \in Node \ {n} : u.nodes[p] = IF p = v.leader THEN led ELSE v.nodes[p]
      BY <1>1, <1>2, <2>2
    <2>5. \A m \in FreeMentors(u, n) :
             /\ m \in Mentors(v) \ {n, v.leader}
             /\ \A x \in FollowersOf(v, m) : x \in {n, v.leader}
      <3> TAKE m \in FreeMentors(u, n)
      <3>1. m \in Mentors(u) /\ m # n /\ FollowerOf(u, m) \in {Nil, n}
        BY DEF FreeMentors
      <3>2. m # v.leader
        <4>1. led.role = "leader"
          BY DEF Info
        <4> HIDE DEF led
        <4> QED
          BY <2>4, <3>1, <4>1 DEF Mentors
      <3>3. m \in Mentors(v)
        BY <2>4, <3>1, <3>2 DEF Mentors
      <3>4. m \in Node
        BY <3>1 DEF Mentors
      <3>5. n \notin FollowersOf(u, m)
        BY <2>3, <3>4, NodeFacts DEF FollowersOf
      <3>6. FollowersOf(u, m) = {}
        BY <3>1, <3>5, FollowerOfFacts
      <3>7. \A x \in FollowersOf(v, m) : x \in {n, v.leader} \/ x \in FollowersOf(u, m)
        <4> TAKE x \in FollowersOf(v, m)
        <4>1. x \in Node
          BY DEF FollowersOf
        <4>2. x \notin {n, v.leader} => u.nodes[x] = v.nodes[x]
          BY <2>4, <4>1
        <4> QED
          BY <4>1, <4>2 DEF FollowersOf
      <3> QED
        BY <3>1, <3>2, <3>3, <3>6, <3>7
    <2>6. s = v.leader \/ s \in FreeMentors(u, n)
      <3>1. FreeMentors(u, n) \subseteq Nat
        BY NodeFacts DEF FreeMentors, Mentors
      <3>2. FreeMentors(u, n) # {} => Least(FreeMentors(u, n)) \in FreeMentors(u, n)
        BY <3>1, LeastFacts
      <3> QED
        BY <1>8, <2>2, <3>2 DEF SelectSource
    <2>7. s \in Node \cup {Nil}
      BY <2>5, <2>6, ViewFacts DEF Mentors
    <2> HIDE DEF s
    <2>8. /\ w \in View /\ w.leader = v.leader
          /\ w.nodes[n] = Info(u.nodes[n].role, s, u.nodes[n].healthy)
          /\ \A p \in Node : p # n => w.nodes[p] = u.nodes[p]
      <3> HIDE DEF w
      <3> QED
        BY <2>1, <2>2, <2>7, ChangeSource
    <2> HIDE DEF w
    <2>9. w.nodes[n].role = "follower" /\ w.nodes[n].source = s /\ w.nodes[n].healthy
      BY <2>3, <2>8 DEF Info
    <2>10. v.leader # Nil => w.nodes[v.leader] = led
      BY <1>4, <1>8, <2>4, <2>8
    <2>11. \A p \in Node \ {n} : p # v.leader => w.nodes[p] = v.nodes[p]
      BY <2>4, <2>8
    <2> QED
      BY <1>8, <2>5, <2>6, <2>8, <2>9, <2>10, <2>11 DEF w
  <1> QED
    BY <1>6, <1>7, <1>8

LEMMA SwapIs ==
    ASSUME NEW v \in View, NEW a \in Node, NEW b \in Node
    PROVE  LET w == SwapFollowers(v, a, b) IN
           /\ w \in View /\ w.leader = v.leader
           /\ \A p \in Node :
                 /\ w.nodes[p].role = v.nodes[p].role /\ w.nodes[p].healthy = v.nodes[p].healthy
                 /\ p = FollowerOf(v, b) => w.nodes[p].source = a
                 /\ p # FollowerOf(v, b) /\ p = FollowerOf(v, a) => w.nodes[p].source = b
                 /\ p # FollowerOf(v, b) /\ p # FollowerOf(v, a) => w.nodes[p].source = v.nodes[p].source
  <1> DEFINE fa == FollowerOf(v, a)
             fb == FollowerOf(v, b)
             N == [p \in Node |-> IF p = fb THEN [v.nodes[p] EXCEPT !.source = a]
                                  ELSE IF p = fa THEN [v.nodes[p] EXCEPT !.source = b]
                                  ELSE v.nodes[p]]
             w == SwapFollowers(v, a, b)
  <1>1. w = [v EXCEPT !.nodes = N]
    BY DEF SwapFollowers
  <1>2. \A p \in Node : v.nodes[p] \in NodeInfo /\ N[p] \in NodeInfo
    BY ViewFacts, InfoSource
  <1>3. N \in [Node -> NodeInfo]
    <2>1. N = [p \in Node |-> N[p]]
      OBVIOUS
    <2> HIDE DEF N
    <2> QED
      BY <1>2, <2>1
  <1>4. w \in View /\ w.leader = v.leader /\ w.nodes = N
    <2> HIDE DEF w, N
    <2> QED
      BY <1>1, <1>3, ChangeAll
  <1> HIDE DEF fa, fb
  <1>5. ASSUME NEW p \in Node
        PROVE  /\ N[p].role = v.nodes[p].role /\ N[p].healthy = v.nodes[p].healthy
               /\ p = fb => N[p].source = a
               /\ p # fb /\ p = fa => N[p].source = b
               /\ p # fb /\ p # fa => N[p].source = v.nodes[p].source
    <2>1. v.nodes[p] \in NodeInfo
      BY <1>2
    <2> QED
      BY <2>1 DEF NodeInfo
  <1> HIDE DEF N
  <1> QED
    BY <1>4, <1>5 DEF fa, fb

(***************************************************************************)
(* The topology of a leader.                                               *)
(***************************************************************************)

\* It names this node, lost nodes are bound to nobody, and nobody, mentor or not, has two
\* followers.
Lead(v) ==
    /\ v \in View /\ v.leader = Self /\ v.nodes[Self].role = "leader"
    /\ \A n \in Peers : ~v.nodes[n].healthy => v.nodes[n].source = Nil
    /\ \A m \in Peers : Single(FollowersOf(v, m))

ServedNode(v, n) ==
    \/ v.nodes[n].source = Self
    \/ v.nodes[n].role = "follower" /\ v.nodes[n].source \in Mentors(v)

Served(v) == \A n \in Peers : v.nodes[n].healthy => ServedNode(v, n)

LEMMA LeadFacts ==
    ASSUME NEW v, Lead(v)
    PROVE  /\ Mentors(v) \subseteq Peers
           /\ \A m : FollowersOf(v, m) \subseteq Peers
           /\ \A m \in Peers : FollowersOf(v, m) \subseteq {FollowerOf(v, m)}
  <1>1. Mentors(v) \subseteq Peers
    BY DEF Lead, Mentors, Peers
  <1>2. \A m : FollowersOf(v, m) \subseteq Peers
    BY DEF Lead, FollowersOf, Peers
  <1>3. \A m \in Peers : FollowersOf(v, m) \subseteq {FollowerOf(v, m)}
    BY FollowerOfFacts DEF Lead, Single
  <1> QED
    BY <1>1, <1>2, <1>3

LEMMA LeadRebalance ==
    ASSUME NEW v \in View, v.leader = Self, NEW H, H \subseteq Peers
    PROVE  Lead(Rebalance(v, H)) /\ Served(Rebalance(v, H))
  <1> DEFINE w == Rebalance(v, H)
  <1>1. /\ w \in View /\ w.leader = Self /\ w.nodes[Self] = Info("leader", Nil, TRUE)
        /\ \A n \in Node \ {Self} :
              \/ w.nodes[n] = Info("follower", Nil, FALSE)
              \/ w.nodes[n] = Info("mentor", Self, TRUE)
              \/ \E s \in Node \ {Self} : /\ w.nodes[n] = Info("follower", s, TRUE)
                                          /\ w.nodes[s] = Info("mentor", Self, TRUE)
        /\ \A m \in Node : Single(FollowersOf(w, m))
    <2> DEFINE l == IF v.leader = Nil THEN Self ELSE v.leader
    <2>1. l = Self
      BY NodeFacts
    <2>2. /\ w \in View /\ w.leader = l /\ w.nodes[l] = Info("leader", Nil, TRUE)
          /\ \A n \in Node \ {l} :
                \/ w.nodes[n] = Info("follower", Nil, FALSE)
                \/ w.nodes[n] = Info("mentor", l, TRUE)
                \/ \E s \in Node \ {l} : /\ w.nodes[n] = Info("follower", s, TRUE)
                                         /\ w.nodes[s] = Info("mentor", l, TRUE)
          /\ \A m \in Node : Single(FollowersOf(w, m))
      BY RebalanceIs
    <2> HIDE DEF l, w
    <2> QED
      BY <2>1, <2>2
  <1> HIDE DEF w
  <1>2. w.nodes[Self].role = "leader"
    BY <1>1 DEF Info
  <1>3. ASSUME NEW n \in Peers
        PROVE  /\ ~w.nodes[n].healthy => w.nodes[n].source = Nil
               /\ w.nodes[n].healthy => ServedNode(w, n)
    <2>1. CASE w.nodes[n] = Info("follower", Nil, FALSE)
      BY <2>1 DEF Info
    <2>2. CASE w.nodes[n] = Info("mentor", Self, TRUE)
      BY <2>2 DEF Info, ServedNode
    <2>3. CASE \E s \in Node \ {Self} : /\ w.nodes[n] = Info("follower", s, TRUE)
                                        /\ w.nodes[s] = Info("mentor", Self, TRUE)
      <3>1. PICK s \in Node \ {Self} : /\ w.nodes[n] = Info("follower", s, TRUE)
                                       /\ w.nodes[s] = Info("mentor", Self, TRUE)
        BY <2>3
      <3>2. s \in Mentors(w)
        BY <3>1 DEF Info, Mentors
      <3> QED
        BY <3>1, <3>2 DEF Info, ServedNode
    <2> QED
      BY <1>1, <2>1, <2>2, <2>3 DEF Peers
  <1> QED
    BY <1>1, <1>2, <1>3, NodeFacts DEF Lead, Served, w

LEMMA LeadPromote ==
    ASSUME NEW v, Lead(v), NEW n \in Peers
    PROVE  LET w == PromoteToMentor(v, n) IN
           Lead(w) /\ Mentors(v) \subseteq Mentors(w) /\ (Served(v) => Served(w))
  <1> DEFINE w == PromoteToMentor(v, n)
  <1>1. /\ w \in View /\ w.leader = Self /\ w.nodes[Self] = Info("leader", Nil, TRUE)
        /\ w.nodes[n] = Info("mentor", Self, TRUE)
        /\ \A p \in Node : p \notin {n, Self} => w.nodes[p] = v.nodes[p]
    <2>1. v \in View /\ v.leader = Self /\ n \in Node /\ n # Self /\ Self \in Node
      BY NodeFacts DEF Lead
    <2>2. /\ w \in View /\ w.leader = v.leader
          /\ \A p \in Node : w.nodes[p] = IF p = v.leader THEN Info("leader", Nil, TRUE)
                                          ELSE IF p = n THEN Info("mentor", v.leader, TRUE)
                                          ELSE v.nodes[p]
      BY <2>1, PromoteIs
    <2> HIDE DEF w
    <2> QED
      BY <2>1, <2>2
  <1>2. w.nodes[Self].role = "leader" /\ w.nodes[n].role = "mentor" /\ w.nodes[n].source = Self
        /\ w.nodes[n].healthy = TRUE
    BY <1>1 DEF Info
  <1> HIDE DEF w
  <1>3. \A m \in Peers : FollowersOf(w, m) \subseteq FollowersOf(v, m)
    BY <1>1, <1>2 DEF FollowersOf
  <1>4. Mentors(v) \subseteq Mentors(w)
    BY <1>1, <1>2, LeadFacts, NodeFacts DEF Mentors
  <1>5. \A p \in Peers : ~w.nodes[p].healthy => w.nodes[p].source = Nil
    BY <1>1, <1>2, NodeFacts DEF Lead
  <1>6. ASSUME Served(v), NEW p \in Peers, w.nodes[p].healthy PROVE ServedNode(w, p)
    BY <1>1, <1>2, <1>4, <1>6, NodeFacts DEF Served, ServedNode
  <1>7. Lead(w)
    BY <1>1, <1>2, <1>3, <1>5, ZenonT(60) DEF Lead, Single
  <1> QED
    BY <1>4, <1>6, <1>7 DEF Served, w

LEMMA LeadHealthy ==
    ASSUME NEW v, Lead(v), NEW n \in Peers
    PROVE  LET w == MarkHealthy(v, n) IN
           Lead(w) /\ (Served(v) => Served(w) /\ Mentors(v) \subseteq Mentors(w))
  <1> DEFINE w == MarkHealthy(v, n)
             s == w.nodes[n].source
  <1>1. v \in View /\ v.leader = Self /\ n \in Node /\ n # Self /\ Self \in Node /\ Self # Nil
    BY NodeFacts DEF Lead
  <1>2. /\ w \in View /\ w.leader = Self /\ w.nodes[Self] = Info("leader", Nil, TRUE)
        /\ \A p \in Node \ {n} : p # Self => w.nodes[p] = v.nodes[p]
        /\ w.nodes[n].healthy
        /\ v.nodes[n].source # Nil => w.nodes[n].role = v.nodes[n].role /\ s = v.nodes[n].source
        /\ v.nodes[n].source = Nil =>
              /\ w.nodes[n].role = "follower"
              /\ s = Self \/ (s \in Mentors(v) \ {n, Self} /\ \A x \in FollowersOf(v, s) : x \in {n, Self})
    <2>1. /\ w \in View /\ w.leader = v.leader
          /\ v.leader # Nil => w.nodes[v.leader] = Info("leader", Nil, TRUE)
          /\ \A p \in Node \ {n} : p # v.leader => w.nodes[p] = v.nodes[p]
          /\ n # v.leader => w.nodes[n].healthy
          /\ n # v.leader /\ v.nodes[n].source # Nil =>
                w.nodes[n].role = v.nodes[n].role /\ s = v.nodes[n].source
          /\ n # v.leader /\ v.nodes[n].source = Nil =>
                /\ w.nodes[n].role = "follower"
                /\ \/ s = v.leader
                   \/ /\ s \in Mentors(v) \ {n, v.leader}
                      /\ \A x \in FollowersOf(v, s) : x \in {n, v.leader}
      BY <1>1, MarkHealthyIs
    <2> HIDE DEF w, s
    <2> QED
      BY <1>1, <2>1
  <1>3. w.nodes[Self].role = "leader"
    BY <1>2 DEF Info
  <1> HIDE DEF w
  <1>4. \A p \in Peers : ~w.nodes[p].healthy => w.nodes[p].source = Nil
    BY <1>2, NodeFacts DEF Lead, Peers
  <1>5. ASSUME NEW m \in Peers PROVE Single(FollowersOf(w, m))
    <2>1. \A x \in FollowersOf(w, m) : x # Self /\ (x # n => x \in FollowersOf(v, m))
      BY <1>2, <1>3 DEF FollowersOf
    <2>2. CASE v.nodes[n].source # Nil
      <3>1. v.nodes[n].healthy
        BY <2>2 DEF Lead
      <3>2. FollowersOf(w, m) \subseteq FollowersOf(v, m)
        BY <1>2, <2>1, <2>2, <3>1 DEF FollowersOf
      <3> QED
        BY <3>2 DEF Lead, Single
    <2>3. CASE v.nodes[n].source = Nil
      <3>1. CASE s = m
        <4>1. \A x \in FollowersOf(v, m) : x \in {n, Self}
          BY <1>2, <2>3, <3>1, NodeFacts
        <4> QED
          BY <2>1, <4>1 DEF Single
      <3>2. CASE s # m
        <4>1. FollowersOf(w, m) \subseteq FollowersOf(v, m)
          BY <2>1, <3>2 DEF FollowersOf
        <4> QED
          BY <4>1 DEF Lead, Single
      <3> QED
        BY <3>1, <3>2
    <2> QED
      BY <2>2, <2>3
  <1>6. ASSUME Served(v) PROVE Mentors(v) \subseteq Mentors(w)
    <2> SUFFICES ASSUME NEW p \in Mentors(v) PROVE p \in Mentors(w)
      OBVIOUS
    <2>1. p \in Peers /\ v.nodes[p].healthy /\ v.nodes[p].role = "mentor"
      BY LeadFacts DEF Mentors
    <2>2. v.nodes[p].source # Nil
      BY <1>1, <1>6, <2>1 DEF Served, ServedNode
    <2> QED
      BY <1>2, <2>1, <2>2, NodeFacts DEF Mentors
  <1>7. ASSUME Served(v), NEW p \in Peers, w.nodes[p].healthy PROVE ServedNode(w, p)
    <2>1. CASE p # n
      BY <1>2, <1>6, <1>7, <2>1, NodeFacts DEF Served, ServedNode
    <2>2. CASE p = n /\ v.nodes[n].source = Nil
      BY <1>2, <1>6, <1>7, <2>2 DEF ServedNode
    <2>3. CASE p = n /\ v.nodes[n].source # Nil
      <3>1. ServedNode(v, n)
        BY <1>7, <2>3 DEF Lead, Served
      <3> QED
        BY <1>2, <1>6, <1>7, <2>3, <3>1 DEF ServedNode
    <2> QED
      BY <2>1, <2>2, <2>3
  <1> QED
    BY <1>2, <1>3, <1>4, <1>5, <1>6, <1>7 DEF Lead, Served, w

LEMMA LeadUnhealthy ==
    ASSUME NEW v, Lead(v), NEW n \in Node
    PROVE  LET w == MarkUnhealthy(v, n) IN Lead(w) /\ (Served(v) => Served(w))
  <1> DEFINE w == MarkUnhealthy(v, n)
             left == FollowersOf(v, n) \ {n}
  <1>0. v \in View /\ v.leader = Self /\ Self \in Node /\ Self # Nil
    BY NodeFacts DEF Lead
  <1>1. CASE n = Self
    <2> DEFINE info == Info("leader", Nil, FALSE)
    <2>1. info \in NodeInfo /\ info.role = "leader"
      BY InfoFacts DEF Info
    <2>2. w = [v EXCEPT !.nodes[n] = info]
      BY <1>0, <1>1 DEF MarkUnhealthy
    <2> HIDE DEF w, info
    <2>3. /\ w \in View /\ w.leader = Self /\ w.nodes[Self].role = "leader"
          /\ \A p \in Node : p # Self => w.nodes[p] = v.nodes[p]
      BY <1>0, <1>1, <2>1, <2>2, ChangeOne
    <2>4. \A m : FollowersOf(w, m) = FollowersOf(v, m)
      BY <2>3 DEF FollowersOf, Lead
    <2>5. Mentors(w) = Mentors(v)
      BY <2>3 DEF Mentors, Lead
    <2>6. \A p \in Peers : w.nodes[p] = v.nodes[p]
      BY <2>3 DEF Peers
    <2>7. Lead(w)
      BY <2>3, <2>4, <2>6 DEF Lead
    <2>8. Served(v) => Served(w)
      BY <2>5, <2>6 DEF Served, ServedNode
    <2> QED
      BY <2>7, <2>8 DEF w
  <1>2. CASE n # Self
    <2>1. /\ w \in View /\ w.leader = Self
          /\ w.nodes[n] = Info("follower", Nil, FALSE)
          /\ \A p \in Node \ {n} : p \notin left => w.nodes[p] = v.nodes[p]
          /\ \A p \in left : \E s \in Node \cup {Nil} :
                /\ w.nodes[p] = Info("follower", s, TRUE)
                /\ \/ s = IF p = Self THEN Nil ELSE Self
                   \/ s # n /\ s \in Mentors(v) /\ FollowersOf(v, s) \subseteq {n}
          /\ \A p, q \in left : w.nodes[p].source = w.nodes[q].source =>
                p = q \/ w.nodes[p].source \in {Nil, Self}
      <3>1. /\ w \in View /\ w.leader = v.leader
            /\ w.nodes[n] = Info("follower", Nil, FALSE)
            /\ \A p \in Node \ {n} : p \notin left => w.nodes[p] = v.nodes[p]
            /\ \A p \in left : \E s \in Node \cup {Nil} :
                  /\ w.nodes[p] = Info("follower", s, TRUE)
                  /\ \/ s = IF p = v.leader THEN Nil ELSE v.leader
                     \/ s # n /\ s \in Mentors(v) /\ FollowersOf(v, s) \subseteq {n}
            /\ \A p, q \in left : w.nodes[p].source = w.nodes[q].source =>
                  p = q \/ w.nodes[p].source \in {Nil, v.leader}
        BY <1>0, <1>2, MarkUnhealthyIs
      <3> HIDE DEF w, left
      <3> QED
        BY <1>0, <3>1
    <2>2. left \subseteq Peers
      BY LeadFacts
    <2>3. \A p \in left :
             /\ w.nodes[p].role = "follower" /\ w.nodes[p].healthy = TRUE
             /\ \/ w.nodes[p].source = Self
                \/ /\ w.nodes[p].source # n /\ w.nodes[p].source \in Mentors(v)
                   /\ FollowersOf(v, w.nodes[p].source) \subseteq {n}
      <3> TAKE p \in left
      <3>1. PICK s \in Node \cup {Nil} :
                /\ w.nodes[p] = Info("follower", s, TRUE)
                /\ \/ s = IF p = Self THEN Nil ELSE Self
                   \/ s # n /\ s \in Mentors(v) /\ FollowersOf(v, s) \subseteq {n}
        BY <2>1
      <3>2. w.nodes[p].role = "follower" /\ w.nodes[p].healthy = TRUE /\ w.nodes[p].source = s
        BY <3>1 DEF Info
      <3>3. p # Self
        BY <2>2, NodeFacts
      <3> HIDE DEF w, left
      <3> QED
        BY <3>1, <3>2, <3>3
    <2>4. w.nodes[n].healthy = FALSE /\ w.nodes[n].source = Nil /\ w.nodes[n].role = "follower"
      BY <2>1 DEF Info
    <2>5. \A p \in FollowersOf(v, n) : p # n => p \in left
      OBVIOUS
    <2>6. \A p \in left : v.nodes[p].source = n /\ v.nodes[p].role = "follower"
      BY DEF FollowersOf
    <2> HIDE DEF w, left
    <2>7. w.nodes[Self].role = "leader"
      BY <1>2, <2>1, <2>2, NodeFacts DEF Lead
    <2>8. \A p \in Peers : ~w.nodes[p].healthy => w.nodes[p].source = Nil
      BY <2>1, <2>3, <2>4, NodeFacts, ZenonT(60) DEF Lead
    <2>9. ASSUME NEW m \in Peers PROVE Single(FollowersOf(w, m))
      <3> SUFFICES ASSUME NEW x \in FollowersOf(w, m), NEW y \in FollowersOf(w, m) PROVE x = y
        BY DEF Single
      <3>1. /\ x \in Node /\ w.nodes[x].healthy /\ w.nodes[x].source = m /\ w.nodes[x].role = "follower"
            /\ y \in Node /\ w.nodes[y].healthy /\ w.nodes[y].source = m /\ w.nodes[y].role = "follower"
        BY DEF FollowersOf
      <3>2. x # n /\ y # n /\ m # Nil /\ m # Self
        BY <2>4, <3>1, NodeFacts
      <3>3. \A z \in {x, y} : z \notin left => z \in FollowersOf(v, m) \ {n}
        BY <2>1, <3>1, <3>2 DEF FollowersOf
      <3>4. \A z \in {x, y} : z \in left => FollowersOf(v, m) \subseteq {n}
        BY <2>3, <3>1, <3>2
      <3>5. CASE x \in left /\ y \in left
        BY <2>1, <3>1, <3>2, <3>5
      <3>6. CASE x \notin left /\ y \notin left
        BY <3>3, <3>6 DEF Lead, Single
      <3>7. CASE (x \in left) # (y \in left)
        BY <3>3, <3>4, <3>7
      <3> QED
        BY <3>5, <3>6, <3>7
    <2>10. \A m \in Mentors(v) : m # n => m \in Mentors(w)
      <3> TAKE m \in Mentors(v)
      <3>1. m \in Node /\ m \notin left
        BY <2>6 DEF Mentors
      <3> QED
        BY <2>1, <3>1 DEF Mentors
    <2>11. ASSUME Served(v), NEW p \in Peers, w.nodes[p].healthy PROVE ServedNode(w, p)
      <3>1. p # n
        BY <2>4, <2>11
      <3>2. CASE p \in left
        BY <2>3, <2>10, <3>2 DEF ServedNode
      <3>3. CASE p \notin left
        <4>1. w.nodes[p] = v.nodes[p]
          BY <2>1, <3>1, <3>3, NodeFacts
        <4>2. ServedNode(v, p)
          BY <2>11, <4>1 DEF Served
        <4>3. CASE v.nodes[p].source = Self
          BY <4>1, <4>3 DEF ServedNode
        <4>4. CASE v.nodes[p].role = "follower" /\ v.nodes[p].source \in Mentors(v)
          <5>1. v.nodes[p].source # n
            <6>1. v.nodes[p].source = n => p \in FollowersOf(v, n)
              BY <2>11, <4>1, <4>4, NodeFacts DEF FollowersOf
            <6> QED
              BY <2>5, <3>1, <3>3, <6>1
          <5> QED
            BY <2>10, <4>1, <4>4, <5>1 DEF ServedNode
        <4> QED
          BY <4>2, <4>3, <4>4 DEF ServedNode
      <3> QED
        BY <3>2, <3>3
    <2>12. Lead(w)
      BY <2>1, <2>7, <2>8, <2>9 DEF Lead
    <2> QED
      BY <2>11, <2>12 DEF Served, w
  <1> QED
    BY <1>1, <1>2

LEMMA LeadSwap ==
    ASSUME NEW v, Lead(v), NEW a \in Peers, NEW b \in Peers, a # b
    PROVE  LET w == SwapFollowers(v, a, b) IN
           Lead(w) /\ (Served(v) /\ {a, b} \subseteq Mentors(v) => Served(w))
  <1> DEFINE w == SwapFollowers(v, a, b)
             fa == FollowerOf(v, a)
             fb == FollowerOf(v, b)
             New(p) == IF p = fb THEN a ELSE IF p = fa THEN b ELSE v.nodes[p].source
  <1>0. v \in View /\ v.leader = Self /\ Self \in Node /\ Self # Nil /\ a \in Node /\ b \in Node
    BY NodeFacts DEF Lead
  <1>1. /\ w \in View /\ w.leader = v.leader
        /\ \A p \in Node :
              /\ w.nodes[p].role = v.nodes[p].role /\ w.nodes[p].healthy = v.nodes[p].healthy
              /\ p = fb => w.nodes[p].source = a
              /\ p # fb /\ p = fa => w.nodes[p].source = b
              /\ p # fb /\ p # fa => w.nodes[p].source = v.nodes[p].source
    <2> HIDE DEF New
    <2>1. v \in View /\ a \in Node /\ b \in Node
      BY <1>0
    <2> QED
      BY <2>1, SwapIs, ZenonT(60)
  <1> HIDE DEF w
  <1>2. \A p \in Node : /\ w.nodes[p].role = v.nodes[p].role /\ w.nodes[p].source = New(p)
                        /\ w.nodes[p].healthy = v.nodes[p].healthy
    <2> HIDE DEF fa, fb
    <2> QED
      BY <1>1
  <1> HIDE DEF New
  <1>3. /\ fa = Nil \/ (fa \in FollowersOf(v, a) /\ fa \in Peers)
        /\ fb = Nil \/ (fb \in FollowersOf(v, b) /\ fb \in Peers)
    BY FollowerOfFacts, LeadFacts
  <1>4. FollowersOf(v, a) \subseteq {fa} /\ FollowersOf(v, b) \subseteq {fb}
    BY LeadFacts
  <1> HIDE DEF fa, fb
  <1>5. \A p \in Node : p \notin {fa, fb} => New(p) = v.nodes[p].source
    BY DEF New
  <1>6. New(fb) = a /\ (fa # fb => New(fa) = b)
    BY DEF New
  <1>7. /\ fa # Nil => v.nodes[fa].healthy /\ v.nodes[fa].source = a /\ v.nodes[fa].role = "follower"
        /\ fb # Nil => v.nodes[fb].healthy /\ v.nodes[fb].source = b /\ v.nodes[fb].role = "follower"
    BY <1>3 DEF FollowersOf
  <1>8. fa # Nil => fa # fb
    BY <1>7
  <1>9. Mentors(w) = Mentors(v)
    BY <1>2 DEF Mentors
  <1>10. \A p \in Peers : ~w.nodes[p].healthy => w.nodes[p].source = Nil
    BY <1>2, <1>5, <1>7, NodeFacts DEF Lead
  <1>11. ASSUME NEW m \in Peers PROVE Single(FollowersOf(w, m))
    <2> SUFFICES ASSUME NEW x \in FollowersOf(w, m), NEW y \in FollowersOf(w, m) PROVE x = y
      BY DEF Single
    <2>1. /\ x \in Node /\ v.nodes[x].healthy /\ New(x) = m /\ v.nodes[x].role = "follower"
          /\ y \in Node /\ v.nodes[y].healthy /\ New(y) = m /\ v.nodes[y].role = "follower"
      BY <1>2 DEF FollowersOf
    <2>2. \A z \in {x, y} : z \notin {fa, fb} => z \in FollowersOf(v, m)
      BY <1>5, <2>1 DEF FollowersOf
    <2>3. CASE m = a
      <3>1. \A z \in {x, y} : z = fb
        BY <1>4, <1>6, <1>8, <2>1, <2>2, <2>3, NodeFacts
      <3> QED
        BY <3>1
    <2>4. CASE m = b
      <3>1. \A z \in {x, y} : z = fa
        BY <1>4, <1>6, <1>8, <2>1, <2>2, <2>4, NodeFacts
      <3> QED
        BY <3>1
    <2>5. CASE m \notin {a, b}
      <3>1. \A z \in {x, y} : z \notin {fa, fb}
        BY <1>6, <1>8, <2>1, <2>5, NodeFacts
      <3> QED
        BY <2>2, <3>1 DEF Lead, Single
    <2> QED
      BY <2>3, <2>4, <2>5
  <1>12. w.nodes[Self].role = "leader"
    BY <1>0, <1>2 DEF Lead
  <1>13. Lead(w)
    BY <1>0, <1>1, <1>10, <1>11, <1>12 DEF Lead
  <1>14. ASSUME Served(v), {a, b} \subseteq Mentors(v), NEW p \in Peers, w.nodes[p].healthy
         PROVE  ServedNode(w, p)
    <2>1. p \in Node /\ v.nodes[p].healthy
      BY <1>2, <1>14, NodeFacts
    <2>2. CASE p \in {fa, fb}
      <3>1. v.nodes[p].role = "follower" /\ New(p) \in {a, b}
        BY <1>6, <1>7, <1>8, <2>2, NodeFacts
      <3> QED
        BY <1>2, <1>9, <1>14, <2>1, <3>1 DEF ServedNode
    <2>3. CASE p \notin {fa, fb}
      BY <1>2, <1>5, <1>9, <1>14, <2>1, <2>3 DEF Served, ServedNode
    <2> QED
      BY <2>2, <2>3
  <1> QED
    BY <1>13, <1>14 DEF Served, w

(***************************************************************************)
(* The inductive invariant: the types, what the maintenance thread keeps   *)
(* across its steps, and the topology of a leader.                         *)
(***************************************************************************)

Diagnosing == check.pc = "diagnose" \/ (check.pc = "probe" /\ check.recent)

CheckInv ==
    /\ check.pc \in {"promote", "notify", "probe", "replace"} => check.node \in Peers
    /\ Diagnosing => check.mentor \in Peers

TopologyInv == TypeOK /\ CheckInv /\ (leading => Lead(view))

CheckState ==
    [pc: {"idle", "mentors", "promote", "notify", "followers", "probe", "replace",
          "retire", "diagnose", "refresh", "rebalance"},
     todo: SUBSET Peers, node: Node \cup {Nil}, mentor: Node \cup {Nil},
     recent: BOOLEAN, healthy: SUBSET Peers]

Spent == [passes: 0..MaxPasses, terms: 0..MaxTerms, received: 0..MaxReceived]

LEMMA TypeParts ==
    TypeOK <=> /\ view \in View /\ leading \in BOOLEAN /\ refresh \in BOOLEAN
               /\ check \in CheckState /\ spent \in Spent
  BY DEF TypeOK, View, CheckState, Spent

LEMMA CheckFacts ==
    ASSUME check \in CheckState
    PROVE  /\ check.todo \subseteq Peers /\ check.node \in Node \cup {Nil}
           /\ check.mentor \in Node \cup {Nil} /\ check.recent \in BOOLEAN /\ check.healthy \subseteq Peers
           /\ check.pc \in {"idle", "mentors", "promote", "notify", "followers", "probe", "replace",
                            "retire", "diagnose", "refresh", "rebalance"}
  BY DEF CheckState

LEMMA IdleFacts == Idle \in CheckState /\ Idle.pc = "idle"
  BY DEF Idle, CheckState

\* A step that only changes the view.
LEMMA ViewStep ==
    ASSUME TopologyInv, view' \in View, refresh' \in BOOLEAN, UNCHANGED <<leading, check, spent>>,
           leading => Lead(view')
    PROVE  TopologyInv'
  <1>1. TypeOK'
    BY TypeParts DEF TopologyInv, TypeOK, View
  <1>2. CheckInv'
    BY DEF TopologyInv, CheckInv, Diagnosing
  <1> QED
    BY <1>1, <1>2 DEF TopologyInv

\* A step of the maintenance thread.
LEMMA ThreadStep ==
    ASSUME TopologyInv, view' \in View, refresh' \in BOOLEAN, UNCHANGED leading,
           spent' \in Spent, check' \in CheckState, leading => Lead(view'),
           check'.pc \in {"promote", "notify", "probe", "replace"} => check'.node \in Peers,
           check'.pc = "diagnose" \/ (check'.pc = "probe" /\ check'.recent) => check'.mentor \in Peers
    PROVE  TopologyInv'
  <1>1. TypeOK'
    BY TypeParts DEF TopologyInv, TypeOK, View, CheckState, Spent
  <1>2. CheckInv'
    BY DEF CheckInv, Diagnosing
  <1> QED
    BY <1>1, <1>2 DEF TopologyInv

LEMMA InvBecomeLeader == TopologyInv /\ BecomeLeader => TopologyInv'
  <1> SUFFICES ASSUME TopologyInv, BecomeLeader PROVE TopologyInv'
    OBVIOUS
  <1>1. view \in View /\ spent \in Spent
    BY TypeParts DEF TopologyInv
  <1> DEFINE u == SetLeader(view, Self)
  <1>2. u \in View /\ u.leader = Self
    BY <1>1, SetLeaderIs, NodeFacts
  <1>3. view' = Rebalance(u, Peers)
    BY DEF BecomeLeader
  <1> HIDE DEF u
  <1>4. Lead(view')
    BY <1>2, <1>3, LeadRebalance
  <1>5. spent' \in Spent
    <2>1. spent.terms + 1 \in 0..MaxTerms
      BY <1>1, TopologyAssumption DEF Spent, BecomeLeader
    <2> QED
      BY <1>1, <2>1 DEF Spent, BecomeLeader
  <1>6. view' \in View
    BY <1>4 DEF Lead
  <1>7. TypeOK'
    BY <1>5, <1>6 DEF BecomeLeader, TopologyInv, TypeOK, View, Spent
  <1>8. CheckInv'
    BY DEF BecomeLeader, TopologyInv, CheckInv, Diagnosing
  <1> QED
    BY <1>4, <1>7, <1>8 DEF TopologyInv

(***************************************************************************)
(* FromProto, and the view of a node that has not led.                     *)
(***************************************************************************)

LEMMA NormalizeIs ==
    ASSUME NEW v \in View
    PROVE  LET w == NormalizeMentorSources(v) IN
           /\ w \in View /\ w.leader = v.leader
           /\ \A p \in Node : p = v.leader => w.nodes[p] = Info("leader", Nil, TRUE)
           /\ \A p \in Node : p # v.leader =>
                 /\ w.nodes[p].role = v.nodes[p].role /\ w.nodes[p].healthy = v.nodes[p].healthy
                 /\ v.nodes[p].role # "mentor" => w.nodes[p].source = v.nodes[p].source
  <1> DEFINE led == Info("leader", Nil, TRUE)
             N == [n \in Node |-> IF n = v.leader THEN led
                                  ELSE IF v.nodes[n].role = "mentor"
                                  THEN [v.nodes[n] EXCEPT !.source = v.leader]
                                  ELSE v.nodes[n]]
             w == NormalizeMentorSources(v)
  <1>0. \A p \in Node : p # Nil
    BY NodeFacts
  <1>1. CASE v.leader = Nil
    BY <1>0, <1>1 DEF NormalizeMentorSources
  <1>2. CASE v.leader # Nil
    <2>1. w = [v EXCEPT !.nodes = N]
      BY <1>2 DEF NormalizeMentorSources
    <2>2. led \in NodeInfo /\ v.leader \in Node \cup {Nil} /\ \A p \in Node : v.nodes[p] \in NodeInfo
      BY InfoFacts, ViewFacts
    <2> HIDE DEF led
    <2>3. \A p \in Node : N[p] \in NodeInfo
      BY <2>2, InfoSource
    <2>4. N \in [Node -> NodeInfo]
      <3>1. N = [p \in Node |-> N[p]]
        OBVIOUS
      <3> HIDE DEF N
      <3> QED
        BY <2>3, <3>1
    <2>5. w \in View /\ w.leader = v.leader /\ w.nodes = N
      <3> HIDE DEF w, N
      <3> QED
        BY <2>1, <2>4, ChangeAll
    <2>6. ASSUME NEW p \in Node, p # v.leader
          PROVE  /\ N[p].role = v.nodes[p].role /\ N[p].healthy = v.nodes[p].healthy
                 /\ v.nodes[p].role # "mentor" => N[p].source = v.nodes[p].source
      <3>1. v.nodes[p] \in NodeInfo
        BY <2>2
      <3> QED
        BY <2>6, <3>1 DEF NodeInfo
    <2>7. \A p \in Node : p = v.leader => N[p] = led
      OBVIOUS
    <2> HIDE DEF N, w
    <2> QED
      BY <2>5, <2>6, <2>7 DEF led, w
  <1> QED
    BY <1>1, <1>2

MentorProto(l) == [role: {"mentor"}, source: {l}, follower: (Peers \ {l}) \cup {Nil}]

\* The follower of this node that FromProto finds is released or is the assigned one; the
\* assigned one is bound.
LEMMA MentorProtoIs ==
    ASSUME NEW l \in Peers, NEW v \in View, v.leader = l, NEW proto \in MentorProto(l)
    PROVE  LET w == FromProto(v, proto) IN
           /\ w \in View /\ w.leader = l
           /\ (\A n \in Node : v.nodes[n].healthy) => \A n \in Node : w.nodes[n].healthy
           /\ Single(FollowersOf(v, Self)) => FollowersOf(w, Self) \subseteq {proto.follower}
           /\ proto.follower # Nil => proto.follower \in FollowersOf(w, Self)
  <1> DEFINE f == proto.follower
             me == Info("mentor", l, TRUE)
             led == Info("leader", Nil, TRUE)
             free == Info("follower", Nil, TRUE)
             mine == Info("follower", Self, TRUE)
             own == [v EXCEPT !.nodes[Self] = me]
             sourced == [leader |-> l, nodes |-> [own.nodes EXCEPT ![l] = led]]
             stale == FollowerOf(sourced, Self)
             cleared == IF stale \in {Nil, f} THEN sourced ELSE [sourced EXCEPT !.nodes[stale] = free]
             bound == IF f = Nil THEN cleared ELSE [cleared EXCEPT !.nodes[f] = mine]
             w == FromProto(v, proto)
  <1>0. /\ l \in Node /\ l # Nil /\ l # Self /\ Self \in Node /\ Self # Nil
        /\ f \in (Peers \ {l}) \cup {Nil} /\ f # Self /\ (f # Nil => f \in Node /\ f # l)
        /\ proto.role = "mentor" /\ proto.source = l
    BY NodeFacts DEF MentorProto
  <1>1. w = NormalizeMentorSources(bound)
    <2>1. cleared = ClearStaleFollower(sourced, f)
      BY DEF ClearStaleFollower
    <2> HIDE DEF cleared, sourced, own, f
    <2>2. w = NormalizeMentorSources(IF ~(proto.role = "mentor") \/ f = Nil THEN ClearStaleFollower(sourced, f)
                                     ELSE [ClearStaleFollower(sourced, f) EXCEPT !.nodes[f] = mine])
      BY <1>0 DEF FromProto, sourced, own, f
    <2> QED
      BY <1>0, <2>1, <2>2
  <1>2. me \in NodeInfo /\ led \in NodeInfo /\ free \in NodeInfo /\ mine \in NodeInfo
    BY <1>0 DEF Info, NodeInfo
  <1>3. /\ me.role = "mentor" /\ me.healthy = TRUE /\ led.role = "leader" /\ led.healthy = TRUE
        /\ free.role = "follower" /\ free.source = Nil /\ free.healthy = TRUE
        /\ mine.role = "follower" /\ mine.source = Self /\ mine.healthy = TRUE
    BY DEF Info
  <1> HIDE DEF me, led, free, mine, w, f
  <1>4. /\ own \in View /\ own.nodes[Self] = me
        /\ \A p \in Node : p # Self => own.nodes[p] = v.nodes[p]
    BY <1>0, <1>2, ChangeOne
  <1>5. /\ sourced \in View /\ sourced.leader = l /\ sourced.nodes[l] = led
        /\ \A p \in Node : p # l => sourced.nodes[p] = own.nodes[p]
    <2> HIDE DEF own
    <2> QED
      BY <1>0, <1>2, <1>4 DEF View
  <1> HIDE DEF own, sourced
  <1>6. \A x \in FollowersOf(sourced, Self) : x \in FollowersOf(v, Self)
    BY <1>3, <1>4, <1>5 DEF FollowersOf
  <1>7. (stale = Nil /\ FollowersOf(sourced, Self) = {}) \/ (stale \in Node /\ stale \in FollowersOf(sourced, Self))
    BY FollowerOfFacts
  <1>8. stale \notin {Self, l}
    BY <1>0, <1>3, <1>4, <1>5, <1>7 DEF FollowersOf
  <1> HIDE DEF stale
  <1>9. /\ cleared \in View /\ cleared.leader = l
        /\ \A p \in Node : p # stale => cleared.nodes[p] = sourced.nodes[p]
        /\ stale \in {Nil, f} => cleared = sourced
        /\ stale \notin {Nil, f} => cleared.nodes[stale] = free
    BY <1>2, <1>5, <1>7, ChangeOne
  <1> HIDE DEF cleared
  <1>10. /\ bound \in View /\ bound.leader = l
         /\ \A p \in Node : p # f => bound.nodes[p] = cleared.nodes[p]
         /\ f # Nil => bound.nodes[f] = mine
    BY <1>0, <1>2, <1>9, ChangeOne
  <1> HIDE DEF bound
  <1>11. /\ w \in View /\ w.leader = l
         /\ w.nodes[l] = led
         /\ \A p \in Node : p # l =>
               /\ w.nodes[p].role = bound.nodes[p].role /\ w.nodes[p].healthy = bound.nodes[p].healthy
               /\ bound.nodes[p].role # "mentor" => w.nodes[p].source = bound.nodes[p].source
    BY <1>0, <1>1, <1>10, NormalizeIs DEF led
  <1>12. ASSUME \A n \in Node : v.nodes[n].healthy, NEW n \in Node PROVE w.nodes[n].healthy
    <2>1. sourced.nodes[n].healthy
      BY <1>3, <1>4, <1>5, <1>12
    <2>2. cleared.nodes[n].healthy
      BY <1>3, <1>9, <2>1
    <2>3. bound.nodes[n].healthy
      BY <1>0, <1>3, <1>10, <2>2, NodeFacts
    <2> QED
      BY <1>3, <1>11, <2>3
  <1>13. ASSUME Single(FollowersOf(v, Self)), NEW x \in FollowersOf(w, Self) PROVE x = f
    <2> SUFFICES ASSUME x # f PROVE FALSE
      OBVIOUS
    <2>1. x \in Node /\ w.nodes[x].healthy /\ w.nodes[x].role = "follower" /\ w.nodes[x].source = Self
      BY <1>13 DEF FollowersOf
    <2>2. x # l
      BY <1>3, <1>11, <2>1
    <2>3. bound.nodes[x].healthy /\ bound.nodes[x].role = "follower" /\ bound.nodes[x].source = Self
      BY <1>11, <2>1, <2>2
    <2>4. cleared.nodes[x].healthy /\ cleared.nodes[x].role = "follower" /\ cleared.nodes[x].source = Self
      BY <1>10, <2>1, <2>3
    <2>5. x # stale
      BY <1>0, <1>3, <1>9, <2>1, <2>4, NodeFacts
    <2>6. x \in FollowersOf(sourced, Self)
      BY <1>9, <2>1, <2>4, <2>5 DEF FollowersOf
    <2> QED
      BY <1>6, <1>7, <1>13, <2>5, <2>6 DEF Single
  <1>14. f # Nil => f \in FollowersOf(w, Self)
    BY <1>0, <1>3, <1>10, <1>11 DEF FollowersOf
  <1> QED
    BY <1>11, <1>12, <1>13, <1>14 DEF w, f

FollowerProto == [role: {"follower"}, source: Peers \cup {Nil}, follower: {Nil}]

\* A node that is told to be a follower gains none.
LEMMA FollowerProtoIs ==
    ASSUME NEW l \in Peers, NEW v \in View, v.leader = l, NEW proto \in FollowerProto
    PROVE  LET w == FromProto(v, proto) IN
           /\ w \in View /\ w.leader = l
           /\ (\A n \in Node : v.nodes[n].healthy) =>
                 /\ \A n \in Node : w.nodes[n].healthy
                 /\ FollowersOf(w, Self) \subseteq FollowersOf(v, Self)
  <1> DEFINE s == proto.source
             me == Info("follower", s, TRUE)
             own == [v EXCEPT !.nodes[Self] = me]
             sourced == IF s = Nil THEN own ELSE [own EXCEPT !.nodes[s].healthy = TRUE]
             w == FromProto(v, proto)
  <1>0. /\ l \in Node /\ l # Nil /\ l # Self /\ Self \in Node /\ Self # Nil
        /\ s \in Node \cup {Nil} /\ s # Self
        /\ proto.role = "follower" /\ proto.follower = Nil
    BY NodeFacts DEF FollowerProto
  <1>1. w = NormalizeMentorSources(sourced)
    BY <1>0 DEF FromProto
  <1>2. me \in NodeInfo /\ me.role = "follower" /\ me.source = s /\ me.healthy = TRUE
    BY <1>0 DEF Info, NodeInfo
  <1> HIDE DEF me, w, s
  <1>3. /\ own \in View /\ own.leader = l /\ own.nodes[Self] = me
        /\ \A p \in Node : p # Self => own.nodes[p] = v.nodes[p]
    BY <1>0, <1>2, ChangeOne
  <1> HIDE DEF own
  <1>4. /\ sourced \in View /\ sourced.leader = l
        /\ \A p \in Node : p # s => sourced.nodes[p] = own.nodes[p]
        /\ s # Nil => sourced.nodes[s] = Info(own.nodes[s].role, own.nodes[s].source, TRUE)
    BY <1>0, <1>3, ChangeHealth
  <1> HIDE DEF sourced
  <1>5. s # Nil => /\ sourced.nodes[s].role = v.nodes[s].role /\ sourced.nodes[s].healthy = TRUE
                   /\ sourced.nodes[s].source = v.nodes[s].source
    BY <1>0, <1>3, <1>4 DEF Info
  <1>6. /\ w \in View /\ w.leader = l
        /\ w.nodes[l] = Info("leader", Nil, TRUE)
        /\ \A p \in Node : p # l =>
              /\ w.nodes[p].role = sourced.nodes[p].role /\ w.nodes[p].healthy = sourced.nodes[p].healthy
              /\ sourced.nodes[p].role # "mentor" => w.nodes[p].source = sourced.nodes[p].source
    BY <1>0, <1>1, <1>4, NormalizeIs
  <1>7. w.nodes[l].role = "leader" /\ w.nodes[l].healthy = TRUE
    BY <1>6 DEF Info
  <1>8. ASSUME \A n \in Node : v.nodes[n].healthy, NEW n \in Node PROVE w.nodes[n].healthy
    <2>1. sourced.nodes[n].healthy
      BY <1>0, <1>2, <1>3, <1>4, <1>5, <1>8, NodeFacts
    <2> QED
      BY <1>6, <1>7, <2>1
  <1>9. ASSUME \A n \in Node : v.nodes[n].healthy, NEW x \in FollowersOf(w, Self)
        PROVE  x \in FollowersOf(v, Self)
    <2>1. x \in Node /\ x # l /\ sourced.nodes[x].role = "follower" /\ sourced.nodes[x].source = Self
      BY <1>6, <1>7, <1>9 DEF FollowersOf
    <2>2. x # Self
      BY <1>0, <1>2, <1>3, <1>4, <2>1
    <2>3. v.nodes[x].role = "follower" /\ v.nodes[x].source = Self
      BY <1>3, <1>4, <1>5, <2>1, <2>2, NodeFacts
    <2> QED
      BY <1>9, <2>1, <2>3 DEF FollowersOf
  <1> QED
    BY <1>6, <1>8, <1>9 DEF w

LEMMA ReceiveView ==
    ASSUME view \in View, ReceiveTopology
    PROVE  view' \in View
  <1>1. PICK l \in Peers : \E proto \in Protos(l) : view' = FromProto(SetLeader(view, l), proto)
    BY DEF ReceiveTopology
  <1>2. PICK proto \in Protos(l) : view' = FromProto(SetLeader(view, l), proto)
    BY <1>1
  <1> DEFINE v == SetLeader(view, l)
  <1>3. v \in View /\ v.leader = l
    BY SetLeaderIs, NodeFacts
  <1>4. proto \in MentorProto(l) \/ proto \in FollowerProto
    BY DEF Protos, MentorProto, FollowerProto
  <1> HIDE DEF v
  <1>5. FromProto(v, proto) \in View
    BY <1>3, <1>4, MentorProtoIs, FollowerProtoIs
  <1> QED
    BY <1>2, <1>5 DEF v

LEMMA MarkedInView ==
    ASSUME NEW v \in View, NEW n \in Node
    PROVE  MarkHealthy(v, n) \in View /\ MarkUnhealthy(v, n) \in View /\ PromoteToMentor(v, n) \in View
  <1>1. MarkHealthy(v, n) \in View /\ PromoteToMentor(v, n) \in View
    BY MarkHealthyIs, PromoteIs
  <1>2. CASE n # v.leader
    BY <1>1, <1>2, MarkUnhealthyIs
  <1>3. CASE n = v.leader
    <2> DEFINE info == Info("leader", Nil, FALSE)
    <2>1. info \in NodeInfo /\ MarkUnhealthy(v, n) = [v EXCEPT !.nodes[n] = info]
      BY <1>3, InfoFacts DEF MarkUnhealthy
    <2> HIDE DEF info
    <2> QED
      BY <1>1, <2>1, ChangeOne
  <1> QED
    BY <1>2, <1>3

(***************************************************************************)
(* Every action keeps the invariant.                                       *)
(***************************************************************************)

LEMMA InvFacts ==
    ASSUME TopologyInv
    PROVE  /\ view \in View /\ leading \in BOOLEAN /\ refresh \in BOOLEAN /\ check \in CheckState
           /\ spent \in Spent /\ (leading => Lead(view))
           /\ check.todo \subseteq Peers /\ check.node \in Node \cup {Nil} /\ check.mentor \in Node \cup {Nil}
           /\ check.recent \in BOOLEAN /\ check.healthy \subseteq Peers
           /\ check.pc \in {"promote", "notify", "probe", "replace"} => check.node \in Peers
           /\ Diagnosing => check.mentor \in Peers
  BY TypeParts, CheckFacts DEF TopologyInv, CheckInv

LEMMA InvBecomeFollower == ASSUME TopologyInv, BecomeFollower PROVE TopologyInv'
  <1>1. PICK l \in Peers \cup {Nil} : view' = SetLeader(view, l)
    BY DEF BecomeFollower
  <1>2. view' \in View
    BY <1>1, InvFacts, SetLeaderIs, NodeFacts
  <1>3. TypeOK'
    BY <1>2 DEF BecomeFollower, TopologyInv, TypeOK, View
  <1>4. CheckInv'
    BY DEF BecomeFollower, TopologyInv, CheckInv, Diagnosing
  <1> QED
    BY <1>3, <1>4 DEF TopologyInv, BecomeFollower

LEMMA InvReceive == ASSUME TopologyInv, ReceiveTopology PROVE TopologyInv'
  <1>1. view' \in View
    BY InvFacts, ReceiveView
  <1>2. spent' \in Spent
    <2>1. spent \in Spent
      BY InvFacts
    <2>2. spent.received + 1 \in 0..MaxReceived
      BY <2>1, TopologyAssumption DEF Spent, ReceiveTopology
    <2> QED
      BY <2>1, <2>2 DEF Spent, ReceiveTopology
  <1>3. TypeOK'
    BY <1>1, <1>2 DEF ReceiveTopology, TopologyInv, TypeOK, View, Spent
  <1>4. CheckInv'
    BY DEF ReceiveTopology, TopologyInv, CheckInv, Diagnosing
  <1> QED
    BY <1>3, <1>4 DEF TopologyInv, ReceiveTopology

LEMMA InvAck == ASSUME TopologyInv, NEW n \in Peers, Ack(n) PROVE TopologyInv'
  <1>1. view' \in View
    BY InvFacts, MarkedInView, NodeFacts DEF Ack
  <1>2. leading => Lead(view')
    BY InvFacts, LeadHealthy DEF Ack
  <1>3. refresh' \in BOOLEAN /\ UNCHANGED <<leading, check, spent>>
    BY InvFacts DEF Ack
  <1> QED
    BY <1>1, <1>2, <1>3, ViewStep

LEMMA InvStartPass == ASSUME TopologyInv, StartPass PROVE TopologyInv'
  <1>1. spent' \in Spent
    <2>1. spent \in Spent
      BY InvFacts
    <2>2. spent.passes + 1 \in 0..MaxPasses
      BY <2>1, TopologyAssumption DEF Spent, StartPass
    <2> QED
      BY <2>1, <2>2 DEF Spent, StartPass
  <1>2. Mentors(view) \subseteq Peers
    BY InvFacts, LeadFacts DEF StartPass
  <1>3. check' \in CheckState /\ check'.pc = "mentors"
    <2> DEFINE todo == Mentors(view)
    <2>1. check' = [Idle EXCEPT !.pc = "mentors", !.todo = todo] /\ todo \in SUBSET Peers
      BY <1>2 DEF StartPass
    <2> HIDE DEF todo
    <2> QED
      BY <2>1, InvFacts DEF Idle, CheckState
  <1>4. view' = view /\ UNCHANGED <<leading, refresh>>
    BY DEF StartPass
  <1> QED
    BY <1>1, <1>3, <1>4, InvFacts, ThreadStep

LEMMA InvMentorTimeout == ASSUME TopologyInv, NEW m \in Peers, MentorTimeout(m) PROVE TopologyInv'
  <1> DEFINE follower == FollowerOf(view, m)
             todo == {n \in check.todo : n > m}
             pc == IF follower = Nil THEN "mentors" ELSE "promote"
  <1>1. leading /\ view' = MarkUnhealthy(view, m) /\ UNCHANGED <<leading, refresh, spent>>
    BY DEF MentorTimeout
  <1>2. Lead(view')
    BY <1>1, InvFacts, LeadUnhealthy, NodeFacts
  <1>3. follower = Nil \/ follower \in Peers
    BY <1>1, InvFacts, FollowerOfFacts, LeadFacts
  <1>4. check' = [check EXCEPT !.todo = todo, !.node = follower, !.pc = pc]
    BY DEF MentorTimeout
  <1>5. todo \in SUBSET Peers /\ follower \in Node \cup {Nil} /\ pc \in {"mentors", "promote"}
        /\ (pc = "promote" => follower \in Peers)
    BY <1>3, InvFacts, NodeFacts
  <1> HIDE DEF todo, follower, pc
  <1>6. check' \in CheckState /\ check'.pc = pc /\ check'.node = follower
    BY <1>4, <1>5, InvFacts DEF CheckState
  <1>7. view' \in View
    BY <1>2 DEF Lead
  <1> QED
    BY <1>1, <1>2, <1>5, <1>6, <1>7, InvFacts, ThreadStep

LEMMA InvPromoteOrphan == ASSUME TopologyInv, PromoteOrphan PROVE TopologyInv'
  <1>1. check.node \in Peers
    BY InvFacts DEF PromoteOrphan
  <1>2. view' = PromoteToMentor(view, check.node) /\ refresh' = TRUE /\ UNCHANGED <<leading, spent>>
    BY DEF PromoteOrphan
  <1>3. view' \in View /\ (leading => Lead(view'))
    BY <1>1, <1>2, InvFacts, MarkedInView, LeadPromote, NodeFacts
  <1>4. check' \in CheckState /\ check'.pc = "notify" /\ check'.node = check.node
    BY InvFacts DEF PromoteOrphan, CheckState
  <1> QED
    BY <1>1, <1>2, <1>3, <1>4, InvFacts, ThreadStep

LEMMA InvOrphanAnswers == ASSUME TopologyInv, OrphanAnswers PROVE TopologyInv'
  <1>1. check.node \in Peers
    BY InvFacts DEF OrphanAnswers
  <1>2. view' \in {MarkHealthy(view, check.node), MarkUnhealthy(view, check.node)}
        /\ UNCHANGED <<leading, refresh, spent>>
    BY DEF OrphanAnswers
  <1>3. view' \in View /\ (leading => Lead(view'))
    <2>1. CASE view' = MarkHealthy(view, check.node)
      BY <1>1, <2>1, InvFacts, MarkedInView, LeadHealthy, NodeFacts
    <2>2. CASE view' = MarkUnhealthy(view, check.node)
      BY <1>1, <2>2, InvFacts, MarkedInView, LeadUnhealthy, NodeFacts
    <2> QED
      BY <1>2, <2>1, <2>2
  <1>4. check' \in CheckState /\ check'.pc = "mentors"
    BY InvFacts DEF OrphanAnswers, CheckState
  <1> QED
    BY <1>2, <1>3, <1>4, InvFacts, ThreadStep

\* The steps that read the view and set the next control point.
LEMMA InvReadingStep ==
    ASSUME TopologyInv, MentorsDone \/ FollowersDone \/ RebalanceRead \/ NoRefresh \/ ServeDirectly
    PROVE  TopologyInv'
  <1>1. UNCHANGED <<view, leading, refresh, spent>>
    BY DEF MentorsDone, FollowersDone, RebalanceRead, NoRefresh, ServeDirectly
  <1>2. check' \in CheckState /\ check'.pc \in {"followers", "refresh", "rebalance", "idle"}
    <2>0. check \in CheckState
      BY InvFacts
    <2>1. CASE MentorsDone
      <3> DEFINE todo == {n \in Peers : view.nodes[n].role = "follower" /\ view.nodes[n].healthy}
      <3>1. todo \in SUBSET Peers
        OBVIOUS
      <3>2. check' = IF leading THEN [check EXCEPT !.pc = "followers", !.todo = todo]
                     ELSE [check EXCEPT !.pc = "refresh", !.todo = {}]
        BY <2>1 DEF MentorsDone
      <3> HIDE DEF todo
      <3> QED
        BY <2>0, <3>1, <3>2 DEF CheckState
    <2>2. CASE FollowersDone
      BY <2>0, <2>2 DEF FollowersDone, CheckState
    <2>3. CASE RebalanceRead
      <3> DEFINE healthy == {n \in Peers : view.nodes[n].healthy}
      <3>1. healthy \in SUBSET Peers
        OBVIOUS
      <3>2. check' = [check EXCEPT !.pc = "rebalance", !.healthy = healthy]
        BY <2>3 DEF RebalanceRead
      <3> HIDE DEF healthy
      <3> QED
        BY <2>0, <3>1, <3>2 DEF CheckState
    <2>4. CASE NoRefresh
      BY <2>4, IdleFacts DEF NoRefresh
    <2>5. CASE ServeDirectly
      BY <2>0, <2>5 DEF ServeDirectly, NextFollower, CheckState
    <2> QED
      BY <2>1, <2>2, <2>3, <2>4, <2>5
  <1> QED
    BY <1>1, <1>2, InvFacts, ThreadStep

LEMMA InvFollowerTimeout == ASSUME TopologyInv, NEW n \in Peers, FollowerTimeout(n) PROVE TopologyInv'
  <1> DEFINE source == MentorOf(view, n)
             mentor == IF source # Nil /\ view.nodes[source].healthy THEN source ELSE Nil
             todo == {k \in check.todo : k > n}
  <1>1. UNCHANGED <<view, leading, refresh, spent>>
    BY DEF FollowerTimeout
  <1>2. PICK recent \in IF mentor \in {Nil, Self} THEN {FALSE} ELSE BOOLEAN :
           check' = [check EXCEPT !.todo = todo, !.pc = "probe", !.node = n, !.mentor = mentor, !.recent = recent]
    BY DEF FollowerTimeout
  <1>3. mentor \in Node \cup {Nil}
    BY InvFacts, ViewFacts, NodeFacts DEF MentorOf
  <1>4. todo \in SUBSET Peers /\ n \in Node
    BY InvFacts, NodeFacts
  <1> HIDE DEF todo, mentor
  <1>5. recent \in BOOLEAN /\ (recent => mentor \in Peers)
    BY <1>2, <1>3 DEF Peers
  <1>6. /\ check' \in CheckState /\ check'.pc = "probe" /\ check'.node = n /\ check'.mentor = mentor
        /\ check'.recent = recent
    BY <1>2, <1>3, <1>4, <1>5, InvFacts DEF CheckState
  <1> QED
    BY <1>1, <1>5, <1>6, InvFacts, ThreadStep

LEMMA InvFollowerAnswers == ASSUME TopologyInv, FollowerAnswers PROVE TopologyInv'
  <1>1. check.node \in Peers
    BY InvFacts DEF FollowerAnswers
  <1>2. view' = MarkHealthy(view, check.node) /\ UNCHANGED <<leading, refresh, spent>>
    BY DEF FollowerAnswers
  <1>3. view' \in View /\ (leading => Lead(view'))
    BY <1>1, <1>2, InvFacts, MarkedInView, LeadHealthy, NodeFacts
  <1>4. /\ check' \in CheckState /\ check'.node = check.node /\ check'.mentor = check.mentor
        /\ check'.pc = IF check.recent THEN "diagnose" ELSE "replace"
    BY InvFacts DEF FollowerAnswers, CheckState
  <1>5. check.recent => check.mentor \in Peers
    BY InvFacts DEF FollowerAnswers, Diagnosing
  <1> QED
    BY <1>1, <1>2, <1>3, <1>4, <1>5, InvFacts, ThreadStep

LEMMA InvFollowerSilent == ASSUME TopologyInv, FollowerSilent PROVE TopologyInv'
  <1>1. check.node \in Peers /\ UNCHANGED <<leading, spent>>
    BY InvFacts DEF FollowerSilent
  <1>2. \/ view' = MarkUnhealthy(view, check.node) /\ refresh' = TRUE
        \/ view' = view /\ refresh' = refresh
    BY DEF FollowerSilent
  <1>3. view' \in View /\ (leading => Lead(view'))
    <2>1. CASE view' = MarkUnhealthy(view, check.node)
      BY <1>1, <2>1, InvFacts, MarkedInView, LeadUnhealthy, NodeFacts
    <2> QED
      BY <1>2, <2>1, InvFacts
  <1>4. check' \in CheckState /\ check'.pc = "followers"
    BY InvFacts DEF FollowerSilent, NextFollower, CheckState
  <1> QED
    BY <1>1, <1>2, <1>3, <1>4, InvFacts, ThreadStep

LEMMA InvReplaceMentor == ASSUME TopologyInv, ReplaceMentor PROVE TopologyInv'
  <1>1. check.node \in Peers
    BY InvFacts DEF ReplaceMentor
  <1>2. view' = PromoteToMentor(view, check.node) /\ UNCHANGED <<leading, refresh, spent>>
    BY DEF ReplaceMentor
  <1>3. view' \in View /\ (leading => Lead(view'))
    BY <1>1, <1>2, InvFacts, MarkedInView, LeadPromote, NodeFacts
  <1>4. check' \in CheckState /\ check'.pc = "retire"
    BY InvFacts DEF ReplaceMentor, CheckState
  <1> QED
    BY <1>2, <1>3, <1>4, InvFacts, ThreadStep

LEMMA InvRetireMentor == ASSUME TopologyInv, RetireMentor PROVE TopologyInv'
  <1>1. refresh' = TRUE /\ UNCHANGED <<leading, spent>>
    BY DEF RetireMentor
  <1>2. view' = view \/ (check.mentor \in Node /\ view' = MarkUnhealthy(view, check.mentor))
    BY InvFacts DEF RetireMentor
  <1>3. view' \in View /\ (leading => Lead(view'))
    BY <1>2, InvFacts, MarkedInView, LeadUnhealthy
  <1>4. check' \in CheckState /\ check'.pc = "followers"
    BY InvFacts DEF RetireMentor, NextFollower, CheckState
  <1> QED
    BY <1>1, <1>3, <1>4, InvFacts, ThreadStep

LEMMA InvExchange == ASSUME TopologyInv, ExchangeFollowers PROVE TopologyInv'
  <1> DEFINE others == Mentors(view) \ {check.mentor}
             b == Least(others)
  <1>1. refresh' = TRUE /\ UNCHANGED <<leading, spent>>
    BY DEF ExchangeFollowers
  <1>2. check.mentor \in Peers /\ check.mentor \in Node
    BY InvFacts, NodeFacts DEF ExchangeFollowers, Diagnosing
  <1>3. others # {} => b \in others
    <2>1. others \subseteq Nat
      BY NodeFacts DEF Mentors
    <2> HIDE DEF others
    <2> QED
      BY <2>1, LeastFacts
  <1>4. view' = IF others = {} THEN view ELSE SwapFollowers(view, check.mentor, b)
    BY DEF ExchangeFollowers
  <1>5. b \in others => b \in Node /\ b # check.mentor /\ (leading => b \in Peers)
    BY InvFacts, LeadFacts DEF Mentors
  <1> HIDE DEF b, others
  <1>6. view' \in View /\ (leading => Lead(view'))
    <2>1. CASE others = {}
      BY <1>4, <2>1, InvFacts
    <2>2. CASE others # {}
      BY <1>2, <1>3, <1>4, <1>5, <2>2, InvFacts, SwapIs, LeadSwap
    <2> QED
      BY <2>1, <2>2
  <1>7. check' \in CheckState /\ check'.pc = "followers"
    BY InvFacts DEF ExchangeFollowers, NextFollower, CheckState
  <1> QED
    BY <1>1, <1>6, <1>7, InvFacts, ThreadStep

LEMMA InvRebalanceApply == ASSUME TopologyInv, RebalanceApply PROVE TopologyInv'
  <1>1. refresh' = FALSE /\ UNCHANGED <<leading, spent>> /\ view' = Rebalance(view, check.healthy)
    BY DEF RebalanceApply
  <1>2. view' \in View /\ (leading => Lead(view'))
    <2>1. view' \in View
      BY <1>1, InvFacts, RebalanceIs
    <2>2. leading => view.leader = Self
      BY InvFacts DEF Lead
    <2> QED
      BY <1>1, <2>1, <2>2, InvFacts, LeadRebalance
  <1>3. check' \in CheckState /\ check'.pc = "idle"
    BY IdleFacts DEF RebalanceApply
  <1> QED
    BY <1>1, <1>2, <1>3, InvFacts, ThreadStep

LEMMA InvInit == Init => TopologyInv
  <1> SUFFICES ASSUME Init PROVE TopologyInv
    OBVIOUS
  <1>1. view \in View
    BY InfoFacts DEF Init, View
  <1>2. check \in CheckState /\ check.pc = "idle"
    BY IdleFacts DEF Init
  <1>3. spent \in Spent
    BY TopologyAssumption DEF Init, Spent
  <1> QED
    BY <1>1, <1>2, <1>3, TypeParts DEF Init, TopologyInv, CheckInv, Diagnosing

LEMMA InvNext == TopologyInv /\ [Next]_vars => TopologyInv'
  <1> SUFFICES ASSUME TopologyInv, [Next]_vars PROVE TopologyInv'
    OBVIOUS
  <1>1. CASE UNCHANGED vars
    BY <1>1, InvFacts, ViewStep DEF vars
  <1>2. CASE Maintenance
    BY <1>2, InvStartPass, InvPromoteOrphan, InvOrphanAnswers, InvReadingStep, InvFollowerAnswers,
       InvFollowerSilent, InvReplaceMentor, InvRetireMentor, InvExchange, InvRebalanceApply,
       InvMentorTimeout, InvFollowerTimeout DEF Maintenance
  <1> QED
    BY <1>1, <1>2, InvBecomeLeader, InvBecomeFollower, InvReceive, InvAck DEF Next

\* Every view is well formed, and a leader's names the leader, binds no lost node and gives
\* nobody two followers, at every step of every operation of TopologyManager.
THEOREM TopologyInvariant == Spec => []TopologyInv
  BY InvInit, InvNext, PTL DEF Spec

\* A mentor has at most one follower in the topology of a leader, for any cluster and any
\* interleaving of acknowledgements, timeouts, promotions, exchanges and refreshes, over
\* any number of terms.
THEOREM AtMostOneFollower == Spec => []OneFollowerPerMentor
  <1>1. TopologyInv => OneFollowerPerMentor
    <2> SUFFICES ASSUME TopologyInv, leading, NEW m \in Mentors(view)
                 PROVE  Cardinality(FollowersOf(view, m)) <= 1
      BY DEF OneFollowerPerMentor
    <2>1. Lead(view) /\ m \in Peers
      BY InvFacts, LeadFacts
    <2>2. FollowersOf(view, m) = {} \/ \E x : FollowersOf(view, m) = {x}
      BY <2>1 DEF Lead, Single
    <2>3. CASE FollowersOf(view, m) = {}
      BY <2>3, FS_EmptySet
    <2>4. ASSUME NEW x, FollowersOf(view, m) = {x} PROVE Cardinality(FollowersOf(view, m)) <= 1
      <3>1. Cardinality({x}) = 1
        BY FS_Singleton
      <3> QED
        BY <2>4, <3>1
    <2> QED
      BY <2>2, <2>3, <2>4
  <1> QED
    BY <1>1, TopologyInvariant, PTL

(***************************************************************************)
(* The first term of a leader: everybody is served.  The mentor that a     *)
(* follower's timeout has put on record is still one when the followers    *)
(* are exchanged, because only the thread that recorded it retires         *)
(* mentors; a pass that began in an earlier term breaks that.              *)
(***************************************************************************)

NotYetLed == spent.terms = 0 => ~leading /\ check.pc = "idle"

ServedInv ==
    leading /\ spent.terms <= 1 => Served(view) /\ (Diagnosing => check.mentor \in Mentors(view))

LEMMA NotYetLedStep ==
    ASSUME TopologyInv, NotYetLed, [Next]_vars
    PROVE  /\ NotYetLed'
           /\ spent.terms = 0 => \/ BecomeLeader /\ spent'.terms = 1
                                 \/ ReceiveTopology /\ spent'.terms = 0
                                 \/ (\E n \in Peers : Ack(n)) /\ spent' = spent
                                 \/ UNCHANGED vars
           /\ spent'.terms = spent.terms \/ BecomeLeader
  <1>0. spent \in Spent /\ spent.terms \in Nat
    BY InvFacts DEF Spent
  <1>1. CASE UNCHANGED vars
    BY <1>1 DEF vars, NotYetLed
  <1>2. CASE BecomeLeader
    <2>1. spent'.terms = spent.terms + 1
      BY <1>0, <1>2 DEF BecomeLeader, Spent
    <2> QED
      BY <1>0, <1>2, <2>1 DEF NotYetLed
  <1>3. CASE ReceiveTopology
    <2>1. spent'.terms = spent.terms /\ UNCHANGED <<leading, check>>
      BY <1>0, <1>3 DEF ReceiveTopology, Spent
    <2> QED
      BY <1>3, <2>1 DEF NotYetLed
  <1>4. CASE \E n \in Peers : Ack(n)
    <2>1. UNCHANGED <<leading, check, spent>>
      BY <1>4 DEF Ack
    <2> QED
      BY <1>4, <2>1 DEF NotYetLed
  <1>5. CASE BecomeFollower
    BY <1>5 DEF BecomeFollower, NotYetLed
  <1>6. CASE Maintenance
    <2>1. leading \/ check.pc # "idle"
      BY <1>6 DEF Maintenance, StartPass, PromoteOrphan, OrphanAnswers, MentorsDone, FollowerAnswers,
         FollowerSilent, ReplaceMentor, RetireMentor, ServeDirectly, ExchangeFollowers,
         FollowersDone, RebalanceRead, RebalanceApply, NoRefresh, MentorTimeout, FollowerTimeout
    <2>2. CASE StartPass
      BY <1>0, <2>2 DEF StartPass, Spent, NotYetLed
    <2>3. CASE ~StartPass
      <3>1. spent' = spent
        BY <1>6, <2>3 DEF Maintenance, PromoteOrphan, OrphanAnswers, MentorsDone, FollowerAnswers,
           FollowerSilent, ReplaceMentor, RetireMentor, ServeDirectly, ExchangeFollowers,
           FollowersDone, RebalanceRead, RebalanceApply, NoRefresh, MentorTimeout, FollowerTimeout
      <3> QED
        BY <2>1, <3>1 DEF NotYetLed
    <2> QED
      BY <2>2, <2>3
  <1> QED
    BY <1>1, <1>2, <1>3, <1>4, <1>5, <1>6 DEF Next

LEMMA ServedFacts ==
    ASSUME TopologyInv, ServedInv, leading, spent.terms <= 1
    PROVE  /\ Lead(view) /\ Served(view)
           /\ Diagnosing => check.mentor \in Mentors(view)
  BY DEF TopologyInv, ServedInv

LEMMA ServedMaintenance ==
    ASSUME TopologyInv, ServedInv, leading, spent.terms <= 1, Maintenance
    PROVE  Served(view') /\ (Diagnosing' => check'.mentor \in Mentors(view'))
  <1>0. /\ Lead(view) /\ Served(view) /\ (Diagnosing => check.mentor \in Mentors(view))
        /\ check \in CheckState
    BY ServedFacts, InvFacts
  <1>1. CASE StartPass \/ MentorsDone \/ FollowersDone \/ RebalanceRead \/ NoRefresh \/ ServeDirectly
    <2>1. view' = view
      BY <1>1 DEF StartPass, MentorsDone, FollowersDone, RebalanceRead, NoRefresh, ServeDirectly
    <2>2. ~Diagnosing'
      <3>1. CASE StartPass
        BY <3>1 DEF StartPass, Diagnosing, Idle
      <3>2. CASE NoRefresh
        BY <3>2 DEF NoRefresh, Diagnosing, Idle
      <3>3. CASE MentorsDone
        BY <1>0, <3>3 DEF MentorsDone, Diagnosing, CheckState
      <3>4. CASE FollowersDone
        BY <1>0, <3>4 DEF FollowersDone, Diagnosing, CheckState
      <3>5. CASE RebalanceRead
        BY <1>0, <3>5 DEF RebalanceRead, Diagnosing, CheckState
      <3>6. CASE ServeDirectly
        BY <1>0, <3>6 DEF ServeDirectly, NextFollower, Diagnosing, CheckState
      <3> QED
        BY <1>1, <3>1, <3>2, <3>3, <3>4, <3>5, <3>6
    <2> QED
      BY <1>0, <2>1, <2>2
  <1>2. ASSUME NEW m \in Peers, MentorTimeout(m)
        PROVE  Served(view') /\ (Diagnosing' => check'.mentor \in Mentors(view'))
    <2>1. view' = MarkUnhealthy(view, m) /\ check'.pc \in {"mentors", "promote"}
      BY <1>0, <1>2 DEF MentorTimeout, CheckState
    <2> QED
      BY <1>0, <2>1, LeadUnhealthy, NodeFacts DEF Diagnosing
  <1>3. CASE PromoteOrphan
    <2>1. view' = PromoteToMentor(view, check.node) /\ check'.pc = "notify" /\ check.node \in Peers
      BY <1>0, <1>3, InvFacts DEF PromoteOrphan, CheckState
    <2> QED
      BY <1>0, <2>1, LeadPromote DEF Diagnosing
  <1>4. CASE OrphanAnswers
    <2>1. check'.pc = "mentors" /\ check.node \in Peers /\ check.node \in Node
      BY <1>0, <1>4, InvFacts, NodeFacts DEF OrphanAnswers, CheckState
    <2>2. CASE view' = MarkHealthy(view, check.node)
      BY <1>0, <2>1, <2>2, LeadHealthy DEF Diagnosing
    <2>3. CASE view' = MarkUnhealthy(view, check.node)
      BY <1>0, <2>1, <2>3, LeadUnhealthy DEF Diagnosing
    <2> QED
      BY <1>4, <2>2, <2>3 DEF OrphanAnswers
  <1>5. ASSUME NEW n \in Peers, FollowerTimeout(n)
        PROVE  Served(view') /\ (Diagnosing' => check'.mentor \in Mentors(view'))
    <2> DEFINE source == MentorOf(view, n)
               mentor == IF source # Nil /\ view.nodes[source].healthy THEN source ELSE Nil
               todo == {k \in check.todo : k > n}
    <2>1. PICK recent \in IF mentor \in {Nil, Self} THEN {FALSE} ELSE BOOLEAN :
             check' = [check EXCEPT !.todo = todo, !.pc = "probe", !.node = n, !.mentor = mentor, !.recent = recent]
      BY <1>5 DEF FollowerTimeout
    <2>2. mentor \notin {Nil, Self} => mentor \in Mentors(view)
      <3> SUFFICES ASSUME mentor \notin {Nil, Self} PROVE mentor \in Mentors(view)
        OBVIOUS
      <3>1. view.nodes[n].role = "follower" /\ mentor = view.nodes[n].source
        BY DEF MentorOf
      <3>2. view.nodes[n].healthy
        BY <1>0, <3>1 DEF Lead
      <3> HIDE DEF mentor
      <3> QED
        BY <1>0, <3>1, <3>2 DEF Served, ServedNode
    <2> HIDE DEF mentor, todo
    <2>3. check'.mentor = mentor /\ check'.recent = recent /\ check'.pc = "probe"
      BY <1>0, <2>1 DEF CheckState
    <2>4. view' = view
      BY <1>5 DEF FollowerTimeout
    <2> QED
      BY <1>0, <2>1, <2>2, <2>3, <2>4 DEF Diagnosing
  <1>6. CASE FollowerAnswers
    <2>1. /\ view' = MarkHealthy(view, check.node) /\ check.node \in Peers
          /\ check'.mentor = check.mentor /\ check'.pc = IF check.recent THEN "diagnose" ELSE "replace"
      BY <1>0, <1>6, InvFacts DEF FollowerAnswers, CheckState
    <2>2. check.recent => check.mentor \in Mentors(view)
      BY <1>0, <1>6 DEF FollowerAnswers, Diagnosing
    <2>3. Served(view') /\ Mentors(view) \subseteq Mentors(view')
      BY <1>0, <2>1, LeadHealthy
    <2> QED
      BY <2>1, <2>2, <2>3 DEF Diagnosing
  <1>7. CASE FollowerSilent
    <2>1. check'.pc = "followers" /\ check.node \in Node
      BY <1>0, <1>7, InvFacts, NodeFacts DEF FollowerSilent, NextFollower, CheckState
    <2>2. CASE view' = MarkUnhealthy(view, check.node)
      BY <1>0, <2>1, <2>2, LeadUnhealthy DEF Diagnosing
    <2>3. CASE view' = view
      BY <1>0, <2>1, <2>3 DEF Diagnosing
    <2> QED
      BY <1>7, <2>2, <2>3 DEF FollowerSilent
  <1>8. CASE ReplaceMentor
    <2>1. view' = PromoteToMentor(view, check.node) /\ check'.pc = "retire" /\ check.node \in Peers
      BY <1>0, <1>8, InvFacts DEF ReplaceMentor, CheckState
    <2> QED
      BY <1>0, <2>1, LeadPromote DEF Diagnosing
  <1>9. CASE RetireMentor
    <2>1. check'.pc = "followers"
      BY <1>0, <1>9 DEF RetireMentor, NextFollower, CheckState
    <2>2. view' = view \/ (check.mentor \in Node /\ view' = MarkUnhealthy(view, check.mentor))
      BY <1>9, InvFacts DEF RetireMentor
    <2>3. Served(view')
      BY <1>0, <2>2, LeadUnhealthy
    <2> QED
      BY <2>1, <2>3 DEF Diagnosing
  <1>10. CASE ExchangeFollowers
    <2> DEFINE others == Mentors(view) \ {check.mentor}
               b == Least(others)
    <2>1. check'.pc = "followers"
      BY <1>0, <1>10 DEF ExchangeFollowers, NextFollower, CheckState
    <2>2. check.mentor \in Mentors(view) /\ check.mentor \in Peers
      BY <1>0, <1>10, LeadFacts DEF ExchangeFollowers, Diagnosing
    <2>3. others # {} => b \in others
      <3>1. others \subseteq Nat
        BY NodeFacts DEF Mentors
      <3> HIDE DEF others
      <3> QED
        BY <3>1, LeastFacts
    <2>4. view' = IF others = {} THEN view ELSE SwapFollowers(view, check.mentor, b)
      BY <1>10 DEF ExchangeFollowers
    <2>5. b \in others => b \in Mentors(view) /\ b \in Peers /\ b # check.mentor
      BY <1>0, LeadFacts
    <2> HIDE DEF b, others
    <2>6. CASE others = {}
      BY <1>0, <2>1, <2>4, <2>6 DEF Diagnosing
    <2>7. CASE others # {}
      <3>1. Served(SwapFollowers(view, check.mentor, b))
        BY <1>0, <2>2, <2>3, <2>5, <2>7, LeadSwap
      <3> QED
        BY <2>1, <2>4, <2>7, <3>1 DEF Diagnosing
    <2> QED
      BY <2>6, <2>7
  <1>11. CASE RebalanceApply
    <2>1. view' = Rebalance(view, check.healthy) /\ check'.pc = "idle"
      BY <1>11, IdleFacts DEF RebalanceApply
    <2>2. view \in View /\ view.leader = Self /\ check.healthy \subseteq Peers
      BY <1>0, InvFacts DEF Lead
    <2> QED
      BY <2>1, <2>2, LeadRebalance DEF Diagnosing
  <1> QED
    BY <1>1, <1>2, <1>3, <1>4, <1>5, <1>6, <1>7, <1>8, <1>9, <1>10, <1>11 DEF Maintenance

LEMMA ServedNext ==
    ASSUME TopologyInv, NotYetLed, ServedInv, [Next]_vars
    PROVE  ServedInv'
  <1>0. spent.terms \in Nat
    BY InvFacts DEF Spent
  <1>1. CASE UNCHANGED vars
    BY <1>1 DEF vars, ServedInv, Diagnosing
  <1>2. CASE BecomeLeader
    <2>1. spent'.terms = spent.terms + 1
      BY InvFacts, <1>2 DEF BecomeLeader, Spent
    <2>2. SUFFICES ASSUME spent'.terms <= 1 PROVE ServedInv'
      BY DEF ServedInv
    <2>3. spent.terms = 0
      BY <1>0, <2>1, <2>2
    <2>4. ~Diagnosing'
      BY <1>2, <2>3 DEF NotYetLed, BecomeLeader, Diagnosing
    <2> DEFINE u == SetLeader(view, Self)
    <2>5. u \in View /\ u.leader = Self
      BY InvFacts, SetLeaderIs, NodeFacts
    <2>6. view' = Rebalance(u, Peers)
      BY <1>2 DEF BecomeLeader
    <2> HIDE DEF u
    <2>7. Served(view')
      BY <2>5, <2>6, LeadRebalance
    <2> QED
      BY <2>4, <2>7 DEF ServedInv
  <1>3. CASE ReceiveTopology
    BY <1>3 DEF ReceiveTopology, ServedInv
  <1>4. ASSUME NEW n \in Peers, Ack(n) PROVE ServedInv'
    <2>1. view' = MarkHealthy(view, n) /\ UNCHANGED <<leading, check, spent>>
      BY <1>4 DEF Ack
    <2>2. leading /\ spent.terms <= 1 => Served(view') /\ Mentors(view) \subseteq Mentors(view')
      BY <2>1, ServedFacts, LeadHealthy
    <2> QED
      BY <2>1, <2>2 DEF ServedInv, Diagnosing
  <1>5. CASE BecomeFollower
    BY <1>5 DEF BecomeFollower, ServedInv
  <1>6. CASE Maintenance
    <2>1. UNCHANGED leading
      BY <1>6 DEF Maintenance, StartPass, PromoteOrphan, OrphanAnswers, MentorsDone, FollowerAnswers,
         FollowerSilent, ReplaceMentor, RetireMentor, ServeDirectly, ExchangeFollowers,
         FollowersDone, RebalanceRead, RebalanceApply, NoRefresh, MentorTimeout, FollowerTimeout
    <2>2. spent'.terms = spent.terms \/ ~leading
      BY NotYetLedStep DEF BecomeLeader
    <2>3. leading /\ spent.terms <= 1 => Served(view') /\ (Diagnosing' => check'.mentor \in Mentors(view'))
      BY <1>6, ServedMaintenance
    <2> QED
      BY <2>1, <2>2, <2>3 DEF ServedInv
  <1> QED
    BY <1>1, <1>2, <1>3, <1>4, <1>5, <1>6 DEF Next

\* As long as a node leads for the first time, every healthy node of its topology is reached:
\* a mentor by the leader, a follower by the leader or by a healthy mentor, whatever passes
\* of the maintenance thread, acknowledgements and refreshes run into each other.
THEOREM AllServed == Spec => [](spent.terms <= 1 => EveryoneServed)
  <1> DEFINE I == TopologyInv /\ NotYetLed /\ ServedInv
  <1>1. Init => I
    BY InvInit, IdleFacts DEF Init, NotYetLed, ServedInv
  <1>2. I /\ [Next]_vars => I'
    BY InvNext, NotYetLedStep, ServedNext
  <1>3. I => (spent.terms <= 1 => EveryoneServed)
    BY DEF ServedInv, Served, ServedNode, EveryoneServed
  <1> HIDE DEF I
  <1> QED
    BY <1>1, <1>2, <1>3, PTL DEF Spec

(***************************************************************************)
(* A node that has not led.                                                *)
(***************************************************************************)

Fresh(v) ==
    /\ v \in View /\ v.leader # Self
    /\ \A n \in Node : v.nodes[n].healthy
    /\ Single(FollowersOf(v, Self))

FreshInv == spent.terms = 0 => Fresh(view)

LEMMA FreshSetLeader ==
    ASSUME NEW v, Fresh(v), NEW l \in Peers
    PROVE  LET w == SetLeader(v, l) IN Fresh(w) /\ w.leader = l
  <1> DEFINE w == SetLeader(v, l)
  <1>1. v \in View /\ l \in Node /\ l # Self
    BY NodeFacts DEF Fresh
  <1>2. /\ w \in View /\ w.leader = l
        /\ \A p \in Node : w.nodes[p] = IF p = l THEN Info("leader", Nil, TRUE) ELSE v.nodes[p]
    BY <1>1, SetLeaderIs
  <1> HIDE DEF w
  <1>3. w.nodes[l].role = "leader" /\ w.nodes[l].healthy = TRUE
    BY <1>1, <1>2 DEF Info
  <1>4. \A n \in Node : w.nodes[n].healthy
    BY <1>2, <1>3 DEF Fresh
  <1>5. FollowersOf(w, Self) \subseteq FollowersOf(v, Self)
    BY <1>2, <1>3 DEF FollowersOf
  <1> QED
    BY <1>1, <1>2, <1>4, <1>5 DEF Fresh, Single, w

LEMMA FreshReceive ==
    ASSUME NEW v, Fresh(v), NEW l \in Peers, NEW proto \in Protos(l)
    PROVE  Fresh(FromProto(SetLeader(v, l), proto))
  <1> DEFINE u == SetLeader(v, l)
             w == FromProto(u, proto)
  <1>1. Fresh(u) /\ u.leader = l
    BY FreshSetLeader
  <1>2. proto \in MentorProto(l) \/ proto \in FollowerProto
    BY DEF Protos, MentorProto, FollowerProto
  <1>3. u \in View /\ l # Self /\ (\A n \in Node : u.nodes[n].healthy) /\ Single(FollowersOf(u, Self))
    BY <1>1, NodeFacts DEF Fresh
  <1> HIDE DEF u
  <1>4. CASE proto \in MentorProto(l)
    <2>1. /\ w \in View /\ w.leader = l /\ \A n \in Node : w.nodes[n].healthy
          /\ FollowersOf(w, Self) \subseteq {proto.follower}
      BY <1>1, <1>3, <1>4, MentorProtoIs
    <2> QED
      BY <1>3, <2>1 DEF Fresh, Single, u
  <1>5. CASE proto \in FollowerProto
    <2>1. /\ w \in View /\ w.leader = l /\ \A n \in Node : w.nodes[n].healthy
          /\ FollowersOf(w, Self) \subseteq FollowersOf(u, Self)
      BY <1>1, <1>3, <1>5, FollowerProtoIs
    <2> QED
      BY <1>3, <2>1 DEF Fresh, Single, u
  <1> QED
    BY <1>2, <1>4, <1>5

LEMMA FreshHealthy ==
    ASSUME NEW v, Fresh(v), NEW n \in Peers
    PROVE  Fresh(MarkHealthy(v, n))
  <1> DEFINE w == MarkHealthy(v, n)
             s == w.nodes[n].source
  <1>0. v \in View /\ n \in Node /\ n # Self /\ v.leader # Self /\ Self \in Node /\ Self # Nil
    BY NodeFacts DEF Fresh
  <1>1. /\ w \in View /\ w.leader = v.leader
        /\ v.leader # Nil => w.nodes[v.leader] = Info("leader", Nil, TRUE)
        /\ \A p \in Node \ {n} : p # v.leader => w.nodes[p] = v.nodes[p]
        /\ n # v.leader => w.nodes[n].healthy
        /\ n # v.leader /\ v.nodes[n].source # Nil =>
              w.nodes[n].role = v.nodes[n].role /\ s = v.nodes[n].source
        /\ n # v.leader /\ v.nodes[n].source = Nil =>
              /\ w.nodes[n].role = "follower"
              /\ \/ s = v.leader
                 \/ /\ s \in Mentors(v) \ {n, v.leader}
                    /\ \A x \in FollowersOf(v, s) : x \in {n, v.leader}
    BY <1>0, MarkHealthyIs
  <1>2. v.leader # Nil => w.nodes[v.leader].role = "leader" /\ w.nodes[v.leader].healthy = TRUE
    BY <1>1 DEF Info
  <1> HIDE DEF w, s
  <1>3. \A p \in Node : w.nodes[p].healthy
    BY <1>1, <1>2, NodeFacts DEF Fresh
  <1>4. \A x \in FollowersOf(w, Self) : x # v.leader /\ x \in Node /\ (x # n => x \in FollowersOf(v, Self))
    BY <1>1, <1>2, NodeFacts DEF FollowersOf
  <1>5. Single(FollowersOf(w, Self))
    <2>1. CASE n \notin FollowersOf(w, Self)
      BY <1>4, <2>1 DEF Fresh, Single
    <2>2. CASE n \in FollowersOf(w, Self) /\ v.nodes[n].source # Nil
      <3>1. n \in FollowersOf(v, Self)
        BY <1>0, <1>1, <1>4, <2>2 DEF FollowersOf, Fresh, s
      <3> QED
        BY <1>4, <3>1 DEF Fresh, Single
    <2>3. CASE n \in FollowersOf(w, Self) /\ v.nodes[n].source = Nil
      <3>1. s = Self
        BY <2>3 DEF FollowersOf, s
      <3>2. \A x \in FollowersOf(v, Self) : x \in {n, v.leader}
        BY <1>0, <1>1, <1>4, <2>3, <3>1
      <3> QED
        BY <1>4, <3>2 DEF Single
    <2> QED
      BY <2>1, <2>2, <2>3
  <1> QED
    BY <1>0, <1>1, <1>3, <1>5 DEF Fresh, w

LEMMA FreshNext ==
    ASSUME TopologyInv, NotYetLed, FreshInv, [Next]_vars
    PROVE  FreshInv'
  <1> SUFFICES ASSUME spent'.terms = 0 PROVE Fresh(view')
    BY DEF FreshInv
  <1>1. spent.terms = 0
    <2>1. spent'.terms = spent.terms \/ BecomeLeader
      BY NotYetLedStep
    <2>2. BecomeLeader => spent'.terms = spent.terms + 1 /\ spent.terms \in Nat
      BY InvFacts DEF BecomeLeader, Spent
    <2> QED
      BY <2>1, <2>2
  <1>2. Fresh(view)
    BY <1>1 DEF FreshInv
  <1>3. ReceiveTopology \/ (\E n \in Peers : Ack(n)) \/ UNCHANGED vars
    BY <1>1, NotYetLedStep
  <1>4. CASE ReceiveTopology
    BY <1>2, <1>4, FreshReceive DEF ReceiveTopology
  <1>5. CASE \E n \in Peers : Ack(n)
    BY <1>2, <1>5, FreshHealthy DEF Ack
  <1>6. CASE UNCHANGED vars
    BY <1>2, <1>6 DEF vars
  <1> QED
    BY <1>3, <1>4, <1>5, <1>6

\* A mentor forwards to the node its leader has assigned to it and to no other from the
\* moment FromProto has returned, for any sequence of topologies and acknowledgements before.
THEOREM AssignmentApplied == Spec => AssignmentTakesEffect
  <1> DEFINE I == TopologyInv /\ NotYetLed /\ FreshInv
             A == spent.received < spent'.received /\ spent.terms = 0 =>
                    \A l \in Peers :
                      \A proto \in [role: {"mentor"}, source: {l}, follower: (Peers \ {l}) \cup {Nil}] :
                        view' = FromProto(SetLeader(view, l), proto) => FollowerOf(view', Self) = proto.follower
  <1>1. Init => I
    <2> SUFFICES ASSUME Init PROVE FreshInv /\ NotYetLed
      BY InvInit
    <2>1. view \in View
      BY InvInit, InvFacts
    <2>2. \A n \in Node : view.nodes[n] = Info("follower", Nil, TRUE)
      BY DEF Init
    <2>3. \A n \in Node : view.nodes[n].healthy = TRUE /\ view.nodes[n].source = Nil
      BY <2>2 DEF Info
    <2>4. FollowersOf(view, Self) = {}
      BY <2>3, NodeFacts DEF FollowersOf
    <2>5. view.leader # Self
      BY NodeFacts DEF Init
    <2> QED
      BY <2>1, <2>3, <2>4, <2>5, IdleFacts DEF Init, FreshInv, Fresh, Single, NotYetLed
  <1>2. I /\ [Next]_vars => I'
    BY InvNext, NotYetLedStep, FreshNext
  <1>3. I => A
    <2> SUFFICES ASSUME I, spent.terms = 0, NEW l \in Peers, NEW proto \in MentorProto(l),
                        view' = FromProto(SetLeader(view, l), proto)
                 PROVE  FollowerOf(view', Self) = proto.follower
      BY DEF MentorProto
    <2> DEFINE u == SetLeader(view, l)
               w == FromProto(u, proto)
    <2>1. Fresh(u) /\ u.leader = l
      BY FreshSetLeader DEF FreshInv
    <2>2. u \in View /\ Single(FollowersOf(u, Self))
      BY <2>1 DEF Fresh
    <2> HIDE DEF u
    <2>3. /\ FollowersOf(w, Self) \subseteq {proto.follower}
          /\ proto.follower # Nil => proto.follower \in FollowersOf(w, Self)
      BY <2>1, <2>2, MentorProtoIs
    <2>4. view' = w
      BY DEF u
    <2> HIDE DEF w
    <2>5. FollowersOf(w, Self) = {} => FollowerOf(w, Self) = Nil
      BY FollowerOfFacts
    <2>6. FollowersOf(w, Self) # {} => FollowerOf(w, Self) \in FollowersOf(w, Self)
      BY FollowerOfFacts
    <2>7. FollowerOf(w, Self) = proto.follower
      BY <2>3, <2>5, <2>6
    <2> QED
      BY <2>4, <2>7
  <1> HIDE DEF I
  <1> QED
    BY <1>1, <1>2, <1>3, PTL DEF Spec, AssignmentTakesEffect
=============================================================================
