--------------------------- MODULE DBClientProofs ---------------------------
(***************************************************************************)
(* Lease reads: the configuration, the exclusion that a lease gives and    *)
(* the freshness of reads, for any number of nodes, terms, rounds, writes, *)
(* faults and calls, and for any timing that a file can be accepted with.  *)
(***************************************************************************)
EXTENDS DBClient, FiniteSetTheorems, SequenceTheorems, WellFoundedInduction, TLAPS

(***************************************************************************)
(* The configuration.                                                      *)
(***************************************************************************)

NumberKeys == {"heartbeat", "election_min", "election_max", "drift", "connectivity", "expansion_add",
               "expansion_search", "compact_interval", "dedup_window", "max_retry", "segment_mb"}

LEMMA DefaultFacts ==
    /\ NumberKeys \subseteq Optional /\ NumberKeys \cap Aliased = {}
    /\ \A key \in NumberKeys : Defaults[key] \in Nat
    /\ Defaults["election_min"] = 300 /\ Defaults["drift"] = 50
    /\ Defaults.election_min = 300 /\ Defaults.drift = 50
    /\ {"lease", "dim", "data_type"} \cap Optional = {}
  BY DEF Defaults, Optional, NumberKeys, Aliased

\* What LoadFromFile reads for a number that is not of the wrong type.
LEMMA ParsedNumber ==
    ASSUME NEW file, IsFile(file), EnsureAllOk(file), NEW key \in NumberKeys
    PROVE  Parsed(file)[key] = Read(file, key, Defaults[key]) /\ Parsed(file)[key] \in Nat
  <1>1. /\ key \in Optional /\ Defaults[key] \in Nat
        /\ key \in Optional \union {"dim", "data_type", "lease", "raft_log_dir", "snapshot_dir"}
        /\ key # "dim" /\ key # "data_type" /\ key # "lease" /\ key \notin Aliased
    BY DefaultFacts
  <1>2. Parsed(file)[key] = Read(file, key, Defaults[key])
    BY <1>1 DEF Parsed
  <1>3. key \in Keys \ Aliased
        /\ key \in Keys \ {"node_id", "metric", "data_type", "scalar_kind", "level", "raft_log_dir",
                           "snapshot_dir", "data_dir"}
    BY <1>1 DEF Keys, NumberKeys
  <1>4. file[key] # Wrong
    BY <1>3 DEF EnsureAllOk, TryReadValue
  <1>5. file[key] = Absent \/ file[key] \in Nat
    BY <1>3, <1>4 DEF IsFile
  <1> QED
    BY <1>1, <1>2, <1>5 DEF Read

\* The two operands of the subtraction are words; the lease that is validated is their
\* difference when that is positive.
LEMMA LeaseOfFile ==
    ASSUME NEW e \in Nat, NEW d \in Nat, NEW l, e < Word, d < e, l = (e - d) % Word
    PROVE  l \in Nat \ {0} /\ l + d = e
  <1>1. e - d \in 1 .. Word - 1 /\ Word \in Nat
    BY WordAssumption
  <1> DEFINE x == e - d
  <1>2. x \in Nat /\ x < Word /\ x # 0 /\ l = x % Word
    BY <1>1
  <1> HIDE DEF x
  <1>3. l = x
    BY <1>1, <1>2
  <1> QED
    BY <1>1, <1>3 DEF x

LEMMA Accepted ==
    ASSUME NEW file, IsFile(file), LoadFromFile(file) # Refused
    PROVE  /\ LoadFromFile(file) = Parsed(file) /\ Usable(Parsed(file))
           /\ Parsed(file).lease \in Nat \ {0} /\ Parsed(file).drift \in Nat
           /\ Parsed(file).election_min = Parsed(file).lease + Parsed(file).drift
           /\ Parsed(file).max_retry \in Nat \ {0}
  <1> DEFINE c == Parsed(file)
  <1>1. /\ LoadFromFile(file) = c /\ EnsureAllOk(file) /\ ValidateLeaseConfig(c)
        /\ ValidateVectorConfig(c) /\ ValidateIndexMaintenanceConfig(c) /\ ValidateClientConfig(c)
        /\ ValidateStorageConfig(c)
    BY DEF LoadFromFile
  <1>2. \A key \in NumberKeys : c[key] = Read(file, key, Defaults[key]) /\ c[key] \in Nat
    BY <1>1, ParsedNumber
  <1>3. /\ c.heartbeat \in Nat /\ c.election_min \in Nat /\ c.election_max \in Nat /\ c.drift \in Nat
        /\ c.connectivity \in Nat /\ c.expansion_add \in Nat /\ c.expansion_search \in Nat
        /\ c.compact_interval \in Nat /\ c.dedup_window \in Nat /\ c.max_retry \in Nat
        /\ c.segment_mb \in Nat
    BY <1>2 DEF NumberKeys
  <1>4. c.election_min < Word
    <2>1. "election_min" \in NumberKeys /\ Defaults["election_min"] < Word
      BY DefaultFacts, WordAssumption DEF NumberKeys
    <2>2. c.election_min = Read(file, "election_min", Defaults["election_min"])
      BY <1>2, <2>1
    <2>3. "election_min" \in Keys \ Aliased
      BY DefaultFacts, <2>1 DEF Keys
    <2>4. file["election_min"] # Wrong
      BY <1>1, <2>3 DEF EnsureAllOk, TryReadValue
    <2>5. file["election_min"] \in {Absent, Wrong} \/ file["election_min"] < Word
      BY DEF IsFile
    <2> QED
      BY <2>1, <2>2, <2>4, <2>5 DEF Read
  <1>5. /\ c.heartbeat # 0 /\ c.election_min # 0
        /\ c.election_max >= c.election_min /\ c.heartbeat < c.election_min
        /\ c.drift < c.election_min /\ c.lease = (c.election_min - c.drift) % Word
    BY <1>1 DEF ValidateLeaseConfig
  <1>6. c.lease \in Nat \ {0} /\ c.lease + c.drift = c.election_min
    BY <1>3, <1>4, <1>5, LeaseOfFile
  <1>7. /\ c.connectivity >= 2 /\ c.expansion_add # 0 /\ c.expansion_search # 0
        /\ c.metric \in {"ip", "l2sq", "cos"} /\ c.data_type \in {"f32", "f16", "i8"} /\ c.compact_interval # 0
        /\ c.dedup_window # 0 /\ c.max_retry # 0 /\ c.segment_mb # 0
    BY <1>1 DEF ValidateVectorConfig, ValidateIndexMaintenanceConfig, ValidateClientConfig,
                ValidateStorageConfig
  <1> HIDE DEF c
  <1>8. 0 < c.lease /\ c.lease + c.drift = c.election_min
    BY <1>6
  <1>9. 0 < c.heartbeat /\ c.heartbeat < c.election_max
    BY <1>3, <1>5
  <1>10. /\ c.connectivity \notin {0, 1} /\ c.expansion_add > 0 /\ c.expansion_search > 0
         /\ c.compact_interval > 0 /\ c.dedup_window > 0 /\ c.max_retry > 0 /\ c.segment_mb > 0
    BY <1>3, <1>7
  <1>11. Usable(c)
    BY <1>7, <1>8, <1>9, <1>10 DEF Usable
  <1>12. c.election_min = c.lease + c.drift /\ c.max_retry \in Nat \ {0}
    BY <1>3, <1>6, <1>7
  <1> QED
    BY <1>1, <1>3, <1>6, <1>11, <1>12 DEF c

\* Every file that LoadFromFile accepts is usable.
LEMMA AllUsable == AcceptedUsable
  <1> SUFFICES ASSUME NEW file \in Files, LoadFromFile(file) # Refused
               PROVE  Usable(LoadFromFile(file))
    BY DEF AcceptedUsable
  <1> QED
    BY Accepted, ReadAssumption

ConfigInv ==
  /\ config.lease \in Nat \ {0} /\ config.drift \in Nat
  /\ config.election_min = config.lease + config.drift /\ config.max_retry \in Nat \ {0}

LEMMA ConfigInit == ClientInit => ConfigInv
  <1> SUFFICES ASSUME ClientInit PROVE ConfigInv
    OBVIOUS
  <1>1. PICK file \in StartFiles : LoadFromFile(file) # Refused /\ config = Timing(LoadFromFile(file))
    BY DEF ClientInit, Init
  <1>2. IsFile(file)
    BY ReadAssumption
  <1> DEFINE c == Parsed(file)
  <1>3. /\ LoadFromFile(file) = c /\ c.lease \in Nat \ {0} /\ c.drift \in Nat
        /\ c.election_min = c.lease + c.drift /\ c.max_retry \in Nat \ {0}
    BY <1>1, <1>2, Accepted
  <1> HIDE DEF c
  <1>4. /\ config.lease = c.lease /\ config.drift = c.drift /\ config.election_min = c.election_min
        /\ config.max_retry = c.max_retry
    BY <1>1, <1>3 DEF Timing
  <1> QED
    BY <1>3, <1>4 DEF ConfigInv

(***************************************************************************)
(* The invariant.                                                          *)
(***************************************************************************)

RoundState(n) ==
  [term: Nat, commit: Nat, age: Nat, high: Nat, answer: [Nodes \ {n} -> {"net", "ok", "due", "bad"}]]

ServerTypes ==
  /\ term \in [Nodes -> Nat] /\ silence \in [Nodes -> Nat]
  /\ role \in [Nodes -> {"follower", "candidate", "leader"}]
  /\ hint \in [Nodes -> Nodes \union {None}]
  /\ lease \in [Nodes -> [left: Nat, sound: BOOLEAN]]
  /\ round = [n \in Nodes |-> [t \in Threads |-> round[n][t]]]
  /\ \A n \in Nodes, t \in Threads : round[n][t] # NoRound => round[n][t] \in RoundState(n)
  /\ log \in [Nodes -> Nat] /\ commit \in [Nodes -> Nat] /\ applied \in [Nodes -> Nat]
  /\ own \in [Nodes -> BOOLEAN] /\ acked \in Nat

\* A leader does not wait for one.
LeadersQuiet == \A n \in Nodes : role[n] = "leader" => silence[n] = 0

\* A round that is no longer than the drift bound knows about every later term: whoever has
\* answered it has heard from the leader since it began.
RoundInTime(n, r, tm, sil) ==
  /\ sil[n] <= r.age
  /\ \A p \in Nodes \ {n} : r.answer[p] = "ok" => sil[p] <= r.age
  /\ (\E p \in Nodes : tm[p] > r.term) =>
        \E q \in Nodes \ {n} : r.answer[q] # "ok" /\ tm[q] > r.term

RoundInv(n, r, drift, tm, sil, com) ==
  /\ r.term <= tm[n] /\ r.term <= r.high /\ r.commit <= com[n]
  /\ r.high = r.term \/ \E p \in Nodes : r.high <= tm[p]
  /\ r.age <= drift => RoundInTime(n, r, tm, sil)

RoundsInv ==
  \A n \in Nodes, t \in Threads :
    round[n][t] # NoRound => RoundInv(n, round[n][t], config.drift, term, silence, commit)

Covered(n) == lease[n].left > 0 /\ lease[n].sound

\* Nobody is ahead of a node with a sound lease, or will be before it ends.
LeaseInv ==
  \A n \in Nodes : Covered(n) =>
    \A p \in Nodes : term[p] <= term[n] /\ silence[p] + lease[n].left <= config.election_min

\* n has been elected in term T.
Claim(n, T) ==
  \/ (role[n] = "leader" \/ Covered(n)) /\ T = term[n]
  \/ \E t \in Threads : round[n][t] # NoRound /\ round[n][t].term = T

IsQuorum(S) == Cardinality(S) >= QuorumSize

Reached(tm, T) == {p \in Nodes : tm[p] >= T}
Behind(tm, T) == {p \in Nodes : tm[p] <= T}
Stored(lg, c) == {p \in Nodes : lg[p] >= c}

\* A term has one winner, and a quorum has reached it.
ClaimsInv ==
  /\ \A n \in Nodes, T \in Nat : Claim(n, T) => IsQuorum(Reached(term, T))
  /\ \A m, n \in Nodes, T \in Nat : Claim(m, T) /\ Claim(n, T) => m = n

\* What was committed is stored on a quorum, and in the log of whoever may still commit.
DataInv ==
  /\ \A n \in Nodes : applied[n] <= commit[n] /\ commit[n] <= log[n] /\ IsQuorum(Stored(log, commit[n]))
  /\ \A n \in Nodes, T \in Nat : Claim(n, T) /\ T = term[n] =>
        /\ own[n] => commit[n] = log[n]
        /\ IsQuorum(Behind(term, T)) => \A p \in Nodes : commit[p] <= log[n]
  /\ \E p \in Nodes : acked <= commit[p]

\* A node that is about to stand leads nobody, is under nobody's sound lease and has not
\* confirmed a round that may still give one.
DueInv ==
  /\ due \in [Nodes -> BOOLEAN]
  /\ \A p \in Nodes : due[p] =>
        /\ role[p] # "leader" /\ \A n \in Nodes : ~Covered(n)
        /\ \A n \in Nodes, t \in Threads : round[n][t] # NoRound /\ round[n][t].age <= config.drift =>
              n # p /\ round[n][t].answer[p] # "ok"

LeaseReadInv == ConfigInv /\ ServerTypes /\ LeadersQuiet /\ RoundsInv /\ LeaseInv /\ ClaimsInv /\ DataInv

\* The steps of a search in a handler, which is at a node.
Steps == {"enter", "round", "applied", "search"}

SearchAt == search.pc \in Steps => search.at \in Nodes

\* What the invariant speaks of.
leaseVars == <<config, nodeVars, round, dataVars>>

(***************************************************************************)
(* Quorums, and pairs of numbers.                                          *)
(***************************************************************************)

LEMMA NodeFacts ==
    /\ IsFiniteSet(Nodes) /\ None \notin Nodes /\ FirstLeader \in Nodes
    /\ \A S \in SUBSET Nodes : IsFiniteSet(S) /\ Cardinality(S) \in Nat /\ Cardinality(S) <= Cardinality(Nodes)
    /\ QuorumSize \in Nat /\ QuorumSize + QuorumSize > Cardinality(Nodes) /\ Cardinality(Nodes) >= QuorumSize
  <1>1. IsFiniteSet(Nodes) /\ None \notin Nodes /\ FirstLeader \in Nodes
    BY ReadAssumption
  <1>2. \A S \in SUBSET Nodes : IsFiniteSet(S) /\ Cardinality(S) \in Nat /\ Cardinality(S) <= Cardinality(Nodes)
    BY <1>1, FS_Subset, FS_CardinalityType
  <1>3. Cardinality(Nodes) \in Nat /\ Cardinality(Nodes) # 0
    BY <1>1, <1>2, FS_EmptySet
  <1> QED
    BY <1>1, <1>2, <1>3 DEF QuorumSize

LEMMA QuorumsMeet ==
    ASSUME NEW S \in SUBSET Nodes, NEW Q \in SUBSET Nodes, IsQuorum(S), IsQuorum(Q)
    PROVE  \E p \in Nodes : p \in S /\ p \in Q
  <1>1. Cardinality(S) + Cardinality(Q) > Cardinality(Nodes)
    <2> DEFINE a == Cardinality(S) b == Cardinality(Q) z == Cardinality(Nodes)
    <2>1. a \in Nat /\ b \in Nat /\ z \in Nat /\ a >= QuorumSize /\ b >= QuorumSize
      BY NodeFacts DEF IsQuorum
    <2> HIDE DEF a, b
    <2>2. QuorumSize \in Nat /\ QuorumSize + QuorumSize > z
      BY NodeFacts
    <2> HIDE DEF z
    <2>3. a + b > z
      BY <2>1, <2>2
    <2> QED
      BY <2>3 DEF a, b, z
  <1>2. S \cap Q # {}
    BY <1>1, NodeFacts, FS_MajoritiesIntersect
  <1> QED
    BY <1>2

LEMMA LargerQuorum ==
    ASSUME NEW S, NEW Q \in SUBSET Nodes, S \subseteq Q, IsQuorum(S)
    PROVE  IsQuorum(Q)
  <1>1. /\ IsFiniteSet(Q) /\ Cardinality(S) \in Nat /\ Cardinality(Q) \in Nat /\ S \in SUBSET Q
        /\ QuorumSize \in Nat
    BY NodeFacts
  <1>2. Cardinality(S) <= Cardinality(Q)
    BY <1>1, FS_Subset
  <1> QED
    BY <1>1, <1>2 DEF IsQuorum

LEMMA QuorumWith ==
    ASSUME NEW n \in Nodes, NEW S \in SUBSET (Nodes \ {n}), Cardinality(S) + 1 >= QuorumSize
    PROVE  IsQuorum(S \union {n})
  <1>1. IsFiniteSet(S) /\ n \notin S
    BY NodeFacts
  <1>2. Cardinality(S \union {n}) = Cardinality(S) + 1
    BY <1>1, FS_AddElement
  <1> QED
    BY <1>2 DEF IsQuorum

LEMMA AllQuorum == IsQuorum(Nodes)
  BY NodeFacts DEF IsQuorum

LEMMA PairMin ==
    ASSUME NEW a \in Nat, NEW b \in Nat
    PROVE  Min({a, b}) = IF a <= b THEN a ELSE b
  <1>1. \E x \in {a, b} : \A y \in {a, b} : x <= y
    OBVIOUS
  <1>2. Min({a, b}) \in {a, b} /\ \A y \in {a, b} : Min({a, b}) <= y
    BY <1>1 DEF Min
  <1> QED
    BY <1>2

LEMMA PairMax ==
    ASSUME NEW a \in Nat, NEW b \in Nat
    PROVE  Max({a, b}) = IF a >= b THEN a ELSE b
  <1>1. \E x \in {a, b} : \A y \in {a, b} : x >= y
    OBVIOUS
  <1>2. Max({a, b}) \in {a, b} /\ \A y \in {a, b} : Max({a, b}) >= y
    BY <1>1 DEF Max
  <1> QED
    BY <1>2

(***************************************************************************)
(* Initial states.                                                         *)
(***************************************************************************)

LEMMA LeaseReadInit == ClientInit => LeaseReadInv
  <1> SUFFICES ASSUME ClientInit PROVE LeaseReadInv
    OBVIOUS
  <1> USE DEF ClientInit, Init
  <1>1. ConfigInv
    BY ConfigInit
  <1>2. /\ term = [n \in Nodes |-> 1] /\ silence = [n \in Nodes |-> 0] /\ lease = [n \in Nodes |-> Invalid]
        /\ round = [n \in Nodes |-> [t \in Threads |-> NoRound]]
        /\ log = [n \in Nodes |-> 0] /\ commit = log /\ applied = log /\ own = [n \in Nodes |-> FALSE]
        /\ acked = 0 /\ FirstLeader \in Nodes
        /\ \A n \in Nodes : role[n] = "leader" => n = FirstLeader
    BY NodeFacts
  <1>3. ServerTypes
    BY <1>2, NodeFacts DEF ServerTypes, Invalid
  <1>4. LeadersQuiet /\ RoundsInv /\ LeaseInv
    BY <1>2 DEF LeadersQuiet, RoundsInv, LeaseInv, Covered, Invalid
  <1>5. \A n \in Nodes, T \in Nat : Claim(n, T) => n = FirstLeader /\ T = 1
    BY <1>2 DEF Claim, Covered, Invalid
  <1>6. Reached(term, 1) = Nodes /\ Stored(log, 0) = Nodes
    BY <1>2 DEF Reached, Stored
  <1>7. ClaimsInv
    BY <1>5, <1>6, AllQuorum DEF ClaimsInv
  <1>8. \A n \in Nodes : applied[n] = 0 /\ commit[n] = 0 /\ log[n] = 0
    BY <1>2
  <1>9. DataInv
    BY <1>2, <1>6, <1>8, AllQuorum DEF DataInv
  <1> QED
    BY <1>1, <1>3, <1>4, <1>7, <1>9 DEF LeaseReadInv

(***************************************************************************)
(* What a step that elects nobody and commits nothing preserves.           *)
(***************************************************************************)

TermsRise == \A p \in Nodes : term[p] <= term'[p]

\* No term is new.
TermsKnown == \A p \in Nodes : \E q \in Nodes : term'[p] <= term[q]

NoNewClaims == \A n \in Nodes, T \in Nat : Claim(n, T)' => Claim(n, T)

LEMMA ClaimsKept ==
    ASSUME LeaseReadInv, ServerTypes', TermsRise, NoNewClaims
    PROVE  ClaimsInv'
  <1>1. \A n \in Nodes, T \in Nat : Claim(n, T)' => IsQuorum(Reached(term', T))
    <2> SUFFICES ASSUME NEW n \in Nodes, NEW T \in Nat, Claim(n, T)' PROVE IsQuorum(Reached(term', T))
      OBVIOUS
    <2>1. IsQuorum(Reached(term, T))
      BY DEF NoNewClaims, LeaseReadInv, ClaimsInv
    <2>2. Reached(term, T) \subseteq Reached(term', T)
      BY DEF Reached, TermsRise, LeaseReadInv, ServerTypes
    <2>3. Reached(term', T) \in SUBSET Nodes
      BY DEF Reached
    <2> QED
      BY <2>1, <2>2, <2>3, LargerQuorum
  <1>2. \A m, n \in Nodes, T \in Nat : Claim(m, T)' /\ Claim(n, T)' => m = n
    BY DEF NoNewClaims, LeaseReadInv, ClaimsInv
  <1> QED
    BY <1>1, <1>2 DEF ClaimsInv

\* A claim to the term a node is in is as old as the term.
LEMMA OldTermClaimed ==
    ASSUME LeaseReadInv, NoNewClaims, TermsRise, ServerTypes',
           NEW n \in Nodes, NEW T \in Nat, Claim(n, T)', T = term'[n]
    PROVE  term[n] = T /\ Claim(n, T)
  <1>1. Claim(n, T)
    BY DEF NoNewClaims
  <1>2. T <= term[n]
    <2>1. CASE \E t \in Threads : round[n][t] # NoRound /\ round[n][t].term = T
      <3>1. PICK t \in Threads : round[n][t] # NoRound /\ round[n][t].term = T
        BY <2>1
      <3>2. RoundInv(n, round[n][t], config.drift, term, silence, commit)
        BY <3>1 DEF LeaseReadInv, RoundsInv
      <3> QED
        BY <3>1, <3>2 DEF RoundInv
    <2> QED
      BY <1>1, <2>1 DEF Claim, LeaseReadInv, ServerTypes
  <1>3. term[n] \in Nat /\ term[n] <= T
    BY DEF TermsRise, LeaseReadInv, ServerTypes
  <1> QED
    BY <1>1, <1>2, <1>3

LEMMA DataKept ==
    ASSUME LeaseReadInv, ServerTypes', TermsRise, NoNewClaims, log' = log, own' = own,
           \A p \in Nodes : /\ commit[p] <= commit'[p] /\ commit'[p] <= log[p] /\ applied'[p] <= commit'[p]
                            /\ \E q \in Nodes : commit'[p] <= commit[q],
           \E p \in Nodes : acked' <= commit[p]
    PROVE  DataInv'
  <1>1. /\ commit \in [Nodes -> Nat] /\ commit' \in [Nodes -> Nat] /\ log \in [Nodes -> Nat] /\ term \in [Nodes -> Nat]
        /\ term' \in [Nodes -> Nat] /\ acked' \in Nat
    BY DEF LeaseReadInv, ServerTypes
  <1>2. ASSUME NEW n \in Nodes PROVE IsQuorum(Stored(log, commit'[n]))
    <2>1. PICK q \in Nodes : commit'[n] <= commit[q]
      OBVIOUS
    <2>2. IsQuorum(Stored(log, commit[q]))
      BY DEF LeaseReadInv, DataInv
    <2>3. Stored(log, commit[q]) \subseteq Stored(log, commit'[n]) /\ Stored(log, commit'[n]) \in SUBSET Nodes
      BY <1>1, <2>1 DEF Stored
    <2> QED
      BY <2>2, <2>3, LargerQuorum
  <1>3. ASSUME NEW n \in Nodes, NEW T \in Nat, Claim(n, T)', T = term'[n]
        PROVE  /\ own[n] => commit'[n] = log[n]
               /\ IsQuorum(Behind(term', T)) => \A p \in Nodes : commit'[p] <= log[n]
    <2>1. term[n] = T /\ Claim(n, T)
      BY <1>3, OldTermClaimed
    <2>2. /\ own[n] => commit[n] = log[n]
          /\ IsQuorum(Behind(term, T)) => \A p \in Nodes : commit[p] <= log[n]
      BY <2>1 DEF LeaseReadInv, DataInv
    <2>3. own[n] => commit'[n] = log[n]
      BY <1>1, <2>2
    <2>4. ASSUME IsQuorum(Behind(term', T)) PROVE \A p \in Nodes : commit'[p] <= log[n]
      <3>1. Behind(term', T) \subseteq Behind(term, T) /\ Behind(term, T) \in SUBSET Nodes
        BY <1>1 DEF Behind, TermsRise
      <3>2. IsQuorum(Behind(term, T))
        BY <2>4, <3>1, LargerQuorum
      <3> QED
        BY <1>1, <2>2, <3>2
    <2> QED
      BY <2>3, <2>4
  <1>4. \E p \in Nodes : acked' <= commit'[p]
    BY <1>1
  <1> QED
    BY <1>2, <1>3, <1>4 DEF DataInv

\* A round on which a step does nothing.
LEMMA RoundKept ==
    ASSUME NEW n \in Nodes, NEW r, r \in RoundState(n), NEW drift \in Nat,
           NEW tm \in [Nodes -> Nat], NEW tm2 \in [Nodes -> Nat], NEW sil \in [Nodes -> Nat],
           NEW sil2 \in [Nodes -> Nat], NEW com \in [Nodes -> Nat], NEW com2 \in [Nodes -> Nat],
           \A p \in Nodes : tm[p] <= tm2[p] /\ sil2[p] <= sil[p] /\ com[p] <= com2[p],
           \A p \in Nodes : \E q \in Nodes : tm2[p] <= tm[q],
           RoundInv(n, r, drift, tm, sil, com)
    PROVE  RoundInv(n, r, drift, tm2, sil2, com2)
  <1>1. r.term \in Nat /\ r.high \in Nat /\ r.commit \in Nat /\ r.age \in Nat
    BY DEF RoundState
  <1>2. r.term <= tm2[n] /\ r.term <= r.high /\ r.commit <= com2[n]
    BY <1>1 DEF RoundInv
  <1>3. r.high = r.term \/ \E p \in Nodes : r.high <= tm2[p]
    BY <1>1 DEF RoundInv
  <1>4. ASSUME r.age <= drift PROVE RoundInTime(n, r, tm2, sil2)
    <2>1. RoundInTime(n, r, tm, sil)
      BY <1>4 DEF RoundInv
    <2>2. sil2[n] <= r.age /\ \A p \in Nodes \ {n} : r.answer[p] = "ok" => sil2[p] <= r.age
      BY <1>1, <2>1 DEF RoundInTime
    <2>3. ASSUME NEW p \in Nodes, tm2[p] > r.term
          PROVE  \E q \in Nodes \ {n} : r.answer[q] # "ok" /\ tm2[q] > r.term
      <3>1. \E q \in Nodes : tm[q] > r.term
        BY <1>1, <2>3
      <3>2. PICK q \in Nodes \ {n} : r.answer[q] # "ok" /\ tm[q] > r.term
        BY <2>1, <3>1 DEF RoundInTime
      <3> QED
        BY <1>1, <3>2
    <2> QED
      BY <2>2, <2>3 DEF RoundInTime
  <1> QED
    BY <1>2, <1>3, <1>4 DEF RoundInv

LEMMA ConfigKept ==
    ASSUME ConfigInv, config' = config
    PROVE  ConfigInv'
  BY DEF ConfigInv

\* The data does not change.
LEMMA QuietStep ==
    ASSUME LeaseReadInv, config' = config, UNCHANGED dataVars, ServerTypes', LeadersQuiet', RoundsInv',
           LeaseInv', TermsRise, NoNewClaims
    PROVE  LeaseReadInv'
  <1>1. ConfigInv' /\ ClaimsInv'
    BY ConfigKept, ClaimsKept DEF LeaseReadInv
  <1>2. /\ log' = log /\ own' = own /\ commit' = commit /\ applied' = applied /\ acked' = acked
        /\ commit \in [Nodes -> Nat]
    BY DEF dataVars, LeaseReadInv, ServerTypes
  <1>3. /\ \A p \in Nodes : /\ commit[p] <= commit'[p] /\ commit'[p] <= log[p] /\ applied'[p] <= commit'[p]
                            /\ \E q \in Nodes : commit'[p] <= commit[q]
        /\ \E p \in Nodes : acked' <= commit[p]
    BY <1>2 DEF LeaseReadInv, DataInv
  <1>4. DataInv'
    BY <1>2, <1>3, DataKept
  <1> QED
    BY <1>1, <1>4 DEF LeaseReadInv

(***************************************************************************)
(* Time passes.                                                            *)
(***************************************************************************)

\* A round and the silence of the nodes grow by the same amount.
LEMMA TickRound ==
    ASSUME NEW n \in Nodes, NEW r, r \in RoundState(n), NEW drift \in Nat,
           NEW tm \in [Nodes -> Nat], NEW sil \in [Nodes -> Nat], NEW sil2 \in [Nodes -> Nat],
           NEW com \in [Nodes -> Nat], \A p \in Nodes : sil2[p] <= sil[p] + 1,
           RoundInv(n, r, drift, tm, sil, com),
           NEW s, s = [r EXCEPT !.age = Min({r.age + 1, drift + 1})]
    PROVE  s \in RoundState(n) /\ s.term = r.term /\ RoundInv(n, s, drift, tm, sil2, com)
  <1>1. r.term \in Nat /\ r.high \in Nat /\ r.commit \in Nat /\ r.age \in Nat
    BY DEF RoundState
  <1> DEFINE a == Min({r.age + 1, drift + 1})
  <1>2. a \in Nat /\ (a <= drift => a = r.age + 1 /\ r.age <= drift)
    <2>1. r.age + 1 \in Nat /\ drift + 1 \in Nat
      BY <1>1
    <2>2. a = IF r.age + 1 <= drift + 1 THEN r.age + 1 ELSE drift + 1
      BY <2>1, PairMin
    <2> QED
      BY <1>1, <2>1, <2>2
  <1>3. s = [r EXCEPT !.age = a]
    OBVIOUS
  <1> HIDE DEF a
  <1>4. /\ s \in RoundState(n) /\ s.term = r.term /\ s.high = r.high /\ s.commit = r.commit
        /\ s.answer = r.answer /\ s.age = a
    BY <1>2, <1>3 DEF RoundState
  <1>5. ASSUME a <= drift PROVE RoundInTime(n, s, tm, sil2)
    <2>1. RoundInTime(n, r, tm, sil)
      BY <1>2, <1>5 DEF RoundInv
    <2>2. \A p \in Nodes : sil[p] <= r.age => sil2[p] <= a
      BY <1>1, <1>2, <1>5
    <2> QED
      BY <1>4, <2>1, <2>2 DEF RoundInTime
  <1> QED
    BY <1>4, <1>5 DEF RoundInv

LEMMA InvTick == LeaseReadInv /\ Tick => LeaseReadInv'
  <1> SUFFICES ASSUME LeaseReadInv, Tick PROVE LeaseReadInv'
    OBVIOUS
  <1> DEFINE e == config.election_min
  <1>1. /\ term \in [Nodes -> Nat] /\ silence \in [Nodes -> Nat] /\ lease \in [Nodes -> [left: Nat, sound: BOOLEAN]]
        /\ commit \in [Nodes -> Nat] /\ e \in Nat /\ config.drift \in Nat
    BY DEF LeaseReadInv, ServerTypes, ConfigInv
  <1>2. UNCHANGED <<config, term, role, hint, dataVars>>
    BY DEF Tick
  <1> HIDE DEF e
  <1>3. silence' = [n \in Nodes |-> IF role[n] = "leader" THEN 0 ELSE Min({silence[n] + 1, e})]
    BY DEF Tick, e
  <1>4. \A n \in Nodes : silence'[n] \in Nat /\ silence'[n] <= silence[n] + 1
    BY <1>1, <1>3, PairMin, SMTT(30)
  <1>5. silence' \in [Nodes -> Nat]
    BY <1>3, <1>4
  <1>6. lease' \in [Nodes -> [left: Nat, sound: BOOLEAN]]
        /\ \A n \in Nodes : Covered(n)' => Covered(n) /\ lease'[n].left = lease[n].left - 1
    <2>1. ASSUME NEW n \in Nodes
          PROVE  /\ lease'[n] \in [left: Nat, sound: BOOLEAN]
                 /\ Covered(n)' => Covered(n) /\ lease'[n].left = lease[n].left - 1
      <3>1. CASE lease[n].left <= 1
        BY <1>1, <3>1 DEF Tick, Invalid, Covered
      <3>2. CASE lease[n].left > 1
        <4>1. lease'[n] = [lease[n] EXCEPT !.left = lease[n].left - 1]
          BY <1>1, <3>2 DEF Tick
        <4> QED
          BY <1>1, <3>2, <4>1 DEF Covered
      <3> QED
        BY <1>1, <3>1, <3>2
    <2> QED
      BY <2>1 DEF Tick
  <1>7. ASSUME NEW n \in Nodes, NEW t \in Threads, round'[n][t] # NoRound
        PROVE  /\ round[n][t] # NoRound /\ round'[n][t] \in RoundState(n)
               /\ round'[n][t].term = round[n][t].term
               /\ RoundInv(n, round'[n][t], config.drift, term, silence', commit)
    <2>1. round[n][t] # NoRound /\ round'[n][t] = [round[n][t] EXCEPT !.age = Min({@ + 1, config.drift + 1})]
      BY <1>7 DEF Tick
    <2>2. round[n][t] \in RoundState(n) /\ RoundInv(n, round[n][t], config.drift, term, silence, commit)
      BY <2>1 DEF LeaseReadInv, ServerTypes, RoundsInv
    <2> DEFINE r == round[n][t] s == round'[n][t]
    <2> HIDE DEF r, s
    <2>3. r \in RoundState(n) /\ RoundInv(n, r, config.drift, term, silence, commit)
          /\ s = [r EXCEPT !.age = Min({r.age + 1, config.drift + 1})]
      BY <2>1, <2>2 DEF r, s
    <2>4. s \in RoundState(n) /\ s.term = r.term /\ RoundInv(n, s, config.drift, term, silence', commit)
      <3> DEFINE d == config.drift sil2 == silence'
      <3>1. /\ d \in Nat /\ sil2 \in [Nodes -> Nat] /\ \A p \in Nodes : sil2[p] <= silence[p] + 1
            /\ RoundInv(n, r, d, term, silence, commit) /\ s = [r EXCEPT !.age = Min({r.age + 1, d + 1})]
        BY <1>1, <1>4, <1>5, <2>3
      <3> HIDE DEF d, sil2
      <3>2. s \in RoundState(n) /\ s.term = r.term /\ RoundInv(n, s, d, term, sil2, commit)
        BY <1>1, <2>3, <3>1, TickRound
      <3> QED
        BY <3>2 DEF d, sil2
    <2> QED
      BY <2>1, <2>4 DEF r, s
  <1>8. round' = [n \in Nodes |-> [t \in Threads |-> round'[n][t]]]
    BY DEF Tick
  <1>9. ServerTypes'
    BY <1>2, <1>5, <1>6, <1>7, <1>8 DEF ServerTypes, LeaseReadInv, dataVars
  <1>10. LeadersQuiet'
    BY <1>2, <1>3 DEF LeadersQuiet
  <1>11. RoundsInv'
    BY <1>2, <1>7 DEF RoundsInv, dataVars
  <1>12. LeaseInv'
    <2> SUFFICES ASSUME NEW n \in Nodes, Covered(n)', NEW p \in Nodes
                 PROVE  term'[p] <= term'[n] /\ silence'[p] + lease'[n].left <= e
      BY <1>2 DEF LeaseInv, e
    <2>1. Covered(n) /\ lease'[n].left = lease[n].left - 1
      BY <1>6
    <2>2. term[p] <= term[n] /\ silence[p] + lease[n].left <= e
      BY <2>1 DEF LeaseReadInv, LeaseInv, e
    <2> QED
      BY <1>1, <1>2, <1>4, <2>1, <2>2
  <1>13. TermsRise
    BY <1>1, <1>2 DEF TermsRise
  <1>14. NoNewClaims
    BY <1>2, <1>6, <1>7 DEF NoNewClaims, Claim
  <1> QED
    BY <1>2, <1>9, <1>10, <1>11, <1>12, <1>13, <1>14, QuietStep

(***************************************************************************)
(* Rounds.                                                                 *)
(***************************************************************************)

\* What a step may do to the nodes while rounds are open: no new term, no longer silence.
Gentle ==
  /\ config' = config /\ TermsRise /\ TermsKnown
  /\ term' \in [Nodes -> Nat] /\ silence' \in [Nodes -> Nat] /\ commit' \in [Nodes -> Nat]
  /\ \A p \in Nodes : silence'[p] <= silence[p] /\ commit[p] <= commit'[p]

RoundsTyped ==
  /\ round = [n \in Nodes |-> [t \in Threads |-> round[n][t]]]
  /\ \A n \in Nodes, t \in Threads : round[n][t] # NoRound => round[n][t] \in RoundState(n)

LEMMA OtherRound ==
    ASSUME LeaseReadInv, Gentle, NEW n \in Nodes, NEW t \in Threads, round[n][t] # NoRound
    PROVE  RoundInv(n, round[n][t], config'.drift, term', silence', commit')
  <1> DEFINE r == round[n][t] d == config.drift
  <1>1. r \in RoundState(n) /\ RoundInv(n, r, d, term, silence, commit) /\ d \in Nat
        /\ term \in [Nodes -> Nat] /\ silence \in [Nodes -> Nat] /\ commit \in [Nodes -> Nat]
    BY DEF LeaseReadInv, ServerTypes, RoundsInv, ConfigInv
  <1> DEFINE tm2 == term' sil2 == silence' com2 == commit'
  <1>2. /\ tm2 \in [Nodes -> Nat] /\ sil2 \in [Nodes -> Nat] /\ com2 \in [Nodes -> Nat]
        /\ \A p \in Nodes : term[p] <= tm2[p] /\ sil2[p] <= silence[p] /\ commit[p] <= com2[p]
        /\ \A p \in Nodes : \E q \in Nodes : tm2[p] <= term[q]
    BY DEF Gentle, TermsRise, TermsKnown
  <1> HIDE DEF r, d, tm2, sil2, com2
  <1>3. RoundInv(n, r, d, tm2, sil2, com2)
    BY <1>1, <1>2, RoundKept
  <1> QED
    BY <1>3 DEF r, d, tm2, sil2, com2, Gentle

LEMMA RoundChanged ==
    ASSUME LeaseReadInv, Gentle, NEW n \in Nodes, NEW t \in Threads, NEW v,
           round' = [round EXCEPT ![n][t] = v],
           v # NoRound => v \in RoundState(n) /\ RoundInv(n, v, config.drift, term', silence', commit')
    PROVE  /\ RoundsTyped' /\ RoundsInv' /\ round'[n][t] = v
           /\ \A m \in Nodes, u \in Threads : <<m, u>> # <<n, t>> => round'[m][u] = round[m][u]
  <1>1. /\ round = [m \in Nodes |-> [u \in Threads |-> round[m][u]]]
        /\ \A m \in Nodes, u \in Threads : round[m][u] # NoRound => round[m][u] \in RoundState(m)
    BY DEF LeaseReadInv, ServerTypes
  <1>2. /\ round' = [m \in Nodes |-> [u \in Threads |-> round'[m][u]]]
        /\ round'[n][t] = v
        /\ \A m \in Nodes, u \in Threads : <<m, u>> # <<n, t>> => round'[m][u] = round[m][u]
    <2> DEFINE R == round X == round'
    <2>1. R = [m \in Nodes |-> [u \in Threads |-> R[m][u]]] /\ X = [R EXCEPT ![n][t] = v]
      BY <1>1
    <2> HIDE DEF R, X
    <2>2. /\ X = [m \in Nodes |-> [u \in Threads |-> X[m][u]]]
          /\ X[n][t] = v
          /\ \A m \in Nodes, u \in Threads : <<m, u>> # <<n, t>> => X[m][u] = R[m][u]
      BY <2>1
    <2> QED
      BY <2>2 DEF R, X
  <1>3. RoundsTyped'
    BY <1>1, <1>2 DEF RoundsTyped
  <1>4. ASSUME NEW m \in Nodes, NEW u \in Threads, round'[m][u] # NoRound
        PROVE  RoundInv(m, round'[m][u], config'.drift, term', silence', commit')
    <2>1. CASE <<m, u>> = <<n, t>>
      BY <1>2, <1>4, <2>1 DEF Gentle
    <2>2. CASE <<m, u>> # <<n, t>>
      BY <1>2, <1>4, <2>2, OtherRound
    <2> QED
      BY <2>1, <2>2
  <1>5. RoundsInv'
    BY <1>4 DEF RoundsInv
  <1> QED
    BY <1>2, <1>3, <1>5

LEMMA RoundsSame ==
    ASSUME LeaseReadInv, Gentle, round' = round
    PROVE  RoundsTyped' /\ RoundsInv'
  <1>1. RoundsTyped'
    BY DEF RoundsTyped, LeaseReadInv, ServerTypes
  <1>2. ASSUME NEW m \in Nodes, NEW u \in Threads, round'[m][u] # NoRound
        PROVE  RoundInv(m, round'[m][u], config'.drift, term', silence', commit')
    BY <1>2, OtherRound
  <1> QED
    BY <1>1, <1>2 DEF RoundsInv

LEMMA StillGentle ==
    ASSUME LeaseReadInv, config' = config, term' = term, silence' = silence, commit' = commit
    PROVE  Gentle
  BY DEF Gentle, TermsRise, TermsKnown, LeaseReadInv, ServerTypes

\* A step of one round that leaves the nodes alone.
LEMMA RoundOnly ==
    ASSUME LeaseReadInv, UNCHANGED <<config, term, role, hint, silence, lease, dataVars>>, RoundsTyped', RoundsInv',
           \A n \in Nodes, t \in Threads : round'[n][t] # NoRound =>
              Claim(n, round'[n][t].term)
    PROVE  LeaseReadInv'
  <1>1. UNCHANGED <<config, term, role, hint, silence, lease, dataVars>>
    OBVIOUS
  <1>2. ServerTypes'
    BY <1>1 DEF LeaseReadInv, ServerTypes, RoundsTyped, dataVars
  <1>3. LeadersQuiet' /\ LeaseInv' /\ TermsRise
    BY <1>1 DEF LeaseReadInv, LeadersQuiet, LeaseInv, Covered, TermsRise, ServerTypes
  <1>4. NoNewClaims
    <2> SUFFICES ASSUME NEW n \in Nodes, NEW T \in Nat, Claim(n, T)' PROVE Claim(n, T)
      BY DEF NoNewClaims
    <2>1. CASE (role[n] = "leader" \/ Covered(n)) /\ T = term[n]
      BY <2>1 DEF Claim
    <2>2. CASE \E t \in Threads : round'[n][t] # NoRound /\ round'[n][t].term = T
      BY <2>2
    <2> QED
      BY <1>1, <2>1, <2>2 DEF Claim, Covered
  <1> QED
    BY <1>1, <1>2, <1>3, <1>4, QuietStep

\* BroadcastHeartbeat of a leader.
LEMMA InvBroadcast ==
    ASSUME LeaseReadInv, NEW n \in Nodes, NEW t \in Threads, role[n] = "leader", Broadcast(n, t),
           UNCHANGED <<config, nodeVars, dataVars>>
    PROVE  LeaseReadInv'
  <1> DEFINE v == [term |-> term[n], commit |-> commit[n], age |-> 0, high |-> term[n],
                   answer |-> [p \in Nodes \ {n} |-> "net"]]
  <1>1. /\ term' = term /\ silence' = silence /\ commit' = commit /\ config' = config
        /\ term \in [Nodes -> Nat] /\ commit \in [Nodes -> Nat] /\ silence \in [Nodes -> Nat]
    BY DEF LeaseReadInv, ServerTypes, nodeVars, dataVars
  <1>2. Gentle
    BY <1>1, StillGentle
  <1>3. v \in RoundState(n) /\ round' = [round EXCEPT ![n][t] = v] /\ v.term = term[n]
    BY <1>1 DEF RoundState, Broadcast
  <1>4. silence[n] = 0
    BY DEF LeaseReadInv, LeadersQuiet
  <1>5. RoundInTime(n, v, term, silence)
    <2>1. v.age = 0 /\ v.term = term[n] /\ v.answer = [p \in Nodes \ {n} |-> "net"]
      OBVIOUS
    <2> HIDE DEF v
    <2>2. \A p \in Nodes \ {n} : v.answer[p] # "ok"
      BY <2>1
    <2>3. ASSUME NEW p \in Nodes, term[p] > v.term PROVE p \in Nodes \ {n}
      BY <1>1, <2>1, <2>3
    <2> QED
      BY <1>4, <2>1, <2>2, <2>3 DEF RoundInTime
  <1>6. RoundInv(n, v, config.drift, term', silence', commit')
    <2>1. v.term <= term[n] /\ v.term <= v.high /\ v.commit <= commit[n] /\ v.high = v.term
      BY <1>1
    <2> HIDE DEF v
    <2> QED
      BY <1>1, <1>5, <2>1 DEF RoundInv
  <1> HIDE DEF v
  <1>7. /\ RoundsTyped' /\ RoundsInv' /\ round'[n][t] = v
        /\ \A m \in Nodes, u \in Threads : <<m, u>> # <<n, t>> => round'[m][u] = round[m][u]
    BY <1>2, <1>3, <1>6, RoundChanged
  <1>8. \A m \in Nodes, u \in Threads : round'[m][u] # NoRound => Claim(m, round'[m][u].term)
    <2> SUFFICES ASSUME NEW m \in Nodes, NEW u \in Threads, round'[m][u] # NoRound
                 PROVE  Claim(m, round'[m][u].term)
      OBVIOUS
    <2>1. CASE <<m, u>> = <<n, t>>
      <3>1. m = n /\ round'[m][u].term = term[n]
        BY <1>3, <1>7, <2>1
      <3> QED
        BY <3>1 DEF Claim
    <2>2. CASE <<m, u>> # <<n, t>>
      <3>1. round'[m][u] = round[m][u]
        BY <1>7, <2>2
      <3> QED
        BY <3>1 DEF Claim
    <2> QED
      BY <2>1, <2>2
  <1> QED
    BY <1>7, <1>8, RoundOnly DEF nodeVars

LEMMA InvBeginRound ==
    ASSUME LeaseReadInv, NEW n \in Nodes, BeginRound(n)
    PROVE  LeaseReadInv'
  BY InvBroadcast DEF BeginRound, Threads

\* A call of a round fails.
LEMMA InvHeartbeatLost ==
    ASSUME LeaseReadInv, NEW n \in Nodes, NEW t \in Threads, NEW p \in Nodes, HeartbeatLost(n, t, p)
    PROVE  LeaseReadInv'
  <1> DEFINE r == round[n][t] v == [r EXCEPT !.answer = [r.answer EXCEPT ![p] = "bad"]]
  <1>1. /\ term' = term /\ silence' = silence /\ commit' = commit /\ config' = config
        /\ UNCHANGED <<config, nodeVars, dataVars>>
    BY DEF HeartbeatLost, nodeVars, dataVars
  <1>2. Gentle
    BY <1>1, StillGentle
  <1>3. r # NoRound /\ p # n /\ round' = [round EXCEPT ![n][t] = v]
    BY DEF HeartbeatLost, Pending
  <1>4. r \in RoundState(n) /\ RoundInv(n, r, config.drift, term, silence, commit)
    BY <1>3 DEF LeaseReadInv, ServerTypes, RoundsInv
  <1> HIDE DEF r
  <1>5. /\ v \in RoundState(n) /\ v.term = r.term /\ v.high = r.high /\ v.commit = r.commit /\ v.age = r.age
        /\ \A q \in Nodes \ {n} : v.answer[q] = IF q = p THEN "bad" ELSE r.answer[q]
    <2>1. r.answer \in [Nodes \ {n} -> {"net", "ok", "due", "bad"}]
      BY <1>4 DEF RoundState
    <2>2. [r.answer EXCEPT ![p] = "bad"] \in [Nodes \ {n} -> {"net", "ok", "due", "bad"}]
      BY <2>1
    <2> QED
      BY <1>3, <1>4, <2>1, <2>2 DEF RoundState
  <1> HIDE DEF v
  <1>6. RoundInv(n, v, config.drift, term', silence', commit')
    BY <1>1, <1>4, <1>5 DEF RoundInv, RoundInTime
  <1>7. /\ RoundsTyped' /\ RoundsInv' /\ round'[n][t] = v
        /\ \A m \in Nodes, u \in Threads : <<m, u>> # <<n, t>> => round'[m][u] = round[m][u]
    BY <1>2, <1>3, <1>5, <1>6, RoundChanged
  <1>8. \A m \in Nodes, u \in Threads :
           round'[m][u] # NoRound => round[m][u] # NoRound /\ round'[m][u].term = round[m][u].term
    BY <1>3, <1>5, <1>7 DEF r
  <1>9. \A m \in Nodes, u \in Threads : round'[m][u] # NoRound => Claim(m, round'[m][u].term)
    BY <1>8 DEF Claim
  <1> QED
    BY <1>1, <1>7, <1>9, RoundOnly DEF nodeVars

\* What the answer a of p makes of the round r.
AnswerIs(n, p, a, r, h, v) ==
  /\ v \in RoundState(n) /\ v.term = r.term /\ v.commit = r.commit /\ v.age = r.age /\ v.high = h
  /\ \A q \in Nodes \ {n} : v.answer[q] = IF q = p THEN a ELSE r.answer[q]

LEMMA AnswerFacts ==
    ASSUME NEW n \in Nodes, NEW p \in Nodes, p # n, NEW r, r \in RoundState(n), NEW a \in {"ok", "due", "bad"},
           NEW h \in Nat
    PROVE  AnswerIs(n, p, a, r, h, [r EXCEPT !.high = h, !.answer[p] = a])
  <1> DEFINE ans == [r.answer EXCEPT ![p] = a]
             v == [r EXCEPT !.high = h, !.answer[p] = a]
  <1>1. r.answer \in [Nodes \ {n} -> {"net", "ok", "due", "bad"}]
    BY DEF RoundState
  <1>2. v = [r EXCEPT !.high = h, !.answer = ans]
    OBVIOUS
  <1> HIDE DEF v
  <1>3. /\ ans \in [Nodes \ {n} -> {"net", "ok", "due", "bad"}]
        /\ \A q \in Nodes \ {n} : ans[q] = IF q = p THEN a ELSE r.answer[q]
    BY <1>1
  <1> HIDE DEF ans
  <1>4. /\ v \in RoundState(n) /\ v.term = r.term /\ v.commit = r.commit /\ v.age = r.age
        /\ v.high = h /\ v.answer = ans
    BY <1>2, <1>3 DEF RoundState
  <1>5. AnswerIs(n, p, a, r, h, v)
    BY <1>3, <1>4 DEF AnswerIs
  <1> QED
    BY <1>5 DEF v

LEMMA RefusedAnswer ==
    ASSUME NEW n \in Nodes, NEW p \in Nodes, p # n, NEW r, r \in RoundState(n), NEW T \in Nat
    PROVE  AnswerIs(n, p, "bad", r, IF r.high >= T THEN r.high ELSE T, Answered(r, p, FALSE, T))
  <1> DEFINE h == Max({r.high, T}) k == IF r.high >= T THEN r.high ELSE T
  <1>1. r.high \in Nat
    BY DEF RoundState
  <1>2. h = k
    BY <1>1, PairMax
  <1>3. Answered(r, p, FALSE, T) = [r EXCEPT !.high = h, !.answer[p] = "bad"]
    BY DEF Answered
  <1> HIDE DEF h
  <1>4. h \in Nat
    BY <1>1, <1>2
  <1> HIDE DEF k
  <1>5. AnswerIs(n, p, "bad", r, h, [r EXCEPT !.high = h, !.answer[p] = "bad"])
    BY <1>4, AnswerFacts
  <1>6. AnswerIs(n, p, "bad", r, k, Answered(r, p, FALSE, T))
    BY <1>2, <1>3, <1>5
  <1> QED
    BY <1>6 DEF k

LEMMA ConfirmedAnswer ==
    ASSUME NEW n \in Nodes, NEW p \in Nodes, p # n, NEW r, r \in RoundState(n), r.term <= r.high
    PROVE  AnswerIs(n, p, IF due[p] THEN "due" ELSE "ok", r, r.high, Answered(r, p, TRUE, r.term))
  <1> DEFINE h == Max({r.high, r.term}) a == IF due[p] THEN "due" ELSE "ok"
  <1>1. r.high \in Nat /\ r.term \in Nat
    BY DEF RoundState
  <1>2. h = r.high
    BY <1>1, PairMax
  <1>3. Answered(r, p, TRUE, r.term) = [r EXCEPT !.high = h, !.answer[p] = a]
    <2>1. ~(r.term > r.high) /\ ~~TRUE
      BY <1>1
    <2>2. (IF r.term > r.high \/ ~TRUE THEN "bad" ELSE IF due[p] THEN "due" ELSE "ok") = a
      BY <2>1
    <2> HIDE DEF a
    <2> QED
      BY <2>2 DEF Answered
  <1>4. h \in Nat /\ a \in {"ok", "due", "bad"}
    BY <1>1, <1>2
  <1> HIDE DEF h, a
  <1>5. AnswerIs(n, p, a, r, h, [r EXCEPT !.high = h, !.answer[p] = a])
    BY <1>4, AnswerFacts
  <1>6. AnswerIs(n, p, a, r, r.high, Answered(r, p, TRUE, r.term))
    BY <1>2, <1>3, <1>5
  <1> QED
    BY <1>6 DEF a

\* An answer that refuses the round: its sender is in a later term.
LEMMA RefusedRound ==
    ASSUME NEW n \in Nodes, NEW p \in Nodes, NEW r, r \in RoundState(n), NEW drift, NEW tm \in [Nodes -> Nat],
           NEW sil, NEW com, RoundInv(n, r, drift, tm, sil, com), NEW v, v \in RoundState(n),
           v.term = r.term, v.commit = r.commit, v.age = r.age,
           v.high = IF r.high >= tm[p] THEN r.high ELSE tm[p],
           \A q \in Nodes \ {n} : v.answer[q] = "ok" <=> r.answer[q] = "ok"
    PROVE  RoundInv(n, v, drift, tm, sil, com)
  <1>1. r.term \in Nat /\ r.high \in Nat /\ tm[p] \in Nat
    BY DEF RoundState
  <1>2. r.term <= r.high /\ (r.high = r.term \/ \E q \in Nodes : r.high <= tm[q])
    BY DEF RoundInv
  <1>3. r.term <= v.high /\ (v.high = r.term \/ \E q \in Nodes : v.high <= tm[q])
    BY <1>1, <1>2
  <1>4. RoundInTime(n, r, tm, sil) => RoundInTime(n, v, tm, sil)
    BY DEF RoundInTime
  <1> QED
    BY <1>3, <1>4 DEF RoundInv

\* An answer that confirms it: its sender has just heard from the leader, and is in no later
\* term.
LEMMA ConfirmedRound ==
    ASSUME NEW n \in Nodes, NEW p \in Nodes, NEW r, r \in RoundState(n), NEW drift, NEW tm \in [Nodes -> Nat],
           NEW sil \in [Nodes -> Nat], NEW com, RoundInv(n, r, drift, tm, sil, com),
           tm[p] <= r.term, sil[p] = 0, NEW v, v \in RoundState(n),
           v.term = r.term, v.commit = r.commit, v.age = r.age, v.high = r.high,
           \A q \in Nodes \ {n} : v.answer[q] = "ok" => q = p \/ r.answer[q] = "ok"
    PROVE  RoundInv(n, v, drift, tm, sil, com)
  <1>1. r.term \in Nat /\ r.age \in Nat
    BY DEF RoundState
  <1>2. 0 <= r.age /\ ~(tm[p] > r.term)
    BY <1>1
  <1>3. ASSUME RoundInTime(n, r, tm, sil) PROVE RoundInTime(n, v, tm, sil)
    <2>1. \A q \in Nodes \ {n} : v.answer[q] = "ok" => sil[q] <= v.age
      BY <1>2, <1>3 DEF RoundInTime
    <2> QED
      BY <1>2, <1>3, <2>1 DEF RoundInTime
  <1> QED
    BY <1>3 DEF RoundInv

\* A step after which every node is what it was or a follower, in a term that was there.
LEMMA InvFollow ==
    ASSUME LeaseReadInv, Gentle, RoundsTyped', RoundsInv', DataInv' \/ UNCHANGED dataVars,
           applied' \in [Nodes -> Nat], log' \in [Nodes -> Nat], own' \in [Nodes -> BOOLEAN], acked' \in Nat,
           role' \in [Nodes -> {"follower", "candidate", "leader"}], hint' \in [Nodes -> Nodes \union {None}],
           lease' \in [Nodes -> [left: Nat, sound: BOOLEAN]],
           \A n \in Nodes : role'[n] = "leader" => role[n] = "leader" /\ term'[n] = term[n] /\ silence'[n] = silence[n],
           \A n \in Nodes : Covered(n)' => Covered(n) /\ term'[n] = term[n] /\ lease'[n].left = lease[n].left,
           \A n \in Nodes, t \in Threads : round'[n][t] # NoRound =>
              round[n][t] # NoRound /\ round'[n][t].term = round[n][t].term
    PROVE  LeaseReadInv' /\ NoNewClaims /\ ServerTypes'
  <1>1. ServerTypes'
    BY DEF ServerTypes, Gentle, RoundsTyped
  <1>2. LeadersQuiet'
    BY DEF LeadersQuiet, LeaseReadInv
  <1>3. LeaseInv'
    <2> SUFFICES ASSUME NEW n \in Nodes, Covered(n)', NEW p \in Nodes
                 PROVE  term'[p] <= term'[n] /\ silence'[p] + lease'[n].left <= config'.election_min
      BY DEF LeaseInv
    <2>1. Covered(n) /\ term'[n] = term[n] /\ lease'[n].left = lease[n].left
      OBVIOUS
    <2>2. PICK q \in Nodes : term'[p] <= term[q]
      BY DEF Gentle, TermsKnown
    <2>3. term[q] <= term[n] /\ silence[p] + lease[n].left <= config.election_min
      BY <2>1 DEF LeaseReadInv, LeaseInv
    <2> DEFINE a == term'[p] b == term[q] c == term[n] s == silence[p] s2 == silence'[p] l == lease[n].left
               e == config.election_min
    <2>4. a \in Nat /\ b \in Nat /\ c \in Nat /\ s \in Nat /\ s2 \in Nat /\ l \in Nat /\ e \in Nat /\ s2 <= s
      BY DEF Gentle, LeaseReadInv, ServerTypes, ConfigInv
    <2>5. a <= b /\ b <= c /\ s + l <= e
      BY <2>2, <2>3
    <2> HIDE DEF a, b, c, s, s2, l, e
    <2>6. a <= c /\ s2 + l <= e
      BY <2>4, <2>5
    <2> QED
      BY <2>1, <2>6 DEF a, c, s2, l, e, Gentle
  <1>4. NoNewClaims
    <2> SUFFICES ASSUME NEW n \in Nodes, NEW T \in Nat, Claim(n, T)' PROVE Claim(n, T)
      BY DEF NoNewClaims
    <2>1. CASE role'[n] = "leader" /\ T = term'[n]
      BY <2>1 DEF Claim
    <2>2. CASE Covered(n)' /\ T = term'[n]
      BY <2>2 DEF Claim
    <2>3. CASE \E t \in Threads : round'[n][t] # NoRound /\ round'[n][t].term = T
      BY <2>3 DEF Claim
    <2> QED
      BY <2>1, <2>2, <2>3 DEF Claim
  <1>5. ConfigInv' /\ ClaimsInv'
    BY <1>1, <1>4, ConfigKept, ClaimsKept DEF LeaseReadInv, Gentle
  <1>6. CASE DataInv'
    BY <1>1, <1>2, <1>3, <1>4, <1>5, <1>6 DEF LeaseReadInv
  <1>7. CASE UNCHANGED dataVars
    BY <1>1, <1>2, <1>3, <1>4, <1>7, QuietStep DEF Gentle
  <1> QED
    BY <1>6, <1>7

\* HandleHeartbeat of a node that is in a later term.
LEMMA InvHeartbeatRefused ==
    ASSUME LeaseReadInv, NEW n \in Nodes, NEW t \in Threads, NEW p \in Nodes, HandleHeartbeat(n, t, p),
           round[n][t].term < term[p]
    PROVE  LeaseReadInv'
  <1> DEFINE r == round[n][t] v == Answered(r, p, FALSE, term[p])
  <1>1. /\ term' = term /\ silence' = silence /\ commit' = commit /\ config' = config
        /\ UNCHANGED <<config, nodeVars, dataVars>>
    BY DEF HandleHeartbeat, nodeVars, dataVars
  <1>2. Gentle
    BY <1>1, StillGentle
  <1>3. r # NoRound /\ p # n /\ r.answer[p] = "net" /\ round' = [round EXCEPT ![n][t] = v]
    BY DEF HandleHeartbeat, Pending
  <1>4. /\ r \in RoundState(n) /\ RoundInv(n, r, config.drift, term, silence, commit) /\ r.term < term[p]
        /\ config.drift \in Nat /\ term \in [Nodes -> Nat] /\ silence \in [Nodes -> Nat] /\ commit \in [Nodes -> Nat]
    BY <1>3 DEF LeaseReadInv, ServerTypes, RoundsInv, ConfigInv
  <1> HIDE DEF r, v
  <1>5. v \in RoundState(n) /\ v.term = r.term /\ RoundInv(n, v, config.drift, term, silence, commit)
    <2> DEFINE k == IF r.high >= term[p] THEN r.high ELSE term[p]
    <2>1. AnswerIs(n, p, "bad", r, k, v)
      BY <1>3, <1>4, RefusedAnswer DEF v
    <2>2. /\ v \in RoundState(n) /\ v.term = r.term /\ v.commit = r.commit /\ v.age = r.age
          /\ v.high = IF r.high >= term[p] THEN r.high ELSE term[p]
          /\ \A q \in Nodes \ {n} : v.answer[q] = IF q = p THEN "bad" ELSE r.answer[q]
      BY <2>1 DEF AnswerIs
    <2>3. \A q \in Nodes \ {n} : v.answer[q] = "ok" <=> r.answer[q] = "ok"
      BY <1>3, <2>2
    <2> DEFINE d == config.drift
    <2>4. RoundInv(n, r, d, term, silence, commit)
      BY <1>4
    <2> HIDE DEF d
    <2>5. RoundInv(n, v, d, term, silence, commit)
      BY <1>4, <2>2, <2>3, <2>4, RefusedRound
    <2> QED
      BY <2>2, <2>5 DEF d
  <1>7. /\ RoundsTyped' /\ RoundsInv' /\ round'[n][t] = v
        /\ \A m \in Nodes, u \in Threads : <<m, u>> # <<n, t>> => round'[m][u] = round[m][u]
    BY <1>1, <1>2, <1>3, <1>5, RoundChanged
  <1>8. \A m \in Nodes, u \in Threads :
           round'[m][u] # NoRound => round[m][u] # NoRound /\ round'[m][u].term = round[m][u].term
    BY <1>3, <1>5, <1>7 DEF r
  <1>9. \A m \in Nodes, u \in Threads : round'[m][u] # NoRound => Claim(m, round'[m][u].term)
    BY <1>8 DEF Claim
  <1> QED
    BY <1>1, <1>7, <1>9, RoundOnly DEF nodeVars

\* HandleHeartbeat of a node that follows: what it does to the nodes.
LEMMA HeartbeatFacts ==
    ASSUME LeaseReadInv, NEW n \in Nodes, NEW t \in Threads, NEW p \in Nodes, HandleHeartbeat(n, t, p),
           ~(round[n][t].term < term[p])
    PROVE  /\ term' = [term EXCEPT ![p] = round[n][t].term] /\ term[p] <= round[n][t].term
           /\ role' = [role EXCEPT ![p] = "follower"] /\ hint' = [hint EXCEPT ![p] = n]
           /\ silence' = [silence EXCEPT ![p] = 0]
           /\ lease' = [lease EXCEPT ![p] = Invalid] \/ (lease' = lease /\ term' = term)
  <1> DEFINE r == round[n][t]
  <1>1. r # NoRound /\ r \in RoundState(n) /\ r.term \in Nat /\ term[p] \in Nat
    BY DEF HandleHeartbeat, Pending, LeaseReadInv, ServerTypes, RoundState
  <1>2. /\ term \in [Nodes -> Nat] /\ role \in [Nodes -> {"follower", "candidate", "leader"}]
        /\ hint \in [Nodes -> Nodes \union {None}] /\ silence \in [Nodes -> Nat]
        /\ lease \in [Nodes -> [left: Nat, sound: BOOLEAN]]
    BY DEF LeaseReadInv, ServerTypes
  <1>3. CASE r.term > term[p] \/ role[p] # "follower"
    <2>1. BecomeFollower({p}, r.term, n)
      BY <1>3 DEF HandleHeartbeat
    <2>2. term' = [term EXCEPT ![p] = r.term] /\ role' = [role EXCEPT ![p] = "follower"]
      BY <1>2, <2>1 DEF BecomeFollower
    <2>3. hint' = [hint EXCEPT ![p] = n] /\ silence' = [silence EXCEPT ![p] = 0]
      BY <1>2, <2>1 DEF BecomeFollower
    <2>4. lease' = [lease EXCEPT ![p] = Invalid]
      BY <1>2, <2>1 DEF BecomeFollower
    <2>5. term[p] <= r.term
      BY <1>1
    <2> QED
      BY <2>2, <2>3, <2>4, <2>5
  <1>4. CASE ~(r.term > term[p] \/ role[p] # "follower")
    <2>1. /\ hint' = [hint EXCEPT ![p] = n] /\ silence' = [silence EXCEPT ![p] = 0]
          /\ UNCHANGED <<term, role, lease>>
      BY <1>4 DEF HandleHeartbeat
    <2>2. r.term = term[p] /\ role[p] = "follower"
      BY <1>1, <1>4
    <2> QED
      BY <1>1, <1>2, <2>1, <2>2
  <1> QED
    BY <1>3, <1>4

LEMMA InvHeartbeatAccepted ==
    ASSUME LeaseReadInv, NEW n \in Nodes, NEW t \in Threads, NEW p \in Nodes, HandleHeartbeat(n, t, p),
           ~(round[n][t].term < term[p])
    PROVE  LeaseReadInv'
  <1> DEFINE r == round[n][t] v == Answered(r, p, TRUE, r.term)
  <1>1. r # NoRound /\ p # n /\ r.answer[p] = "net" /\ round' = [round EXCEPT ![n][t] = v]
    BY DEF HandleHeartbeat, Pending
  <1>2. /\ r \in RoundState(n) /\ RoundInv(n, r, config.drift, term, silence, commit)
        /\ config.drift \in Nat /\ term \in [Nodes -> Nat] /\ silence \in [Nodes -> Nat] /\ commit \in [Nodes -> Nat]
        /\ role \in [Nodes -> {"follower", "candidate", "leader"}] /\ hint \in [Nodes -> Nodes \union {None}]
        /\ lease \in [Nodes -> [left: Nat, sound: BOOLEAN]] /\ log \in [Nodes -> Nat] /\ applied \in [Nodes -> Nat]
        /\ own \in [Nodes -> BOOLEAN] /\ acked \in Nat
    BY <1>1 DEF LeaseReadInv, ServerTypes, RoundsInv, ConfigInv
  <1>3. /\ term' = [term EXCEPT ![p] = r.term] /\ term[p] <= r.term
        /\ role' = [role EXCEPT ![p] = "follower"] /\ hint' = [hint EXCEPT ![p] = n]
        /\ silence' = [silence EXCEPT ![p] = 0]
        /\ lease' = [lease EXCEPT ![p] = Invalid] \/ (lease' = lease /\ term' = term)
    BY HeartbeatFacts
  <1>4. /\ config' = config /\ log' = log /\ own' = own /\ acked' = acked
        /\ commit' = [commit EXCEPT ![p] = Max({commit[p], Min({r.commit, log[p]})})]
        /\ applied' = [applied EXCEPT ![p] = commit'[p]]
    BY DEF HandleHeartbeat
  <1> HIDE DEF r, v
  <1>5. r.term \in Nat /\ r.commit \in Nat /\ r.term <= term[n] /\ r.term <= r.high /\ r.commit <= commit[n]
    BY <1>2 DEF RoundState, RoundInv
  <1>6. \A q \in Nodes : applied[q] <= commit[q] /\ commit[q] <= log[q]
    BY DEF LeaseReadInv, DataInv
  <1>7. /\ commit' \in [Nodes -> Nat] /\ applied' \in [Nodes -> Nat]
        /\ \A q \in Nodes : /\ commit[q] <= commit'[q] /\ commit'[q] <= log[q] /\ applied'[q] <= commit'[q]
                            /\ \E m \in Nodes : commit'[q] <= commit[m]
    <2> DEFINE lo == Min({r.commit, log[p]}) c == Max({commit[p], lo})
    <2>1. lo \in Nat /\ lo <= r.commit /\ lo <= log[p]
      BY <1>2, <1>5, PairMin, SMTT(30)
    <2> HIDE DEF lo
    <2>2. c \in Nat /\ commit[p] <= c /\ c <= log[p] /\ (c = commit[p] \/ c <= commit[n])
      <3>1. commit[p] \in Nat /\ log[p] \in Nat /\ commit[p] <= log[p] /\ commit[n] \in Nat
        BY <1>2, <1>6
      <3>2. c = IF commit[p] >= lo THEN commit[p] ELSE lo
        BY <2>1, <3>1, PairMax
      <3> QED
        BY <1>5, <2>1, <3>1, <3>2
    <2>3. commit' = [commit EXCEPT ![p] = c]
      BY <1>4 DEF lo
    <2> HIDE DEF c
    <2>4. commit'[p] = c /\ commit' \in [Nodes -> Nat] /\ applied' = [applied EXCEPT ![p] = c]
      <3>1. commit \in [Nodes -> Nat] /\ c \in Nat
        BY <1>2, <2>2
      <3>2. commit'[p] = c /\ commit' \in [Nodes -> Nat]
        BY <2>3, <3>1
      <3>3. applied' = [applied EXCEPT ![p] = commit'[p]]
        BY <1>4
      <3> QED
        BY <3>2, <3>3
    <2>5. applied' \in [Nodes -> Nat]
      BY <1>2, <2>2, <2>4
    <2>6. ASSUME NEW q \in Nodes
          PROVE  /\ commit[q] <= commit'[q] /\ commit'[q] <= log[q] /\ applied'[q] <= commit'[q]
                 /\ \E m \in Nodes : commit'[q] <= commit[m]
      <3>1. CASE q = p
        BY <1>2, <2>2, <2>4, <3>1
      <3>2. CASE q # p
        BY <1>2, <1>6, <2>3, <2>4, <3>2
      <3> QED
        BY <3>1, <3>2
    <2> QED
      BY <2>4, <2>5, <2>6
  <1>8. Gentle
    <2>1. term' \in [Nodes -> Nat] /\ silence' \in [Nodes -> Nat]
      BY <1>2, <1>3, <1>5
    <2>2. TermsRise
      BY <1>2, <1>3, <1>5 DEF TermsRise
    <2>3. TermsKnown
      <3> SUFFICES ASSUME NEW q \in Nodes PROVE \E m \in Nodes : term'[q] <= term[m]
        BY DEF TermsKnown
      <3>1. CASE q = p
        BY <1>2, <1>3, <1>5, <3>1
      <3>2. CASE q # p
        BY <1>2, <1>3, <3>2
      <3> QED
        BY <3>1, <3>2
    <2>4. \A q \in Nodes : silence'[q] <= silence[q]
      BY <1>2, <1>3
    <2> QED
      BY <1>4, <1>7, <2>1, <2>2, <2>3, <2>4 DEF Gentle
  <1>9. v \in RoundState(n) /\ v.term = r.term /\ RoundInv(n, v, config.drift, term', silence', commit')
    <2>1. AnswerIs(n, p, IF due[p] THEN "due" ELSE "ok", r, r.high, v)
      BY <1>1, <1>2, <1>5, ConfirmedAnswer DEF v
    <2>2. /\ v \in RoundState(n) /\ v.term = r.term /\ v.commit = r.commit /\ v.age = r.age /\ v.high = r.high
          /\ \A q \in Nodes \ {n} : v.answer[q] = "ok" => q = p \/ r.answer[q] = "ok"
      BY <2>1 DEF AnswerIs
    <2>3. RoundInv(n, r, config'.drift, term', silence', commit')
      BY <1>1, <1>8, OtherRound DEF r
    <2>4. term'[p] <= r.term /\ silence'[p] = 0 /\ term' \in [Nodes -> Nat] /\ silence' \in [Nodes -> Nat]
      BY <1>2, <1>3, <1>5, <1>8 DEF Gentle
    <2> DEFINE tm2 == term' sil2 == silence' com2 == commit' d == config'.drift
    <2>5. /\ RoundInv(n, r, d, tm2, sil2, com2) /\ tm2[p] <= r.term /\ sil2[p] = 0
          /\ tm2 \in [Nodes -> Nat] /\ sil2 \in [Nodes -> Nat]
      BY <2>3, <2>4
    <2> HIDE DEF tm2, sil2, com2, d
    <2>6. RoundInv(n, v, d, tm2, sil2, com2)
      <3>1. r \in RoundState(n)
        BY <1>2
      <3> QED
        BY <2>2, <2>5, <3>1, ConfirmedRound, SMTT(30)
    <2> QED
      BY <1>4, <2>2, <2>6 DEF d, tm2, sil2, com2
  <1>10. /\ RoundsTyped' /\ RoundsInv' /\ round'[n][t] = v
         /\ \A m \in Nodes, u \in Threads : <<m, u>> # <<n, t>> => round'[m][u] = round[m][u]
    BY <1>1, <1>8, <1>9, RoundChanged
  <1>11. \A m \in Nodes, u \in Threads :
           round'[m][u] # NoRound => round[m][u] # NoRound /\ round'[m][u].term = round[m][u].term
    BY <1>1, <1>9, <1>10 DEF r
  <1>12. /\ role' \in [Nodes -> {"follower", "candidate", "leader"}] /\ hint' \in [Nodes -> Nodes \union {None}]
         /\ lease' \in [Nodes -> [left: Nat, sound: BOOLEAN]]
    <2>1. Invalid \in [left: Nat, sound: BOOLEAN]
      BY DEF Invalid
    <2>2. lease' \in [Nodes -> [left: Nat, sound: BOOLEAN]]
      BY <1>2, <1>3, <2>1
    <2> QED
      BY <1>2, <1>3, <2>2
  <1>13. \A m \in Nodes : role'[m] = "leader" => role[m] = "leader" /\ term'[m] = term[m] /\ silence'[m] = silence[m]
    BY <1>2, <1>3
  <1>14. \A m \in Nodes : Covered(m)' => Covered(m) /\ term'[m] = term[m] /\ lease'[m].left = lease[m].left
    <2> SUFFICES ASSUME NEW m \in Nodes, Covered(m)'
                 PROVE  Covered(m) /\ term'[m] = term[m] /\ lease'[m].left = lease[m].left
      OBVIOUS
    <2>1. CASE lease' = [lease EXCEPT ![p] = Invalid]
      BY <1>2, <1>3, <2>1 DEF Covered, Invalid
    <2>2. CASE lease' = lease /\ term' = term
      BY <2>2 DEF Covered
    <2> QED
      BY <1>3, <2>1, <2>2
  <1>15. DataInv'
    <2>1. NoNewClaims
      <3> SUFFICES ASSUME NEW m \in Nodes, NEW T \in Nat, Claim(m, T)' PROVE Claim(m, T)
        BY DEF NoNewClaims
      <3> QED
        BY <1>11, <1>13, <1>14 DEF Claim
    <2>2. ServerTypes'
      BY <1>2, <1>4, <1>7, <1>8, <1>10, <1>12 DEF ServerTypes, RoundsTyped, Gentle
    <2>3. \E q \in Nodes : acked' <= commit[q]
      BY <1>4 DEF LeaseReadInv, DataInv
    <2> QED
      BY <1>4, <1>7, <1>8, <2>1, <2>2, <2>3, DataKept DEF Gentle
  <1> QED
    BY <1>2, <1>4, <1>7, <1>8, <1>10, <1>11, <1>12, <1>13, <1>14, <1>15, InvFollow

(***************************************************************************)
(* The end of a round.                                                     *)
(***************************************************************************)

\* A round that goes leaves the other rounds as they are.
LEMMA RoundGone ==
    ASSUME LeaseReadInv, Gentle, NEW n \in Nodes, NEW t \in Threads, round' = [round EXCEPT ![n][t] = NoRound]
    PROVE  /\ RoundsTyped' /\ RoundsInv'
           /\ \A m \in Nodes, u \in Threads : round'[m][u] # NoRound =>
                 round[m][u] # NoRound /\ round'[m][u].term = round[m][u].term
  <1>1. /\ RoundsTyped' /\ RoundsInv' /\ round'[n][t] = NoRound
        /\ \A m \in Nodes, u \in Threads : <<m, u>> # <<n, t>> => round'[m][u] = round[m][u]
    <2> DEFINE R == round X == round'
    <2>1. R = [m \in Nodes |-> [u \in Threads |-> R[m][u]]] /\ X = [R EXCEPT ![n][t] = NoRound]
      BY DEF LeaseReadInv, ServerTypes
    <2> HIDE DEF R, X
    <2>2. /\ X = [m \in Nodes |-> [u \in Threads |-> X[m][u]]]
          /\ X[n][t] = NoRound
          /\ \A m \in Nodes, u \in Threads : <<m, u>> # <<n, t>> => X[m][u] = R[m][u]
      BY <2>1
    <2>3. /\ round' = [m \in Nodes |-> [u \in Threads |-> round'[m][u]]] /\ round'[n][t] = NoRound
          /\ \A m \in Nodes, u \in Threads : <<m, u>> # <<n, t>> => round'[m][u] = round[m][u]
      BY <2>2 DEF R, X
    <2>4. RoundsTyped'
      BY <2>3 DEF RoundsTyped, LeaseReadInv, ServerTypes
    <2>5. ASSUME NEW m \in Nodes, NEW u \in Threads, round'[m][u] # NoRound
          PROVE  RoundInv(m, round'[m][u], config'.drift, term', silence', commit')
      BY <2>3, <2>5, OtherRound
    <2> QED
      BY <2>3, <2>4, <2>5 DEF RoundsInv
  <1>2. ASSUME NEW m \in Nodes, NEW u \in Threads, round'[m][u] # NoRound
        PROVE  round[m][u] # NoRound /\ round'[m][u].term = round[m][u].term
    BY <1>1, <1>2
  <1> QED
    BY <1>1, <1>2

\* It has met a higher term: its node steps down.
LEMMA InvEndStepDown ==
    ASSUME LeaseReadInv, NEW n \in Nodes, NEW t \in Threads, EndRound(n, t),
           round[n][t].high > round[n][t].term, round[n][t].high >= term[n]
    PROVE  LeaseReadInv'
  <1> DEFINE r == round[n][t] h == r.high
  <1>1. r # NoRound /\ round' = [round EXCEPT ![n][t] = NoRound] /\ UNCHANGED <<config, dataVars>>
        /\ BecomeFollower({n}, h, None)
    BY DEF EndRound
  <1>2. /\ r \in RoundState(n) /\ RoundInv(n, r, config.drift, term, silence, commit)
        /\ term \in [Nodes -> Nat] /\ silence \in [Nodes -> Nat] /\ commit \in [Nodes -> Nat]
        /\ role \in [Nodes -> {"follower", "candidate", "leader"}] /\ hint \in [Nodes -> Nodes \union {None}]
        /\ lease \in [Nodes -> [left: Nat, sound: BOOLEAN]] /\ log \in [Nodes -> Nat] /\ applied \in [Nodes -> Nat]
        /\ own \in [Nodes -> BOOLEAN] /\ acked \in Nat
    BY <1>1 DEF LeaseReadInv, ServerTypes, RoundsInv
  <1>3. h \in Nat /\ h >= term[n] /\ \E p \in Nodes : h <= term[p]
    BY <1>2 DEF RoundState, RoundInv
  <1> HIDE DEF h
  <1>4. term' = [term EXCEPT ![n] = h] /\ role' = [role EXCEPT ![n] = "follower"]
    BY <1>1, <1>2 DEF BecomeFollower
  <1>5. hint' = [hint EXCEPT ![n] = None] /\ silence' = [silence EXCEPT ![n] = 0]
    BY <1>1, <1>2 DEF BecomeFollower
  <1>6. lease' = [lease EXCEPT ![n] = Invalid]
    BY <1>1, <1>2 DEF BecomeFollower
  <1>7. commit' = commit /\ log' = log /\ applied' = applied /\ own' = own /\ acked' = acked /\ config' = config
    BY <1>1 DEF dataVars
  <1>8. Gentle
    <2>1. term' \in [Nodes -> Nat] /\ silence' \in [Nodes -> Nat] /\ commit' \in [Nodes -> Nat]
      BY <1>2, <1>3, <1>4, <1>5, <1>7
    <2>2. TermsRise
      BY <1>2, <1>3, <1>4 DEF TermsRise
    <2>3. TermsKnown
      BY <1>2, <1>3, <1>4 DEF TermsKnown
    <2>4. \A q \in Nodes : silence'[q] <= silence[q] /\ commit[q] <= commit'[q]
      BY <1>2, <1>5, <1>7
    <2> QED
      BY <1>7, <2>1, <2>2, <2>3, <2>4 DEF Gentle
  <1>9. /\ RoundsTyped' /\ RoundsInv'
        /\ \A m \in Nodes, u \in Threads : round'[m][u] # NoRound =>
              round[m][u] # NoRound /\ round'[m][u].term = round[m][u].term
    BY <1>1, <1>8, RoundGone
  <1>10. Invalid \in [left: Nat, sound: BOOLEAN] /\ Invalid.left = 0
    BY DEF Invalid
  <1>11. /\ role' \in [Nodes -> {"follower", "candidate", "leader"}] /\ hint' \in [Nodes -> Nodes \union {None}]
         /\ lease' \in [Nodes -> [left: Nat, sound: BOOLEAN]]
    BY <1>2, <1>4, <1>5, <1>6, <1>10
  <1>12. \A m \in Nodes : role'[m] = "leader" => role[m] = "leader" /\ term'[m] = term[m] /\ silence'[m] = silence[m]
    BY <1>2, <1>4, <1>5
  <1>13. \A m \in Nodes : Covered(m)' => Covered(m) /\ term'[m] = term[m] /\ lease'[m].left = lease[m].left
    BY <1>2, <1>4, <1>6, <1>10 DEF Covered
  <1> QED
    BY <1>1, <1>2, <1>7, <1>8, <1>9, <1>11, <1>12, <1>13, InvFollow

\* It ends without an effect on its node.
LEMMA InvEndQuiet ==
    ASSUME LeaseReadInv, NEW n \in Nodes, NEW t \in Threads, round' = [round EXCEPT ![n][t] = NoRound],
           UNCHANGED <<config, nodeVars, dataVars>>
    PROVE  LeaseReadInv'
  <1>1. config' = config /\ term' = term /\ silence' = silence /\ commit' = commit
    BY DEF nodeVars, dataVars
  <1>2. Gentle
    BY <1>1, StillGentle
  <1>3. /\ RoundsTyped' /\ RoundsInv'
        /\ \A m \in Nodes, u \in Threads : round'[m][u] # NoRound =>
              round[m][u] # NoRound /\ round'[m][u].term = round[m][u].term
    BY <1>2, RoundGone
  <1>4. \A m \in Nodes, u \in Threads : round'[m][u] # NoRound => Claim(m, round'[m][u].term)
    BY <1>3 DEF Claim
  <1> QED
    BY <1>3, <1>4, RoundOnly DEF nodeVars

\* A sound round: every node has heard from the leader within the drift bound, and none is in
\* a later term.
LEMMA SoundRound ==
    ASSUME LeaseReadInv, NEW n \in Nodes, NEW t \in Threads, round[n][t] # NoRound, Sound(n, round[n][t])
    PROVE  /\ round[n][t].term = term[n]
           /\ \A p \in Nodes : term[p] <= term[n] /\ silence[p] <= config.drift
  <1> DEFINE r == round[n][t]
  <1>1. /\ r \in RoundState(n) /\ RoundInv(n, r, config.drift, term, silence, commit)
        /\ term \in [Nodes -> Nat] /\ silence \in [Nodes -> Nat] /\ config.drift \in Nat
    BY DEF LeaseReadInv, ServerTypes, RoundsInv, ConfigInv
  <1>2. r.age <= config.drift /\ \A p \in Nodes \ {n} : r.answer[p] = "ok"
    BY DEF Sound
  <1> HIDE DEF r
  <1>3. r.term \in Nat /\ r.age \in Nat /\ r.term <= term[n] /\ RoundInTime(n, r, term, silence)
    BY <1>1, <1>2 DEF RoundState, RoundInv
  <1>4. \A p \in Nodes : silence[p] <= r.age /\ ~(term[p] > r.term)
    BY <1>2, <1>3 DEF RoundInTime
  <1>5. r.term = term[n]
    BY <1>1, <1>3, <1>4
  <1>6. \A p \in Nodes : term[p] <= term[n] /\ silence[p] <= config.drift
    BY <1>1, <1>2, <1>3, <1>4, <1>5
  <1> QED
    BY <1>5, <1>6 DEF r

\* It renews the lease.
LEMMA InvEndRenew ==
    ASSUME LeaseReadInv, NEW n \in Nodes, NEW t \in Threads, round[n][t] # NoRound,
           round' = [round EXCEPT ![n][t] = NoRound],
           lease' = [lease EXCEPT ![n] = Renew(Sound(n, round[n][t]))],
           UNCHANGED <<config, term, role, hint, silence, dataVars>>
    PROVE  LeaseReadInv'
  <1>1. /\ config' = config /\ term' = term /\ silence' = silence /\ commit' = commit /\ role' = role
        /\ UNCHANGED dataVars
    BY DEF dataVars
  <1>2. Gentle
    BY <1>1, StillGentle
  <1>3. /\ RoundsTyped' /\ RoundsInv'
        /\ \A m \in Nodes, u \in Threads : round'[m][u] # NoRound =>
              round[m][u] # NoRound /\ round'[m][u].term = round[m][u].term
    BY <1>2, RoundGone
  <1> DEFINE s == Sound(n, round[n][t])
  <1>4. s \in BOOLEAN
    BY DEF Sound
  <1>5. /\ config.lease \in Nat /\ config.lease > 0 /\ config.drift \in Nat
        /\ config.election_min = config.lease + config.drift
        /\ term \in [Nodes -> Nat] /\ silence \in [Nodes -> Nat] /\ lease \in [Nodes -> [left: Nat, sound: BOOLEAN]]
    BY DEF LeaseReadInv, ConfigInv, ServerTypes
  <1>6. Renew(s) = [left |-> config.lease, sound |-> s]
    BY <1>5 DEF Renew
  <1>7. /\ lease' \in [Nodes -> [left: Nat, sound: BOOLEAN]]
        /\ lease'[n].left = config.lease /\ (lease'[n].sound <=> s)
        /\ \A m \in Nodes : m # n => lease'[m] = lease[m]
    <2> DEFINE w == [left |-> config.lease, sound |-> s]
    <2>1. w \in [left: Nat, sound: BOOLEAN] /\ w.left = config.lease /\ (w.sound <=> s)
      BY <1>4, <1>5
    <2>2. lease' = [lease EXCEPT ![n] = w]
      BY <1>6
    <2> HIDE DEF w, s
    <2> QED
      BY <1>5, <2>1, <2>2
  <1>8. Covered(n)' => s
    BY <1>7 DEF Covered
  <1>9. s => /\ round[n][t].term = term[n]
             /\ \A p \in Nodes : term[p] <= term[n] /\ silence[p] <= config.drift
    BY SoundRound
  <1> HIDE DEF s
  <1>10. LeaseInv'
    <2> SUFFICES ASSUME NEW m \in Nodes, Covered(m)', NEW p \in Nodes
                 PROVE  term[p] <= term[m] /\ silence[p] + lease'[m].left <= config.election_min
      BY <1>1 DEF LeaseInv
    <2>1. CASE m = n
      <3>1. term[p] <= term[n] /\ silence[p] <= config.drift
        BY <1>8, <1>9, <2>1
      <3> DEFINE a == silence[p] l == config.lease d == config.drift e == config.election_min
      <3>2. a \in Nat /\ l \in Nat /\ d \in Nat /\ e = l + d /\ a <= d
        BY <1>5, <3>1
      <3> HIDE DEF a, l, d, e
      <3>3. a + l <= e
        BY <3>2
      <3> QED
        BY <1>7, <2>1, <3>1, <3>3 DEF a, l, e
    <2>2. CASE m # n
      <3>1. Covered(m) /\ lease'[m] = lease[m]
        BY <1>7, <2>2 DEF Covered
      <3> QED
        BY <3>1 DEF LeaseReadInv, LeaseInv
    <2> QED
      BY <2>1, <2>2
  <1>11. NoNewClaims
    <2> SUFFICES ASSUME NEW m \in Nodes, NEW T \in Nat, Claim(m, T)' PROVE Claim(m, T)
      BY DEF NoNewClaims
    <2>1. CASE role[m] = "leader" /\ T = term[m]
      BY <2>1 DEF Claim
    <2>2. CASE Covered(m)' /\ T = term[m]
      <3>1. CASE m = n
        BY <1>8, <1>9, <2>2, <3>1 DEF Claim
      <3>2. CASE m # n
        BY <1>7, <2>2, <3>2 DEF Claim, Covered
      <3> QED
        BY <3>1, <3>2
    <2>3. CASE \E u \in Threads : round'[m][u] # NoRound /\ round'[m][u].term = T
      BY <1>3, <2>3 DEF Claim
    <2> QED
      BY <1>1, <2>1, <2>2, <2>3 DEF Claim
  <1>12. ServerTypes'
    BY <1>1, <1>3, <1>7 DEF LeaseReadInv, ServerTypes, RoundsTyped, dataVars
  <1>13. LeadersQuiet' /\ TermsRise
    BY <1>1, <1>2 DEF LeaseReadInv, LeadersQuiet, Gentle
  <1> QED
    BY <1>1, <1>3, <1>10, <1>11, <1>12, <1>13, QuietStep

LEMMA InvEndRound ==
    ASSUME LeaseReadInv, NEW n \in Nodes, NEW t \in Threads, EndRound(n, t)
    PROVE  LeaseReadInv'
  <1> DEFINE r == round[n][t]
  <1>1. r # NoRound /\ round' = [round EXCEPT ![n][t] = NoRound] /\ UNCHANGED <<config, dataVars>>
    BY DEF EndRound
  <1>2. CASE r.high > r.term /\ r.high >= term[n]
    BY <1>2, InvEndStepDown
  <1>3. CASE r.high > r.term /\ ~(r.high >= term[n])
    <2>1. UNCHANGED nodeVars
      BY <1>3 DEF EndRound
    <2> QED
      BY <1>1, <2>1, InvEndQuiet
  <1>4. CASE ~(r.high > r.term)
    <2>1. UNCHANGED <<term, role, hint, silence, due>>
          /\ (lease' = lease \/ lease' = [lease EXCEPT ![n] = Renew(Sound(n, r))])
      BY <1>4 DEF EndRound
    <2>2. CASE lease' = lease
      BY <1>1, <2>1, <2>2, InvEndQuiet DEF nodeVars
    <2>3. CASE lease' = [lease EXCEPT ![n] = Renew(Sound(n, r))]
      BY <1>1, <2>1, <2>3, InvEndRenew
    <2> QED
      BY <2>1, <2>2, <2>3
  <1> QED
    BY <1>2, <1>3, <1>4

(***************************************************************************)
(* The apply thread.                                                       *)
(***************************************************************************)

LEMMA InvApply ==
    ASSUME LeaseReadInv, NEW n \in Nodes, Apply(n)
    PROVE  LeaseReadInv'
  <1>1. /\ UNCHANGED <<config, term, role, hint, silence, lease, round, log, commit, own>>
        /\ applied' = [applied EXCEPT ![n] = commit[n]] /\ acked' = Max({acked, commit[n]})
    BY DEF Apply, nodeVars
  <1>2. /\ commit \in [Nodes -> Nat] /\ applied \in [Nodes -> Nat] /\ acked \in Nat /\ commit[n] \in Nat
        /\ log \in [Nodes -> Nat]
    BY DEF LeaseReadInv, ServerTypes
  <1>3. acked' = IF acked >= commit[n] THEN acked ELSE commit[n]
    BY <1>1, <1>2, PairMax
  <1>4. Gentle
    BY <1>1, StillGentle
  <1>5. RoundsTyped' /\ RoundsInv'
    BY <1>1, <1>4, RoundsSame
  <1>6. ServerTypes'
    <2>1. applied' \in [Nodes -> Nat] /\ acked' \in Nat
      BY <1>1, <1>2, <1>3
    <2> QED
      BY <1>1, <2>1 DEF LeaseReadInv, ServerTypes
  <1>7. LeadersQuiet' /\ LeaseInv' /\ NoNewClaims /\ TermsRise
    <2>1. LeadersQuiet' /\ LeaseInv' /\ TermsRise
      BY <1>1, <1>4 DEF LeaseReadInv, LeadersQuiet, LeaseInv, Covered, Gentle
    <2>2. NoNewClaims
      BY <1>1 DEF NoNewClaims, Claim, Covered
    <2> QED
      BY <2>1, <2>2
  <1>8. ConfigInv' /\ ClaimsInv'
    BY <1>1, <1>6, <1>7, ConfigKept, ClaimsKept DEF LeaseReadInv
  <1>9. \A p \in Nodes : /\ commit[p] <= commit'[p] /\ commit'[p] <= log[p] /\ applied'[p] <= commit'[p]
                         /\ \E q \in Nodes : commit'[p] <= commit[q]
    BY <1>1, <1>2 DEF LeaseReadInv, DataInv
  <1>10. \E p \in Nodes : acked' <= commit[p]
    BY <1>2, <1>3 DEF LeaseReadInv, DataInv
  <1>11. DataInv'
    BY <1>1, <1>6, <1>7, <1>9, <1>10, DataKept
  <1> QED
    BY <1>5, <1>6, <1>7, <1>8, <1>11 DEF LeaseReadInv

(***************************************************************************)
(* An entry is stored on a quorum and committed.                           *)
(***************************************************************************)

LEMMA ClaimBound ==
    ASSUME LeaseReadInv, NEW n \in Nodes, NEW T \in Nat, Claim(n, T)
    PROVE  T <= term[n]
  <1>1. CASE \E t \in Threads : round[n][t] # NoRound /\ round[n][t].term = T
    <2>1. PICK t \in Threads : round[n][t] # NoRound /\ round[n][t].term = T
      BY <1>1
    <2>2. RoundInv(n, round[n][t], config.drift, term, silence, commit)
      BY <2>1 DEF LeaseReadInv, RoundsInv
    <2> QED
      BY <2>1, <2>2 DEF RoundInv
  <1> QED
    BY <1>1 DEF Claim, LeaseReadInv, ServerTypes

LEMMA InvReplicate ==
    ASSUME LeaseReadInv, NEW l \in Nodes, NEW S \in SUBSET (Nodes \ {l}), NEW k \in {0, 1}, Replicate(l, S, k)
    PROVE  LeaseReadInv'
  <1> DEFINE L == log[l] + k
  <1>1. /\ term \in [Nodes -> Nat] /\ silence \in [Nodes -> Nat] /\ commit \in [Nodes -> Nat]
        /\ role \in [Nodes -> {"follower", "candidate", "leader"}] /\ hint \in [Nodes -> Nodes \union {None}]
        /\ lease \in [Nodes -> [left: Nat, sound: BOOLEAN]] /\ log \in [Nodes -> Nat] /\ applied \in [Nodes -> Nat]
        /\ own \in [Nodes -> BOOLEAN] /\ acked \in Nat
    BY DEF LeaseReadInv, ServerTypes
  <1>2. /\ role[l] = "leader" /\ Cardinality(S) + 1 >= QuorumSize /\ \A p \in S : term[p] <= term[l]
        /\ l \notin S /\ S \subseteq Nodes
    BY DEF Replicate
  <1>3. L \in Nat /\ log[l] <= L
    BY <1>1
  <1>4. /\ term' = [p \in Nodes |-> IF p \in S THEN term[l] ELSE term[p]]
        /\ role' = [p \in Nodes |-> IF p \in S THEN "follower" ELSE role[p]]
        /\ hint' = [p \in Nodes |-> IF p \in S THEN l ELSE hint[p]]
        /\ silence' = [p \in Nodes |-> IF p \in S THEN 0 ELSE silence[p]]
        /\ lease' = [p \in Nodes |-> IF p \in {q \in S : term[q] < term[l] \/ role[q] # "follower"}
                                     THEN Invalid ELSE lease[p]]
    BY DEF Replicate
  <1>5. /\ log' = [p \in Nodes |-> IF p \in S \union {l} THEN L ELSE log[p]]
        /\ commit' = [commit EXCEPT ![l] = L] /\ own' = [own EXCEPT ![l] = TRUE]
        /\ UNCHANGED <<config, round, applied, acked>>
    BY DEF Replicate
  <1> HIDE DEF L
  <1>6. \A p \in Nodes : applied[p] <= commit[p] /\ commit[p] <= log[p]
    BY DEF LeaseReadInv, DataInv
  <1>7. Gentle
    <2>1. term' \in [Nodes -> Nat] /\ silence' \in [Nodes -> Nat] /\ commit' \in [Nodes -> Nat]
      BY <1>1, <1>3, <1>4, <1>5
    <2>2. TermsRise
      BY <1>1, <1>2, <1>4 DEF TermsRise
    <2>3. TermsKnown
      BY <1>1, <1>4 DEF TermsKnown
    <2>4. \A q \in Nodes : silence'[q] <= silence[q]
      BY <1>1, <1>4
    <2>5. \A q \in Nodes : commit[q] <= commit'[q]
      BY <1>1, <1>3, <1>5, <1>6
    <2> QED
      BY <1>5, <2>1, <2>2, <2>3, <2>4, <2>5 DEF Gentle
  <1>8. RoundsTyped' /\ RoundsInv'
    BY <1>5, <1>7, RoundsSame
  <1>9. Invalid \in [left: Nat, sound: BOOLEAN] /\ Invalid.left = 0
    BY DEF Invalid
  <1>10. /\ role' \in [Nodes -> {"follower", "candidate", "leader"}] /\ hint' \in [Nodes -> Nodes \union {None}]
         /\ lease' \in [Nodes -> [left: Nat, sound: BOOLEAN]]
    BY <1>1, <1>4, <1>9
  <1>11. log' \in [Nodes -> Nat] /\ own' \in [Nodes -> BOOLEAN] /\ applied' \in [Nodes -> Nat] /\ acked' \in Nat
    BY <1>1, <1>3, <1>5
  <1>12. \A m \in Nodes : role'[m] = "leader" => role[m] = "leader" /\ term'[m] = term[m] /\ silence'[m] = silence[m]
    BY <1>4
  <1>13. \A m \in Nodes : Covered(m)' => Covered(m) /\ term'[m] = term[m] /\ lease'[m].left = lease[m].left
    <2> SUFFICES ASSUME NEW m \in Nodes, Covered(m)'
                 PROVE  Covered(m) /\ term'[m] = term[m] /\ lease'[m].left = lease[m].left
      OBVIOUS
    <2>1. m \notin {q \in S : term[q] < term[l] \/ role[q] # "follower"}
      BY <1>4, <1>9 DEF Covered
    <2>2. lease'[m] = lease[m]
      BY <1>4, <2>1
    <2>3. term'[m] = term[m]
      <3>1. CASE m \in S
        <4>1. term[m] <= term[l] /\ ~(term[m] < term[l]) /\ term[m] \in Nat /\ term[l] \in Nat
          BY <1>1, <1>2, <2>1, <3>1
        <4>2. term[m] = term[l]
          BY <4>1
        <4> QED
          BY <1>4, <3>1, <4>2
      <3>2. CASE m \notin S
        BY <1>4, <3>2
      <3> QED
        BY <3>1, <3>2
    <2> QED
      BY <2>2, <2>3 DEF Covered
  <1>14. NoNewClaims
    <2> SUFFICES ASSUME NEW m \in Nodes, NEW T \in Nat, Claim(m, T)' PROVE Claim(m, T)
      BY DEF NoNewClaims
    <2> QED
      BY <1>5, <1>12, <1>13 DEF Claim
  <1>15. ServerTypes'
    BY <1>7, <1>8, <1>10, <1>11 DEF ServerTypes, RoundsTyped, Gentle
  <1> DEFINE Q == S \union {l}
  <1>16. IsQuorum(Q) /\ Q \in SUBSET Nodes
    BY <1>2, QuorumWith
  <1>17. \A q \in Q : term[q] <= term[l] /\ term'[q] = term[l]
    BY <1>1, <1>2, <1>4
  <1>18. \A p \in Nodes : commit[p] <= log[l]
    <2>1. Claim(l, term[l]) /\ term[l] \in Nat
      BY <1>1, <1>2 DEF Claim
    <2>2. Q \subseteq Behind(term, term[l]) /\ Behind(term, term[l]) \in SUBSET Nodes
      BY <1>16, <1>17 DEF Behind
    <2>3. IsQuorum(Behind(term, term[l]))
      BY <1>16, <2>2, LargerQuorum
    <2> QED
      BY <2>1, <2>3 DEF LeaseReadInv, DataInv
  <1>19. \A p \in Nodes : commit[p] <= L /\ commit'[p] <= L /\ commit[p] \in Nat
    BY <1>1, <1>3, <1>5, <1>18
  <1>20. ASSUME NEW n \in Nodes
         PROVE  applied'[n] <= commit'[n] /\ commit'[n] <= log'[n] /\ IsQuorum(Stored(log', commit'[n]))
    <2>1. applied'[n] <= commit'[n]
      BY <1>1, <1>3, <1>5, <1>6, <1>7 DEF Gentle
    <2>2. commit'[n] <= log'[n]
      BY <1>1, <1>3, <1>5, <1>6, <1>19
    <2>3. CASE n = l
      <3>1. Q \subseteq Stored(log', L) /\ Stored(log', L) \in SUBSET Nodes /\ commit'[n] = L
        BY <1>1, <1>3, <1>5, <1>16, <2>3 DEF Stored
      <3>2. IsQuorum(Stored(log', L))
        BY <1>16, <3>1, LargerQuorum
      <3> QED
        BY <2>1, <2>2, <3>1, <3>2
    <2>4. CASE n # l
      <3>1. commit'[n] = commit[n] /\ IsQuorum(Stored(log, commit[n]))
        BY <1>1, <1>5, <2>4 DEF LeaseReadInv, DataInv
      <3>2. Stored(log, commit[n]) \subseteq Stored(log', commit[n]) /\ Stored(log', commit[n]) \in SUBSET Nodes
        BY <1>3, <1>5, <1>19 DEF Stored
      <3>3. IsQuorum(Stored(log', commit[n]))
        BY <3>1, <3>2, LargerQuorum
      <3> QED
        BY <2>1, <2>2, <3>1, <3>3
    <2> QED
      BY <2>3, <2>4
  <1>21. ASSUME NEW n \in Nodes, NEW T \in Nat, Claim(n, T)', T = term'[n]
         PROVE  /\ own'[n] => commit'[n] = log'[n]
                /\ IsQuorum(Behind(term', T)) => \A p \in Nodes : commit'[p] <= log'[n]
    <2>1. term[n] = T /\ Claim(n, T)
      BY <1>7, <1>14, <1>15, <1>21, OldTermClaimed DEF Gentle
    <2>2. CASE n = l
      BY <1>1, <1>5, <1>19, <2>2
    <2>3. CASE n # l
      <3>1. Claim(l, term[l]) /\ term[l] \in Nat
        BY <1>1, <1>2 DEF Claim
      <3>2. T # term[l]
        BY <2>1, <2>3, <3>1 DEF LeaseReadInv, ClaimsInv
      <3>3. n \notin Q
        BY <1>17, <1>21, <3>2
      <3>4. log'[n] = log[n] /\ commit'[n] = commit[n] /\ own'[n] = own[n]
        BY <1>1, <1>5, <2>3, <3>3
      <3>5. own[n] => commit[n] = log[n]
        BY <2>1 DEF LeaseReadInv, DataInv
      <3>6. ASSUME IsQuorum(Behind(term', T)) PROVE FALSE
        <4>1. Behind(term', T) \in SUBSET Nodes /\ Reached(term, T) \in SUBSET Nodes
          BY DEF Behind, Reached
        <4>2. PICK q \in Nodes : q \in Behind(term', T) /\ q \in Q
          BY <1>16, <3>6, <4>1, QuorumsMeet
        <4>3. term[l] < T
          BY <1>17, <3>1, <3>2, <4>2 DEF Behind
        <4>4. IsQuorum(Reached(term, T))
          BY <2>1 DEF LeaseReadInv, ClaimsInv
        <4>5. PICK m \in Nodes : m \in Reached(term, T) /\ m \in Q
          BY <1>16, <4>1, <4>4, QuorumsMeet
        <4>6. term[m] >= T /\ term[m] <= term[l] /\ term[m] \in Nat
          BY <1>1, <1>17, <4>5 DEF Reached
        <4> QED
          BY <3>1, <4>3, <4>6
      <3> QED
        BY <3>4, <3>5, <3>6
    <2> QED
      BY <2>2, <2>3
  <1>22. \E p \in Nodes : acked' <= commit'[p]
    <2>1. PICK p \in Nodes : acked <= commit[p]
      BY DEF LeaseReadInv, DataInv
    <2>2. commit[p] <= commit'[p] /\ commit'[p] \in Nat
      BY <1>7 DEF Gentle
    <2> QED
      BY <1>1, <1>5, <2>1, <2>2
  <1>23. DataInv'
    BY <1>20, <1>21, <1>22 DEF DataInv
  <1> QED
    BY <1>5, <1>7, <1>8, <1>10, <1>11, <1>12, <1>13, <1>23, InvFollow

(***************************************************************************)
(* A candidacy.                                                            *)
(***************************************************************************)

\* A candidate has heard of no leader for the whole election timeout: it has answered no
\* round that is in time, and does not run one.
LEMMA CampaignRound ==
    ASSUME NEW m \in Nodes, NEW r, r \in RoundState(m), NEW drift \in Nat, NEW n \in Nodes,
           NEW tm \in [Nodes -> Nat], NEW tm2 \in [Nodes -> Nat], NEW sil \in [Nodes -> Nat],
           NEW sil2 \in [Nodes -> Nat], NEW com, r.age <= drift => m # n /\ r.answer[n] # "ok", tm2[n] = tm[n] + 1,
           \A p \in Nodes : tm2[p] = tm[p] \/ tm2[p] = tm[n] + 1,
           \A p \in Nodes : tm[p] <= tm2[p] /\ sil2[p] <= sil[p],
           RoundInv(m, r, drift, tm, sil, com)
    PROVE  RoundInv(m, r, drift, tm2, sil2, com)
  <1>1. r.term \in Nat /\ r.high \in Nat /\ r.commit \in Nat /\ r.age \in Nat
    BY DEF RoundState
  <1>2. r.term <= tm2[m] /\ r.term <= r.high /\ r.commit <= com[m]
    BY <1>1 DEF RoundInv
  <1>3. r.high = r.term \/ \E p \in Nodes : r.high <= tm2[p]
    BY <1>1 DEF RoundInv
  <1>4. ASSUME r.age <= drift PROVE RoundInTime(m, r, tm2, sil2)
    <2>1. RoundInTime(m, r, tm, sil)
      BY <1>4 DEF RoundInv
    <2>2. sil2[m] <= r.age /\ \A p \in Nodes \ {m} : r.answer[p] = "ok" => sil2[p] <= r.age
      BY <1>1, <2>1 DEF RoundInTime
    <2>3. n # m /\ r.answer[n] # "ok"
      BY <1>4
    <2>4. ASSUME NEW p \in Nodes, tm2[p] > r.term
          PROVE  \E q \in Nodes \ {m} : r.answer[q] # "ok" /\ tm2[q] > r.term
      <3>1. CASE tm[n] + 1 > r.term
        BY <2>3, <3>1
      <3>2. CASE ~(tm[n] + 1 > r.term)
        <4>1. tm[p] > r.term
          BY <2>4, <3>2
        <4>2. PICK q \in Nodes \ {m} : r.answer[q] # "ok" /\ tm[q] > r.term
          BY <2>1, <4>1 DEF RoundInTime
        <4> QED
          BY <1>1, <4>2
      <3> QED
        BY <3>1, <3>2
    <2> QED
      BY <2>2, <2>4 DEF RoundInTime
  <1> QED
    BY <1>2, <1>3, <1>4 DEF RoundInv

LEMMA InvCampaign ==
    ASSUME LeaseReadInv, DueInv, NEW n \in Nodes, NEW S \in SUBSET (Nodes \ {n}), Campaign(n, S)
    PROVE  LeaseReadInv'
  <1> DEFINE t == term[n] + 1
             voters == {p \in S : log[p] <= log[n]}
             won == Cardinality(voters) + 1 >= QuorumSize
             B == S \union {n}
             V == voters \union {n}
  <1>1. /\ term \in [Nodes -> Nat] /\ silence \in [Nodes -> Nat] /\ commit \in [Nodes -> Nat]
        /\ role \in [Nodes -> {"follower", "candidate", "leader"}] /\ hint \in [Nodes -> Nodes \union {None}]
        /\ lease \in [Nodes -> [left: Nat, sound: BOOLEAN]] /\ log \in [Nodes -> Nat] /\ applied \in [Nodes -> Nat]
        /\ own \in [Nodes -> BOOLEAN] /\ acked \in Nat
    BY DEF LeaseReadInv, ServerTypes
  <1>2. /\ due[n] /\ \A p \in S : term[p] <= term[n]
        /\ n \notin S /\ S \subseteq Nodes /\ B \in SUBSET Nodes
    BY DEF Campaign
  <1>3. /\ term' = [p \in Nodes |-> IF p \in B THEN t ELSE term[p]]
        /\ role' = [p \in Nodes |-> IF p = n THEN (IF won THEN "leader" ELSE "candidate")
                                    ELSE IF p \in S THEN "follower" ELSE role[p]]
        /\ hint' = [p \in Nodes |-> IF p = n /\ won THEN n ELSE IF p \in B THEN None ELSE hint[p]]
        /\ silence' = [p \in Nodes |-> IF p \in B THEN 0 ELSE silence[p]]
        /\ lease' = [p \in Nodes |-> IF p \in B THEN Invalid ELSE lease[p]]
        /\ own' = [own EXCEPT ![n] = FALSE]
    BY DEF Campaign
  <1>4. UNCHANGED <<config, round, log, commit, applied, acked>>
    BY DEF Campaign
  <1>5. t \in Nat /\ won \in BOOLEAN /\ n \in B /\ S \subseteq B /\ \A p \in B : term[p] < t
    BY <1>1, <1>2
  <1>6. won => IsQuorum(V)
    <2>1. voters \in SUBSET (Nodes \ {n})
      OBVIOUS
    <2> QED
      BY <2>1, QuorumWith
  <1>7. V \subseteq B /\ \A p \in V : log[p] <= log[n]
    BY <1>1
  <1> HIDE DEF voters, won, V
  <1>8. /\ term' \in [Nodes -> Nat] /\ silence' \in [Nodes -> Nat]
        /\ \A p \in Nodes : term[p] <= term'[p] /\ silence'[p] <= silence[p]
    BY <1>1, <1>3, <1>5
  <1>9. TermsRise
    BY <1>8 DEF TermsRise
  <1>10. ServerTypes'
    <2>1. Invalid \in [left: Nat, sound: BOOLEAN]
      BY DEF Invalid
    <2>2. lease' \in [Nodes -> [left: Nat, sound: BOOLEAN]]
      BY <1>1, <1>3, <2>1
    <2>3. role' \in [Nodes -> {"follower", "candidate", "leader"}]
      BY <1>1, <1>3
    <2>4. hint' \in [Nodes -> Nodes \union {None}] /\ own' \in [Nodes -> BOOLEAN]
      BY <1>1, <1>3
    <2> QED
      BY <1>4, <1>8, <2>2, <2>3, <2>4 DEF LeaseReadInv, ServerTypes
  <1>11. LeadersQuiet'
    BY <1>3, <1>5 DEF LeaseReadInv, LeadersQuiet
  <1>12. RoundsInv'
    <2> SUFFICES ASSUME NEW m \in Nodes, NEW u \in Threads, round[m][u] # NoRound
                 PROVE  RoundInv(m, round[m][u], config.drift, term', silence', commit)
      BY <1>4 DEF RoundsInv
    <2> DEFINE r == round[m][u] d == config.drift tm2 == term' sil2 == silence'
    <2>1. r \in RoundState(m) /\ RoundInv(m, r, d, term, silence, commit) /\ d \in Nat
      BY DEF LeaseReadInv, ServerTypes, RoundsInv, ConfigInv
    <2>2. r.age <= d => m # n /\ r.answer[n] # "ok"
      BY <1>2 DEF DueInv
    <2>3. /\ tm2 \in [Nodes -> Nat] /\ sil2 \in [Nodes -> Nat]
          /\ \A p \in Nodes : tm2[p] = term[p] \/ tm2[p] = term[n] + 1
          /\ \A p \in Nodes : term[p] <= tm2[p] /\ sil2[p] <= silence[p]
          /\ tm2[n] = term[n] + 1
      BY <1>3, <1>8
    <2> HIDE DEF r, d, tm2, sil2, B
    <2>4. term \in [Nodes -> Nat] /\ silence \in [Nodes -> Nat]
      BY <1>1
    <2>5. RoundInv(m, r, d, tm2, sil2, commit)
      BY <2>1, <2>2, <2>3, <2>4, CampaignRound
    <2> QED
      BY <2>5 DEF r, d, tm2, sil2
  <1>13. LeaseInv'
    <2> SUFFICES ASSUME NEW m \in Nodes, Covered(m)' PROVE FALSE
      BY DEF LeaseInv
    <2>1. m \notin B
      BY <1>3 DEF Covered, Invalid
    <2>2. Covered(m)
      BY <1>3, <2>1 DEF Covered
    <2> QED
      BY <1>2, <2>2 DEF DueInv
  <1>14. ASSUME NEW m \in Nodes, NEW T \in Nat, Claim(m, T)'
         PROVE  ((m \notin B \/ T # t) /\ Claim(m, T)) \/ (m = n /\ T = t /\ won)
    <2>1. CASE role'[m] = "leader" /\ T = term'[m]
      <3>1. CASE m = n
        BY <1>3, <2>1, <3>1
      <3>2. CASE m # n
        <4>1. m \notin B /\ role[m] = "leader" /\ T = term[m]
          BY <1>3, <2>1, <3>2
        <4> QED
          BY <4>1 DEF Claim
      <3> QED
        BY <3>1, <3>2
    <2>2. CASE Covered(m)' /\ T = term'[m]
      <3>1. m \notin B
        BY <1>3, <2>2 DEF Covered, Invalid
      <3>2. Covered(m) /\ T = term[m]
        BY <1>3, <2>2, <3>1 DEF Covered
      <3> QED
        BY <3>1, <3>2 DEF Claim
    <2>3. CASE \E u \in Threads : round[m][u] # NoRound /\ round[m][u].term = T
      <3>1. Claim(m, T)
        BY <2>3 DEF Claim
      <3>2. T <= term[m]
        BY <3>1, ClaimBound
      <3>3. m \in B => T # t
        BY <1>1, <1>5, <3>2
      <3> QED
        BY <3>1, <3>3
    <2> QED
      BY <1>4, <1>14, <2>1, <2>2, <2>3 DEF Claim
  <1>15. ASSUME won, NEW m \in Nodes, Claim(m, t) PROVE FALSE
    <2>1. IsQuorum(Reached(term, t)) /\ Reached(term, t) \in SUBSET Nodes
      BY <1>5, <1>15 DEF LeaseReadInv, ClaimsInv, Reached
    <2>2. V \in SUBSET Nodes
      BY <1>2, <1>7
    <2>3. PICK q \in Nodes : q \in Reached(term, t) /\ q \in V
      BY <1>6, <1>15, <2>1, <2>2, QuorumsMeet
    <2>4. term[q] >= t /\ term[q] < t /\ term[q] \in Nat
      BY <1>1, <1>5, <1>7, <2>3 DEF Reached
    <2> QED
      BY <1>5, <2>4
  <1> HIDE DEF B, t
  <1>16. ClaimsInv'
    <2>1. ASSUME NEW m \in Nodes, NEW T \in Nat, Claim(m, T)' PROVE IsQuorum(Reached(term', T))
      <3>0. Reached(term', T) \in SUBSET Nodes
        BY DEF Reached
      <3>1. CASE Claim(m, T)
        <4>1. IsQuorum(Reached(term, T))
          BY <3>1 DEF LeaseReadInv, ClaimsInv
        <4>2. Reached(term, T) \subseteq Reached(term', T)
          BY <1>1, <1>8 DEF Reached
        <4> QED
          BY <3>0, <4>1, <4>2, LargerQuorum
      <3>2. CASE T = t /\ won
        <4>1. V \subseteq Reached(term', T)
          BY <1>2, <1>3, <1>5, <1>7, <3>2 DEF Reached
        <4> QED
          BY <1>6, <3>0, <3>2, <4>1, LargerQuorum
      <3> QED
        BY <1>14, <2>1, <3>1, <3>2
    <2>2. ASSUME NEW m \in Nodes, NEW q \in Nodes, NEW T \in Nat, Claim(m, T)', Claim(q, T)' PROVE m = q
      <3>1. CASE Claim(m, T) /\ Claim(q, T)
        BY <3>1 DEF LeaseReadInv, ClaimsInv
      <3>2. CASE T = t /\ won
        BY <1>14, <1>15, <2>2, <3>2
      <3> QED
        BY <1>14, <2>2, <3>1, <3>2
    <2> QED
      BY <2>1, <2>2 DEF ClaimsInv
  <1>17. DataInv'
    <2>1. ASSUME NEW m \in Nodes, NEW T \in Nat, Claim(m, T)', T = term'[m]
          PROVE  /\ own'[m] => commit[m] = log[m]
                 /\ IsQuorum(Behind(term', T)) => \A p \in Nodes : commit[p] <= log[m]
      <3>1. CASE m = n /\ T = t /\ won
        <4>1. ASSUME NEW p \in Nodes PROVE commit[p] <= log[n]
          <5>1. IsQuorum(Stored(log, commit[p])) /\ Stored(log, commit[p]) \in SUBSET Nodes
            BY DEF LeaseReadInv, DataInv, Stored
          <5>2. V \in SUBSET Nodes
            BY <1>2, <1>7
          <5>3. PICK q \in Nodes : q \in Stored(log, commit[p]) /\ q \in V
            BY <1>6, <3>1, <5>1, <5>2, QuorumsMeet
          <5>4. /\ log[q] >= commit[p] /\ log[q] <= log[n]
                /\ log[q] \in Nat /\ commit[p] \in Nat /\ log[n] \in Nat
            BY <1>1, <1>7, <5>3 DEF Stored
          <5> QED
            BY <5>4
        <4>2. own'[n] = FALSE
          BY <1>1, <1>3
        <4> QED
          BY <3>1, <4>1, <4>2
      <3>2. CASE (m \notin B \/ T # t) /\ Claim(m, T)
        <4>1. m \notin B
          BY <1>3, <2>1, <3>2
        <4>2. term[m] = T /\ m # n /\ own'[m] = own[m]
          BY <1>1, <1>3, <1>5, <2>1, <4>1
        <4>3. /\ own[m] => commit[m] = log[m]
              /\ IsQuorum(Behind(term, T)) => \A p \in Nodes : commit[p] <= log[m]
          BY <3>2, <4>2 DEF LeaseReadInv, DataInv
        <4>4. Behind(term', T) \subseteq Behind(term, T) /\ Behind(term, T) \in SUBSET Nodes
          BY <1>1, <1>8 DEF Behind
        <4>5. IsQuorum(Behind(term', T)) => IsQuorum(Behind(term, T))
          BY <4>4, LargerQuorum
        <4> QED
          BY <4>2, <4>3, <4>5
      <3> QED
        BY <1>14, <2>1, <3>1, <3>2
    <2>2. \A m \in Nodes : applied[m] <= commit[m] /\ commit[m] <= log[m] /\ IsQuorum(Stored(log, commit[m]))
      BY DEF LeaseReadInv, DataInv
    <2>3. \E p \in Nodes : acked <= commit[p]
      BY DEF LeaseReadInv, DataInv
    <2> QED
      BY <1>4, <2>1, <2>2, <2>3 DEF DataInv
  <1> QED
    BY <1>4, <1>10, <1>11, <1>12, <1>13, <1>16, <1>17, ConfigKept DEF LeaseReadInv

(***************************************************************************)
(* All steps.                                                              *)
(***************************************************************************)

LEMMA InvSame ==
    ASSUME LeaseReadInv, UNCHANGED leaseVars
    PROVE  LeaseReadInv'
  <1>1. UNCHANGED <<config, term, role, hint, silence, lease, round, log, commit, applied, own, acked>>
    BY DEF leaseVars, nodeVars, dataVars
  <1>2. Gentle
    BY <1>1, StillGentle
  <1>3. RoundsTyped' /\ RoundsInv'
    BY <1>1, <1>2, RoundsSame
  <1>4. \A n \in Nodes, t \in Threads : round'[n][t] # NoRound => Claim(n, round'[n][t].term)
    BY <1>1 DEF Claim
  <1> QED
    BY <1>1, <1>3, <1>4, RoundOnly DEF nodeVars, dataVars

\* ElectionLoop only looks.
LEMMA InvElectionLoop ==
    ASSUME LeaseReadInv, NEW p \in Nodes, ElectionLoop(p)
    PROVE  LeaseReadInv'
  <1>1. UNCHANGED <<config, term, role, hint, silence, lease, round, log, commit, applied, own, acked>>
    BY DEF ElectionLoop, dataVars
  <1>2. Gentle
    BY <1>1, StillGentle
  <1>3. RoundsTyped' /\ RoundsInv'
    BY <1>1, <1>2, RoundsSame
  <1>4. \A n \in Nodes, t \in Threads : round'[n][t] # NoRound => Claim(n, round'[n][t].term)
    BY <1>1 DEF Claim
  <1> QED
    BY <1>1, <1>3, <1>4, RoundOnly DEF dataVars

\* What a step of the servers is, as far as leases are concerned.
LEMMA ServerCases ==
    ASSUME ServerStep
    PROVE  \/ Tick
           \/ \E n \in Nodes : \/ BeginRound(n) \/ Apply(n) \/ ElectionLoop(n)
                               \/ \E S \in SUBSET (Nodes \ {n}) : Campaign(n, S)
                               \/ \E S \in SUBSET (Nodes \ {n}), k \in {0, 1} : Replicate(n, S, k)
           \/ \E n \in Nodes, t \in Threads : EndRound(n, t)
           \/ \E n \in Nodes, t \in Threads, p \in Nodes : HandleHeartbeat(n, t, p) \/ HeartbeatLost(n, t, p)
           \/ SearchForward \/ EnsureLease \/ RecheckLease \/ WaitApplied \/ SearchIndex \/ ForwardFails \/ WaitTimeout
  BY DEF ServerStep, HandlerStep, RoundStep

LEMMA InvServer ==
    ASSUME LeaseReadInv, DueInv, ServerStep, SearchAt
    PROVE  LeaseReadInv'
  <1>1. CASE Tick
    BY <1>1, InvTick
  <1>2. ASSUME NEW n \in Nodes, BeginRound(n) \/ Apply(n) \/ ElectionLoop(n) PROVE LeaseReadInv'
    BY <1>2, InvBeginRound, InvApply, InvElectionLoop
  <1>3. ASSUME NEW n \in Nodes, NEW S \in SUBSET (Nodes \ {n}), Campaign(n, S) PROVE LeaseReadInv'
    BY <1>3, InvCampaign
  <1>4. ASSUME NEW n \in Nodes, NEW S \in SUBSET (Nodes \ {n}), NEW k \in {0, 1}, Replicate(n, S, k)
        PROVE  LeaseReadInv'
    BY <1>4, InvReplicate
  <1>5. ASSUME NEW n \in Nodes, NEW t \in Threads, EndRound(n, t) PROVE LeaseReadInv'
    BY <1>5, InvEndRound
  <1>6. ASSUME NEW n \in Nodes, NEW t \in Threads, NEW p \in Nodes, HandleHeartbeat(n, t, p) PROVE LeaseReadInv'
    BY <1>6, InvHeartbeatRefused, InvHeartbeatAccepted
  <1>7. ASSUME NEW n \in Nodes, NEW t \in Threads, NEW p \in Nodes, HeartbeatLost(n, t, p) PROVE LeaseReadInv'
    BY <1>7, InvHeartbeatLost
  <1>8. CASE SearchForward \/ RecheckLease \/ WaitApplied \/ SearchIndex \/ ForwardFails \/ WaitTimeout
    <2>1. UNCHANGED leaseVars
      BY <1>8 DEF SearchForward, RecheckLease, WaitApplied, SearchIndex, ForwardFails, WaitTimeout, leaseVars
    <2> QED
      BY <2>1, InvSame
  <1>9. CASE EnsureLease
    <2>1. role[search.at] = "leader" /\ UNCHANGED <<config, nodeVars, dataVars>>
          /\ (UNCHANGED round \/ Broadcast(search.at, "read")) /\ search.at \in Nodes
      BY <1>9 DEF EnsureLease, SearchAt, Steps
    <2>2. CASE UNCHANGED round
      BY <2>1, <2>2, InvSame DEF leaseVars
    <2>3. CASE Broadcast(search.at, "read")
      <3> DEFINE n == search.at t == "read"
      <3>1. n \in Nodes /\ t \in Threads /\ role[n] = "leader" /\ Broadcast(n, t)
        BY <2>1, <2>3 DEF Threads
      <3> HIDE DEF n, t
      <3> QED
        BY <2>1, <3>1, InvBroadcast
    <2> QED
      BY <2>1, <2>2, <2>3
  <1> QED
    BY ServerCases, <1>1, <1>2, <1>3, <1>4, <1>5, <1>6, <1>7, <1>8, <1>9

\* A step that makes nobody a leader, gives nobody a sound lease and adds nobody's
\* confirmation to a round makes nothing worse.
LEMMA DueKept ==
    ASSUME DueInv, due' = due, config' = config,
           \A n \in Nodes : role'[n] = "leader" => role[n] = "leader",
           \A n \in Nodes : Covered(n)' => Covered(n),
           \A n \in Nodes, t \in Threads : round'[n][t] # NoRound /\ round'[n][t].age <= config.drift =>
              /\ round[n][t] # NoRound /\ round[n][t].age <= config.drift
              /\ \A p \in Nodes \ {n} : round'[n][t].answer[p] = "ok" => round[n][t].answer[p] = "ok"
    PROVE  DueInv'
  BY DEF DueInv

\* A round that is replaced, and the others.
Replaced(n, t, v) ==
  /\ round'[n][t] = v
  /\ \A m \in Nodes, u \in Threads : <<m, u>> # <<n, t>> => round'[m][u] = round[m][u]

LEMMA OneRound ==
    ASSUME LeaseReadInv, NEW n \in Nodes, NEW t \in Threads, NEW v, round' = [round EXCEPT ![n][t] = v]
    PROVE  Replaced(n, t, v)
  <1> DEFINE R == round X == round'
  <1>1. R = [m \in Nodes |-> [u \in Threads |-> R[m][u]]] /\ X = [R EXCEPT ![n][t] = v]
    BY DEF LeaseReadInv, ServerTypes
  <1> HIDE DEF R, X
  <1>2. X[n][t] = v /\ \A m \in Nodes, u \in Threads : <<m, u>> # <<n, t>> => X[m][u] = R[m][u]
    BY <1>1
  <1> QED
    BY <1>2 DEF R, X, Replaced

\* A round that a step replaces by one which is no younger and which confirms no more, or ends.
Tamer(n, r, v, drift) ==
  v # NoRound /\ v.age <= drift =>
    /\ r # NoRound /\ r.age <= drift
    /\ \A p \in Nodes \ {n} : v.answer[p] = "ok" => r.answer[p] = "ok" \/ ~due[p]

LEMMA DueRound ==
    ASSUME LeaseReadInv, DueInv, NEW n \in Nodes, NEW t \in Threads, NEW v, round' = [round EXCEPT ![n][t] = v],
           Tamer(n, round[n][t], v, config.drift), due' = due, config' = config,
           \A m \in Nodes : role'[m] = "leader" => role[m] = "leader",
           \A m \in Nodes : Covered(m)' => Covered(m)
    PROVE  DueInv'
  <1>1. /\ round'[n][t] = v
        /\ \A m \in Nodes, u \in Threads : <<m, u>> # <<n, t>> => round'[m][u] = round[m][u]
    <2>1. Replaced(n, t, v)
      BY OneRound
    <2> QED
      BY <2>1 DEF Replaced
  <1>2. ASSUME NEW p \in Nodes, due[p], NEW m \in Nodes, NEW u \in Threads, round'[m][u] # NoRound,
               round'[m][u].age <= config.drift
        PROVE  m # p /\ round'[m][u].answer[p] # "ok"
    <2>1. CASE <<m, u>> # <<n, t>>
      BY <1>1, <1>2, <2>1 DEF DueInv
    <2>2. CASE <<m, u>> = <<n, t>>
      <3>1. m = n /\ u = t /\ round'[m][u] = v
        BY <1>1, <2>2
      <3>2. round[n][t] # NoRound /\ round[n][t].age <= config.drift
            /\ \A q \in Nodes \ {n} : v.answer[q] = "ok" => round[n][t].answer[q] = "ok" \/ ~due[q]
        BY <1>2, <3>1 DEF Tamer
      <3>3. n # p /\ round[n][t].answer[p] # "ok"
        BY <1>2, <3>2 DEF DueInv
      <3> QED
        BY <1>2, <3>1, <3>2, <3>3
    <2> QED
      BY <2>1, <2>2
  <1> QED
    BY <1>2 DEF DueInv

LEMMA DueTick ==
    ASSUME LeaseReadInv, DueInv, Tick
    PROVE  DueInv'
  <1>1. due' = due /\ config' = config /\ role' = role /\ config.drift \in Nat
        /\ lease \in [Nodes -> [left: Nat, sound: BOOLEAN]]
    BY DEF Tick, LeaseReadInv, ServerTypes, ConfigInv
  <1>2. ASSUME NEW n \in Nodes, Covered(n)' PROVE Covered(n)
    <2>1. CASE lease[n].left <= 1
      BY <1>2, <2>1 DEF Tick, Covered, Invalid
    <2>2. CASE ~(lease[n].left <= 1)
      <3>1. lease[n].left \in Nat /\ lease[n] \in [left: Nat, sound: BOOLEAN]
        BY <1>1
      <3>2. lease'[n] = [lease[n] EXCEPT !.left = lease[n].left - 1]
        BY <2>2 DEF Tick
      <3>3. lease'[n].sound = lease[n].sound
        BY <3>1, <3>2
      <3> QED
        BY <1>2, <2>2, <3>1, <3>3 DEF Covered
    <2> QED
      BY <2>1, <2>2
  <1>3. ASSUME NEW n \in Nodes, NEW t \in Threads, round'[n][t] # NoRound, round'[n][t].age <= config.drift
        PROVE  /\ round[n][t] # NoRound /\ round[n][t].age <= config.drift
               /\ \A p \in Nodes \ {n} : round'[n][t].answer[p] = "ok" => round[n][t].answer[p] = "ok"
    <2> DEFINE r == round[n][t] a == Min({r.age + 1, config.drift + 1})
    <2>1. r # NoRound /\ round'[n][t] = [r EXCEPT !.age = a]
      BY <1>3 DEF Tick
    <2>2. r \in RoundState(n)
      BY <2>1 DEF LeaseReadInv, ServerTypes
    <2>3. r.age \in Nat
      BY <2>2 DEF RoundState
    <2>4. a = IF r.age + 1 <= config.drift + 1 THEN r.age + 1 ELSE config.drift + 1
      BY <1>1, <2>3, PairMin
    <2> HIDE DEF a, r
    <2>5. round'[n][t].age = a /\ round'[n][t].answer = r.answer
      BY <2>1, <2>2 DEF RoundState
    <2>6. r.age <= config.drift
      BY <1>1, <1>3, <2>3, <2>4, <2>5
    <2> QED
      BY <2>1, <2>5, <2>6 DEF r
  <1> QED
    BY <1>1, <1>2, <1>3, DueKept

\* A leader is not about to stand, and nobody has confirmed its new round.
LEMMA DueBroadcast ==
    ASSUME LeaseReadInv, DueInv, NEW n \in Nodes, NEW t \in Threads, role[n] = "leader", Broadcast(n, t),
           UNCHANGED <<config, nodeVars>>
    PROVE  DueInv'
  <1> DEFINE v == [term |-> term[n], commit |-> commit[n], age |-> 0, high |-> term[n],
                   answer |-> [p \in Nodes \ {n} |-> "net"]]
  <1>1. round' = [round EXCEPT ![n][t] = v] /\ \A p \in Nodes \ {n} : v.answer[p] # "ok"
    BY DEF Broadcast
  <1> HIDE DEF v
  <1>2. /\ round'[n][t] = v
        /\ \A m \in Nodes, u \in Threads : <<m, u>> # <<n, t>> => round'[m][u] = round[m][u]
    <2>1. Replaced(n, t, v)
      BY <1>1, OneRound
    <2> QED
      BY <2>1 DEF Replaced
  <1>3. due' = due /\ config' = config /\ role' = role /\ lease' = lease
    BY DEF nodeVars
  <1>4. ASSUME NEW p \in Nodes, due[p], NEW m \in Nodes, NEW u \in Threads, round'[m][u] # NoRound,
               round'[m][u].age <= config.drift
        PROVE  m # p /\ round'[m][u].answer[p] # "ok"
    <2>1. CASE <<m, u>> # <<n, t>>
      BY <1>2, <1>4, <2>1 DEF DueInv
    <2>2. CASE <<m, u>> = <<n, t>>
      <3>1. n # p
        BY <1>4 DEF DueInv
      <3> QED
        BY <1>1, <1>2, <2>2, <3>1
    <2> QED
      BY <2>1, <2>2
  <1> QED
    BY <1>3, <1>4 DEF DueInv, Covered

LEMMA DueHeartbeat ==
    ASSUME LeaseReadInv, DueInv, NEW n \in Nodes, NEW t \in Threads, NEW p \in Nodes, HandleHeartbeat(n, t, p)
    PROVE  DueInv'
  <1> DEFINE r == round[n][t]
  <1>1. /\ r # NoRound /\ p # n /\ r \in RoundState(n) /\ config' = config /\ due' = due /\ due \in [Nodes -> BOOLEAN]
        /\ term \in [Nodes -> Nat] /\ lease \in [Nodes -> [left: Nat, sound: BOOLEAN]]
        /\ role \in [Nodes -> {"follower", "candidate", "leader"}]
    BY DEF HandleHeartbeat, Pending, BecomeFollower, nodeVars, LeaseReadInv, ServerTypes, DueInv
  <1>2. r.term <= r.high
    BY <1>1 DEF LeaseReadInv, RoundsInv, RoundInv
  <1>3. CASE r.term < term[p]
    <2> DEFINE v == Answered(r, p, FALSE, term[p]) k == IF r.high >= term[p] THEN r.high ELSE term[p]
    <2>1. AnswerIs(n, p, "bad", r, k, v)
      BY <1>1, RefusedAnswer
    <2>2. round' = [round EXCEPT ![n][t] = v] /\ role' = role /\ lease' = lease
      BY <1>3 DEF HandleHeartbeat, nodeVars
    <2> HIDE DEF v, k
    <2>3. Tamer(n, r, v, config.drift)
      BY <1>1, <2>1 DEF AnswerIs, Tamer
    <2> QED
      BY <1>1, <2>2, <2>3, DueRound DEF Covered
  <1>4. CASE ~(r.term < term[p])
    <2> DEFINE v == Answered(r, p, TRUE, r.term) a == IF due[p] THEN "due" ELSE "ok"
    <2>1. AnswerIs(n, p, a, r, r.high, v) /\ (a = "ok" => ~due[p])
      BY <1>1, <1>2, ConfirmedAnswer
    <2>2. round' = [round EXCEPT ![n][t] = v]
      BY <1>4 DEF HandleHeartbeat
    <2>3. /\ role' = [role EXCEPT ![p] = "follower"]
          /\ lease' = [lease EXCEPT ![p] = Invalid] \/ lease' = lease
      BY <1>4, HeartbeatFacts
    <2> HIDE DEF v, a
    <2>4. Tamer(n, r, v, config.drift)
      BY <1>1, <2>1 DEF AnswerIs, Tamer
    <2>5. \A m \in Nodes : role'[m] = "leader" => role[m] = "leader"
      BY <1>1, <2>3
    <2>6. \A m \in Nodes : Covered(m)' => Covered(m)
      BY <1>1, <2>3 DEF Covered, Invalid
    <2> QED
      BY <1>1, <2>2, <2>4, <2>5, <2>6, DueRound
  <1> QED
    BY <1>3, <1>4

LEMMA DueLost ==
    ASSUME LeaseReadInv, DueInv, NEW n \in Nodes, NEW t \in Threads, NEW p \in Nodes, HeartbeatLost(n, t, p)
    PROVE  DueInv'
  <1> DEFINE r == round[n][t] ans == [r.answer EXCEPT ![p] = "bad"] v == [r EXCEPT !.answer = ans]
  <1>1. r # NoRound /\ p # n /\ r \in RoundState(n)
    BY DEF HeartbeatLost, Pending, LeaseReadInv, ServerTypes
  <1>2. round' = [round EXCEPT ![n][t] = v]
    BY DEF HeartbeatLost
  <1>3. due' = due /\ config' = config /\ role' = role /\ lease' = lease
    BY DEF HeartbeatLost, nodeVars
  <1>4. r.answer \in [Nodes \ {n} -> {"net", "ok", "due", "bad"}]
    BY <1>1 DEF RoundState
  <1>5. \A q \in Nodes \ {n} : ans[q] = "ok" => r.answer[q] = "ok"
    BY <1>4
  <1> HIDE DEF ans, r
  <1>6. v.age = r.age /\ v.answer = ans
    BY <1>1 DEF RoundState
  <1> HIDE DEF v
  <1>7. Tamer(n, r, v, config.drift)
    BY <1>1, <1>5, <1>6 DEF Tamer
  <1> QED
    BY <1>2, <1>3, <1>7, DueRound DEF Covered, r

\* Only a round that everybody has confirmed gives a sound lease.
LEMMA DueEndRound ==
    ASSUME LeaseReadInv, DueInv, NEW n \in Nodes, NEW t \in Threads, EndRound(n, t)
    PROVE  DueInv'
  <1> DEFINE r == round[n][t] v == NoRound
  <1>1. /\ r # NoRound /\ round' = [round EXCEPT ![n][t] = v] /\ config' = config /\ due' = due
        /\ lease \in [Nodes -> [left: Nat, sound: BOOLEAN]]
    BY DEF EndRound, BecomeFollower, nodeVars, LeaseReadInv, ServerTypes
  <1>2. Tamer(n, r, v, config.drift)
    BY DEF Tamer
  <1>3. \A m \in Nodes : role'[m] = "leader" => role[m] = "leader"
    BY DEF EndRound, BecomeFollower, nodeVars, LeaseReadInv, ServerTypes
  <1>4. CASE \A m \in Nodes : Covered(m)' => Covered(m)
    <2> HIDE DEF v
    <2> QED
      BY <1>1, <1>2, <1>3, <1>4, DueRound
  <1>5. CASE ~ \A m \in Nodes : Covered(m)' => Covered(m)
    <2>1. PICK m \in Nodes : Covered(m)' /\ ~Covered(m)
      BY <1>5
    <2>2. lease' = [lease EXCEPT ![n] = Renew(Sound(n, r))]
      <3>1. ~BecomeFollower({n}, r.high, None)
        BY <1>1, <2>1 DEF BecomeFollower, Covered, Invalid
      <3>2. lease' # lease
        BY <2>1 DEF Covered
      <3> QED
        BY <3>1, <3>2 DEF EndRound, nodeVars
    <2>3. Renew(Sound(n, r)).sound
      BY <1>1, <2>1, <2>2 DEF Covered
    <2>4. Sound(n, r)
      BY <2>3 DEF Renew, Invalid
    <2>5. \A p \in Nodes : ~due[p]
      BY <1>1, <2>4 DEF Sound, DueInv
    <2> QED
      BY <1>1, <2>5 DEF DueInv
  <1> QED
    BY <1>4, <1>5

LEMMA DueCampaign ==
    ASSUME LeaseReadInv, DueInv, NEW n \in Nodes, NEW S \in SUBSET (Nodes \ {n}), Campaign(n, S)
    PROVE  DueInv'
  <1>1. due' = [due EXCEPT ![n] = FALSE] /\ due \in [Nodes -> BOOLEAN] /\ config' = config /\ round' = round
    BY DEF Campaign, DueInv
  <1>2. due' \in [Nodes -> BOOLEAN] /\ \A p \in Nodes : due'[p] => due[p] /\ p # n
    BY <1>1
  <1>3. \A p \in Nodes \ {n} : role'[p] = "leader" => role[p] = "leader"
    BY DEF Campaign
  <1>4. \A m \in Nodes : Covered(m)' => Covered(m)
    BY DEF Campaign, Covered, Invalid
  <1> QED
    BY <1>1, <1>2, <1>3, <1>4 DEF DueInv

\* The deadline is in the past: nobody has heard from this node's leader for longer than a
\* round in time, or than a sound lease leaves.
LEMMA DueElectionLoop ==
    ASSUME LeaseReadInv, DueInv, NEW p \in Nodes, ElectionLoop(p)
    PROVE  DueInv'
  <1>1. /\ due' = [due EXCEPT ![p] = TRUE] /\ due \in [Nodes -> BOOLEAN] /\ role[p] # "leader"
        /\ silence[p] = config.election_min /\ UNCHANGED <<config, role, lease, round>>
    BY DEF ElectionLoop, DueInv
  <1>2. due' \in [Nodes -> BOOLEAN] /\ \A q \in Nodes : due'[q] => due[q] \/ q = p
    BY <1>1
  <1>3. ASSUME NEW n \in Nodes, Covered(n) PROVE FALSE
    <2>1. silence[p] + lease[n].left <= config.election_min /\ lease[n].left > 0
      BY <1>3 DEF LeaseReadInv, LeaseInv, Covered
    <2> DEFINE x == silence[p] y == lease[n].left
    <2>2. x \in Nat /\ y \in Nat /\ x + y <= x /\ y > 0
      BY <1>1, <2>1 DEF LeaseReadInv, ServerTypes
    <2> HIDE DEF x, y
    <2> QED
      BY <2>2
  <1>4. ASSUME NEW n \in Nodes, NEW t \in Threads, round[n][t] # NoRound, round[n][t].age <= config.drift
        PROVE  n # p /\ round[n][t].answer[p] # "ok"
    <2> DEFINE r == round[n][t] d == config.drift
    <2>1. RoundInv(n, r, d, term, silence, commit) /\ r \in RoundState(n)
      BY <1>4 DEF LeaseReadInv, RoundsInv, ServerTypes
    <2>2. d \in Nat /\ d < silence[p] /\ silence[p] \in Nat /\ r.age <= d
      BY <1>1, <1>4 DEF LeaseReadInv, ConfigInv, ServerTypes
    <2> HIDE DEF r, d
    <2>3. RoundInTime(n, r, term, silence) /\ r.age \in Nat
      BY <2>1, <2>2 DEF RoundInv, RoundState
    <2>4. ~(silence[p] <= r.age)
      BY <2>2, <2>3
    <2>5. n # p /\ r.answer[p] # "ok"
      BY <2>3, <2>4 DEF RoundInTime
    <2> QED
      BY <2>5 DEF r
  <1>5. \A n \in Nodes : Covered(n)' <=> Covered(n)
    BY <1>1 DEF Covered
  <1> QED
    BY <1>1, <1>2, <1>3, <1>4, <1>5 DEF DueInv

LEMMA DueServer ==
    ASSUME LeaseReadInv, DueInv, ServerStep, SearchAt
    PROVE  DueInv'
  <1>1. CASE Tick
    BY <1>1, DueTick
  <1>2. ASSUME NEW n \in Nodes, ElectionLoop(n) PROVE DueInv'
    BY <1>2, DueElectionLoop
  <1>3. ASSUME NEW n \in Nodes, BeginRound(n) PROVE DueInv'
    BY <1>3, DueBroadcast DEF BeginRound, Threads
  <1>4. ASSUME NEW n \in Nodes, NEW S \in SUBSET (Nodes \ {n}), Campaign(n, S) PROVE DueInv'
    BY <1>4, DueCampaign
  <1>5. ASSUME NEW n \in Nodes, NEW S \in SUBSET (Nodes \ {n}), NEW k \in {0, 1}, Replicate(n, S, k) PROVE DueInv'
    <2>1. due' = due /\ config' = config /\ round' = round
      BY <1>5 DEF Replicate
    <2>2. \A m \in Nodes : role'[m] = "leader" => role[m] = "leader"
      BY <1>5 DEF Replicate
    <2>3. \A m \in Nodes : Covered(m)' => Covered(m)
      BY <1>5 DEF Replicate, Covered, Invalid
    <2> QED
      BY <2>1, <2>2, <2>3, DueKept
  <1>6. ASSUME NEW n \in Nodes, NEW t \in Threads, EndRound(n, t) PROVE DueInv'
    BY <1>6, DueEndRound
  <1>7. ASSUME NEW n \in Nodes, NEW t \in Threads, NEW p \in Nodes, HandleHeartbeat(n, t, p) \/ HeartbeatLost(n, t, p)
        PROVE  DueInv'
    BY <1>7, DueHeartbeat, DueLost
  <1>8. CASE UNCHANGED <<config, nodeVars, round>>
    BY <1>8 DEF DueInv, Covered, nodeVars
  <1>9. ASSUME NEW n \in Nodes, Apply(n) PROVE DueInv'
    BY <1>8, <1>9 DEF Apply
  <1>10. CASE SearchForward \/ RecheckLease \/ WaitApplied \/ SearchIndex \/ ForwardFails \/ WaitTimeout
    BY <1>8, <1>10 DEF SearchForward, RecheckLease, WaitApplied, SearchIndex, ForwardFails, WaitTimeout
  <1>11. CASE EnsureLease
    <2>1. role[search.at] = "leader" /\ UNCHANGED <<config, nodeVars>>
          /\ (UNCHANGED round \/ Broadcast(search.at, "read")) /\ search.at \in Nodes
      BY <1>11 DEF EnsureLease, SearchAt, Steps
    <2>2. CASE UNCHANGED round
      BY <1>8, <2>1, <2>2
    <2>3. CASE Broadcast(search.at, "read")
      <3> DEFINE n == search.at t == "read"
      <3>1. n \in Nodes /\ t \in Threads /\ role[n] = "leader" /\ Broadcast(n, t)
        BY <2>1, <2>3 DEF Threads
      <3> HIDE DEF n, t
      <3> QED
        BY <2>1, <3>1, DueBroadcast
    <2> QED
      BY <2>1, <2>2, <2>3
  <1> QED
    BY ServerCases, <1>1, <1>2, <1>3, <1>4, <1>5, <1>6, <1>7, <1>9, <1>10, <1>11

\* Commit and apply indices and acknowledgements only grow.
DataGrows ==
  /\ \A p \in Nodes : commit[p] <= commit'[p] /\ applied[p] <= applied'[p]
  /\ acked <= acked'

LEMMA ServerGrows ==
    ASSUME LeaseReadInv, ServerStep
    PROVE  DataGrows
  <1>1. commit \in [Nodes -> Nat] /\ applied \in [Nodes -> Nat] /\ acked \in Nat /\ log \in [Nodes -> Nat]
    BY DEF LeaseReadInv, ServerTypes
  <1>2. \A p \in Nodes : applied[p] <= commit[p] /\ commit[p] <= log[p]
    BY DEF LeaseReadInv, DataInv
  <1>3. CASE UNCHANGED <<commit, applied, acked>>
    BY <1>1, <1>3 DEF DataGrows
  <1>4. ASSUME NEW n \in Nodes, Apply(n) PROVE DataGrows
    <2>1. commit' = commit /\ applied' = [applied EXCEPT ![n] = commit[n]]
      BY <1>4 DEF Apply
    <2>2. acked' = IF acked >= commit[n] THEN acked ELSE commit[n]
      BY <1>1, <1>4, PairMax DEF Apply
    <2> QED
      BY <1>1, <1>2, <2>1, <2>2 DEF DataGrows
  <1>5. ASSUME NEW l \in Nodes, NEW S \in SUBSET (Nodes \ {l}), NEW k \in {0, 1}, Replicate(l, S, k)
        PROVE  DataGrows
    <2>1. commit' = [commit EXCEPT ![l] = log[l] + k] /\ applied' = applied /\ acked' = acked
      BY <1>5 DEF Replicate
    <2>2. commit[l] <= log[l] + k
      BY <1>1, <1>2
    <2> QED
      BY <1>1, <1>2, <2>1, <2>2 DEF DataGrows
  <1>6. ASSUME NEW n \in Nodes, NEW t \in Threads, NEW p \in Nodes, HandleHeartbeat(n, t, p) PROVE DataGrows
    <2> DEFINE r == round[n][t]
    <2>1. r # NoRound /\ r \in RoundState(n) /\ acked' = acked
      BY <1>6 DEF HandleHeartbeat, Pending, LeaseReadInv, ServerTypes
    <2>2. CASE UNCHANGED <<commit, applied>>
      BY <1>3, <2>1, <2>2
    <2> DEFINE lo == Min({r.commit, log[p]}) c == Max({commit[p], lo})
    <2>3. CASE commit' = [commit EXCEPT ![p] = c] /\ applied' = [applied EXCEPT ![p] = commit'[p]]
      <3>1. r.commit \in Nat /\ log[p] \in Nat /\ commit[p] \in Nat
        BY <1>1, <2>1 DEF RoundState
      <3> HIDE DEF r
      <3>2. lo \in Nat
        BY <3>1, PairMin
      <3> HIDE DEF lo
      <3>3. c \in Nat /\ commit[p] <= c
        BY <3>1, <3>2, PairMax
      <3> HIDE DEF c
      <3>4. applied' = [applied EXCEPT ![p] = c] /\ applied[p] <= c
        BY <1>1, <1>2, <2>3, <3>3
      <3> QED
        BY <1>1, <2>1, <2>3, <3>3, <3>4 DEF DataGrows
    <2> QED
      BY <1>6, <2>2, <2>3 DEF HandleHeartbeat
  <1>7. ASSUME NEW n \in Nodes, NEW S \in SUBSET (Nodes \ {n}), Campaign(n, S) PROVE DataGrows
    BY <1>3, <1>7 DEF Campaign
  <1>8. ASSUME NEW n \in Nodes, BeginRound(n) \/ ElectionLoop(n) PROVE DataGrows
    BY <1>3, <1>8 DEF BeginRound, ElectionLoop, dataVars
  <1>9. ASSUME NEW n \in Nodes, NEW t \in Threads, EndRound(n, t) PROVE DataGrows
    BY <1>3, <1>9 DEF EndRound, dataVars
  <1>10. ASSUME NEW n \in Nodes, NEW t \in Threads, NEW p \in Nodes, HeartbeatLost(n, t, p) PROVE DataGrows
    BY <1>3, <1>10 DEF HeartbeatLost, dataVars
  <1>11. CASE SearchForward \/ RecheckLease \/ WaitApplied \/ SearchIndex \/ ForwardFails \/ WaitTimeout \/ EnsureLease \/ Tick
    BY <1>3, <1>11 DEF SearchForward, RecheckLease, WaitApplied, SearchIndex, ForwardFails, WaitTimeout, EnsureLease,
                       Tick, dataVars
  <1> QED
    BY ServerCases, <1>4, <1>5, <1>6, <1>7, <1>8, <1>9, <1>10, <1>11

(***************************************************************************)
(* Searches.                                                               *)
(***************************************************************************)

CallTypes ==
  [pc: {"probe", "query", "send", "wait"}, kind: budget.kinds, target: Nodes \union {None}, attempt: Nat, acked: Nat]

CallInv ==
  /\ cache \in Nodes \union {None}
  /\ probe \in [pending: SUBSET Nodes, selected: Nodes \union {None}]
  /\ call # Idle =>
       /\ call \in CallTypes /\ call.acked <= acked
       /\ call.pc \in {"query", "send", "wait"} => call.target \in Nodes

\* The search of a call, from the look at the lease to the answer.
SearchOk(s, c, com, app) ==
  /\ s.pc \in Steps \union {"none", "answered"}
  /\ s.pc # "none" <=> c # Idle /\ c.pc = "wait"
  /\ s.pc \in Steps => s \in [pc: Steps, at: Nodes, via: Seq(Nodes), backed: BOOLEAN]
  /\ s.pc = "applied" /\ s.backed => c.acked <= com[s.at]
  /\ s.pc = "search" /\ s.backed => c.acked <= app[s.at]
  /\ s.pc = "answered" =>
       /\ s.kind \in {"ok", "error", "redirect"} /\ s.backed \in BOOLEAN
       /\ s.kind = "redirect" => s.value \in Nodes \union {None}
       /\ s.kind = "ok" /\ s.backed => c.acked <= s.value

ReadInv == LeaseReadInv /\ DueInv /\ CallInv /\ SearchOk(search, call, commit, applied) /\ ReadsFresh

\* Nothing a search has seen goes away.
LEMMA SearchKept ==
    ASSUME NEW s, NEW c, NEW com \in [Nodes -> Nat], NEW com2 \in [Nodes -> Nat], NEW app \in [Nodes -> Nat],
           NEW app2 \in [Nodes -> Nat], \A p \in Nodes : com[p] <= com2[p] /\ app[p] <= app2[p],
           SearchOk(s, c, com, app), s.pc # "none" => c.acked \in Nat
    PROVE  SearchOk(s, c, com2, app2)
  <1>1. s.pc = "applied" \/ s.pc = "search" => s.at \in Nodes
    BY DEF SearchOk, Steps
  <1>2. s.pc = "applied" /\ s.backed => c.acked <= com2[s.at]
    BY <1>1 DEF SearchOk
  <1>3. s.pc = "search" /\ s.backed => c.acked <= app2[s.at]
    BY <1>1 DEF SearchOk
  <1> QED
    BY <1>2, <1>3 DEF SearchOk

\* A leader with a sound lease that has committed an entry of its term has committed whatever
\* was ever acknowledged.
LEMMA LeasedIsFresh ==
    ASSUME LeaseReadInv, NEW n \in Nodes, lease[n].left > 0, lease[n].sound, own[n]
    PROVE  acked <= commit[n]
  <1>1. Covered(n) /\ Claim(n, term[n]) /\ term[n] \in Nat
    BY DEF Covered, Claim, LeaseReadInv, ServerTypes
  <1>2. Behind(term, term[n]) = Nodes
    BY <1>1 DEF LeaseReadInv, LeaseInv, Behind
  <1>3. commit[n] = log[n] /\ \A p \in Nodes : commit[p] <= log[n]
    BY <1>1, <1>2, AllQuorum DEF LeaseReadInv, DataInv
  <1>4. PICK p \in Nodes : acked <= commit[p]
    BY DEF LeaseReadInv, DataInv
  <1>5. acked \in Nat /\ commit[p] \in Nat /\ commit[n] \in Nat
    BY DEF LeaseReadInv, ServerTypes
  <1> QED
    BY <1>3, <1>4, <1>5

LEMMA CallFacts ==
    ASSUME ReadInv, search.pc # "none"
    PROVE  /\ call # Idle /\ call.pc = "wait" /\ call \in CallTypes /\ call.acked \in Nat /\ call.acked <= acked
           /\ call.target \in Nodes /\ acked \in Nat
  BY DEF ReadInv, CallInv, SearchOk, CallTypes, LeaseReadInv, ServerTypes

LEMMA SearchFacts ==
    ASSUME ReadInv, search.pc \in Steps
    PROVE  /\ search \in [pc: Steps, at: Nodes, via: Seq(Nodes), backed: BOOLEAN]
           /\ search.at \in Nodes /\ search.via \in Seq(Nodes) /\ search.backed \in BOOLEAN /\ search.pc # "none"
  BY DEF ReadInv, SearchOk, Steps

\* A handler that goes on.
LEMMA StepOk ==
    ASSUME ReadInv, search.pc \in Steps, NEW s, s \in [pc: Steps, at: Nodes, via: Seq(Nodes), backed: BOOLEAN],
           s.pc = "applied" /\ s.backed => call.acked <= commit[s.at],
           s.pc = "search" /\ s.backed => call.acked <= applied[s.at]
    PROVE  SearchOk(s, call, commit, applied)
  <1>1. call # Idle /\ call.pc = "wait"
    BY SearchFacts, CallFacts
  <1>2. s.pc \in Steps /\ s.pc # "none" /\ s.pc # "answered"
    BY DEF Steps
  <1> QED
    BY <1>1, <1>2 DEF SearchOk

\* A handler that answers.
LEMMA ReplyOk ==
    ASSUME ReadInv, search.pc \in Steps, NEW kind, NEW value, Reply(kind, value),
           kind = "error" \/ (kind = "redirect" /\ value \in Nodes \union {None})
                          \/ (kind = "ok" /\ (search.backed => call.acked <= value))
    PROVE  SearchOk(search', call, commit, applied)
  <1>1. call # Idle /\ call.pc = "wait" /\ search.backed \in BOOLEAN
    BY SearchFacts, CallFacts
  <1> DEFINE s == [pc |-> "answered", kind |-> kind, value |-> value, backed |-> search.backed]
  <1>2. s.pc = "answered" /\ s.kind = kind /\ s.value = value /\ s.backed = search.backed
    OBVIOUS
  <1>3. search' = s
    BY DEF Reply
  <1> HIDE DEF s
  <1>4. SearchOk(s, call, commit, applied)
    BY <1>1, <1>2 DEF SearchOk, Steps
  <1> QED
    BY <1>3, <1>4

LEMMA LeasedOk ==
    ASSUME ReadInv, search.pc \in Steps, IsValid(search.at), search' = Leased(search.at)
    PROVE  SearchOk(search', call, commit, applied)
  <1> DEFINE n == search.at b == lease[n].sound /\ own[n] s == [search EXCEPT !.pc = "applied", !.backed = b]
  <1>1. n \in Nodes /\ search \in [pc: Steps, at: Nodes, via: Seq(Nodes), backed: BOOLEAN]
        /\ call.acked \in Nat /\ call.acked <= acked /\ acked \in Nat
    BY SearchFacts, CallFacts
  <1>2. b \in BOOLEAN
    OBVIOUS
  <1>3. search' = s
    BY DEF Leased
  <1>4. b => acked <= commit[n]
    BY <1>1, LeasedIsFresh DEF ReadInv, IsValid
  <1>5. commit[n] \in Nat
    BY <1>1 DEF ReadInv, LeaseReadInv, ServerTypes
  <1> HIDE DEF b
  <1>6. s \in [pc: Steps, at: Nodes, via: Seq(Nodes), backed: BOOLEAN] /\ s.pc = "applied" /\ (s.backed <=> b) /\ s.at = n
    BY <1>1, <1>2 DEF Steps
  <1> HIDE DEF s, n
  <1>7. s.backed => call.acked <= commit[s.at]
    BY <1>1, <1>4, <1>5, <1>6
  <1>8. SearchOk(s, call, commit, applied)
    BY <1>6, <1>7, StepOk
  <1> QED
    BY <1>3, <1>8

LEMMA FailOk ==
    ASSUME ReadInv, search.pc \in Steps, NEW n \in Nodes, Fail(n)
    PROVE  SearchOk(search', call, commit, applied)
  <1>1. hint[n] \in Nodes \union {None}
    BY DEF ReadInv, LeaseReadInv, ServerTypes
  <1>2. Reply("error", None) \/ Reply("redirect", hint[n])
    BY DEF Fail
  <1> QED
    BY <1>1, <1>2, ReplyOk

LEMMA HandlerOk ==
    ASSUME ReadInv, SearchForward \/ EnsureLease \/ RecheckLease \/ WaitApplied \/ SearchIndex \/ ForwardFails \/ WaitTimeout
    PROVE  SearchOk(search', call, commit, applied)
  <1> DEFINE n == search.at
             TS == [pc: Steps, at: Nodes, via: Seq(Nodes), backed: BOOLEAN]
  <1>1. search.pc \in Steps
    <2>1. search.pc \in Steps \union {"none", "answered"}
      BY DEF ReadInv, SearchOk
    <2> QED
      BY <2>1 DEF SearchForward, EnsureLease, RecheckLease, WaitApplied, SearchIndex, ForwardFails, WaitTimeout, Steps
  <1>2. n \in Nodes /\ search \in TS /\ search.via \in Seq(Nodes) /\ search.backed \in BOOLEAN /\ hint[n] \in Nodes \union {None}
    BY <1>1, SearchFacts DEF ReadInv, LeaseReadInv, ServerTypes
  <1>3. CASE SearchForward
    <2> DEFINE h == hint[n]
    <2>1. CASE h \notin {None, n} /\ Len(search.via) < MaxHops
      <3> DEFINE v == Append(search.via, h) s == [search EXCEPT !.at = h, !.via = v]
      <3>1. search' = s /\ search.pc = "enter" /\ h \in Nodes
        BY <1>2, <1>3, <2>1 DEF SearchForward
      <3>2. v \in Seq(Nodes)
        BY <1>2, <3>1
      <3> HIDE DEF v
      <3>3. s \in TS /\ s.pc = "enter"
        BY <1>2, <3>1, <3>2
      <3> HIDE DEF s
      <3>4. SearchOk(s, call, commit, applied)
        BY <1>1, <3>3, StepOk
      <3> QED
        BY <3>1, <3>4
    <2>2. CASE ~(h \notin {None, n} /\ Len(search.via) < MaxHops)
      <3>1. Reply("redirect", h)
        BY <1>3, <2>2 DEF SearchForward
      <3> QED
        BY <1>1, <1>2, <3>1, ReplyOk
    <2> QED
      BY <2>1, <2>2
  <1>4. CASE EnsureLease
    <2>1. CASE IsValid(n)
      BY <1>1, <1>4, <2>1, LeasedOk DEF EnsureLease
    <2>2. CASE ~IsValid(n)
      <3> DEFINE s == [search EXCEPT !.pc = "round"]
      <3>1. search' = s
        BY <1>4, <2>2 DEF EnsureLease
      <3>2. s \in TS /\ s.pc = "round"
        BY <1>2 DEF Steps
      <3> HIDE DEF s
      <3>3. SearchOk(s, call, commit, applied)
        BY <1>1, <3>2, StepOk
      <3> QED
        BY <3>1, <3>3
    <2> QED
      BY <2>1, <2>2
  <1>5. CASE RecheckLease
    <2>1. CASE IsValid(n)
      BY <1>1, <1>5, <2>1, LeasedOk DEF RecheckLease
    <2>2. CASE ~IsValid(n)
      BY <1>1, <1>2, <1>5, <2>2, FailOk DEF RecheckLease
    <2> QED
      BY <2>1, <2>2
  <1>6. CASE WaitApplied
    <2> DEFINE s == [search EXCEPT !.pc = "search"]
    <2>1. search' = s /\ search.pc = "applied" /\ applied[n] >= commit[n]
      BY <1>6 DEF WaitApplied
    <2>2. s \in TS /\ s.pc = "search" /\ (s.backed <=> search.backed) /\ s.at = n
      BY <1>2 DEF Steps
    <2> HIDE DEF s
    <2>3. applied[n] \in Nat /\ commit[n] \in Nat /\ call.acked \in Nat
      BY <1>1, <1>2, SearchFacts, CallFacts DEF ReadInv, LeaseReadInv, ServerTypes
    <2>4. search.backed => call.acked <= commit[n]
      BY <2>1 DEF ReadInv, SearchOk
    <2>5. s.backed => call.acked <= applied[s.at]
      BY <2>1, <2>2, <2>3, <2>4
    <2>6. SearchOk(s, call, commit, applied)
      BY <1>1, <2>2, <2>5, StepOk
    <2> QED
      BY <2>1, <2>6
  <1>7. CASE SearchIndex
    <2>1. Reply("ok", applied[n]) /\ (search.backed => call.acked <= applied[n])
      BY <1>7 DEF SearchIndex, ReadInv, SearchOk
    <2> QED
      BY <1>1, <2>1, ReplyOk
  <1>8. CASE ForwardFails
    <2>1. PICK i \in DOMAIN search.via : Reply("redirect", search.via[i])
      BY <1>8 DEF ForwardFails
    <2>2. search.via[i] \in Nodes
      BY <1>2, <2>1, ElementOfSeq, LenProperties
    <2> QED
      BY <1>1, <2>1, <2>2, ReplyOk
  <1>9. CASE WaitTimeout
    BY <1>1, <1>2, <1>9, FailOk DEF WaitTimeout
  <1> QED
    BY <1>3, <1>4, <1>5, <1>6, <1>7, <1>8, <1>9

\* What a step of the servers leaves alone.
LEMMA ServerFrame ==
    ASSUME ServerStep
    PROVE  /\ budget' = budget /\ config' = config
           /\ \/ search' = search
              \/ SearchForward \/ EnsureLease \/ RecheckLease \/ WaitApplied \/ SearchIndex \/ ForwardFails \/ WaitTimeout
  <1> DEFINE Frame == budget' = budget /\ config' = config /\ search' = search
  <1>1. ASSUME NEW n \in Nodes, BeginRound(n) \/ Apply(n) \/ ElectionLoop(n) PROVE Frame
    BY <1>1 DEF BeginRound, Apply, ElectionLoop
  <1>2. ASSUME NEW n \in Nodes, NEW S \in SUBSET (Nodes \ {n}), Campaign(n, S) PROVE Frame
    BY <1>2 DEF Campaign
  <1>3. ASSUME NEW n \in Nodes, NEW S \in SUBSET (Nodes \ {n}), NEW k \in {0, 1}, Replicate(n, S, k) PROVE Frame
    BY <1>3 DEF Replicate
  <1>4. ASSUME NEW n \in Nodes, NEW t \in Threads, EndRound(n, t) PROVE Frame
    BY <1>4 DEF EndRound
  <1>5. ASSUME NEW n \in Nodes, NEW t \in Threads, NEW p \in Nodes, HandleHeartbeat(n, t, p) \/ HeartbeatLost(n, t, p)
        PROVE  Frame
    BY <1>5 DEF HandleHeartbeat, HeartbeatLost
  <1>6. Tick => Frame
    BY DEF Tick
  <1> DEFINE Handler == SearchForward \/ EnsureLease \/ RecheckLease \/ WaitApplied \/ SearchIndex \/ ForwardFails \/ WaitTimeout
  <1>7. Handler => budget' = budget /\ config' = config
    BY DEF SearchForward, EnsureLease, RecheckLease, WaitApplied, SearchIndex, ForwardFails, WaitTimeout
  <1> HIDE DEF Frame
  <1>8. Frame \/ Handler
    BY ServerCases, <1>1, <1>2, <1>3, <1>4, <1>5, <1>6
  <1> QED
    BY <1>7, <1>8 DEF Frame

LEMMA ReadServer ==
    ASSUME ReadInv, ServerStep, UNCHANGED clientVars
    PROVE  ReadInv'
  <1>1. UNCHANGED <<cache, call, probe, result>> /\ budget' = budget
    BY ServerFrame DEF clientVars
  <1>2. LeaseReadInv /\ DueInv
    BY DEF ReadInv
  <1>3. SearchAt
    BY SearchFacts DEF SearchAt
  <1>4. LeaseReadInv' /\ DueInv' /\ DataGrows
    BY <1>2, <1>3, InvServer, DueServer, ServerGrows
  <1>5. /\ commit \in [Nodes -> Nat] /\ commit' \in [Nodes -> Nat] /\ applied \in [Nodes -> Nat]
        /\ applied' \in [Nodes -> Nat] /\ acked \in Nat /\ acked' \in Nat
    BY <1>2, <1>4 DEF LeaseReadInv, ServerTypes
  <1>6. CallInv'
    <2>1. CallTypes' = CallTypes
      BY <1>1 DEF CallTypes
    <2>2. ASSUME call # Idle
          PROVE  call \in CallTypes /\ call.acked <= acked' /\ (call.pc \in {"query", "send", "wait"} => call.target \in Nodes)
      <3>1. call \in CallTypes /\ call.acked <= acked /\ (call.pc \in {"query", "send", "wait"} => call.target \in Nodes)
        BY <2>2 DEF ReadInv, CallInv
      <3>2. call.acked \in Nat
        BY <3>1 DEF CallTypes
      <3>3. call.acked <= acked'
        BY <1>4, <1>5, <3>1, <3>2 DEF DataGrows
      <3> QED
        BY <3>1, <3>3
    <2> QED
      BY <1>1, <2>1, <2>2 DEF ReadInv, CallInv
  <1>7. SearchOk(search', call, commit', applied')
    <2>1. CASE search' = search
      <3> DEFINE com2 == commit' app2 == applied'
      <3>1. /\ com2 \in [Nodes -> Nat] /\ app2 \in [Nodes -> Nat]
            /\ \A p \in Nodes : commit[p] <= com2[p] /\ applied[p] <= app2[p]
        BY <1>4, <1>5 DEF DataGrows
      <3>2. SearchOk(search, call, commit, applied) /\ (search.pc # "none" => call.acked \in Nat)
        BY CallFacts DEF ReadInv
      <3> HIDE DEF com2, app2
      <3>3. SearchOk(search, call, com2, app2)
        BY <1>5, <3>1, <3>2, SearchKept
      <3> QED
        BY <2>1, <3>3 DEF com2, app2
    <2>2. CASE SearchForward \/ EnsureLease \/ RecheckLease \/ WaitApplied \/ SearchIndex \/ ForwardFails \/ WaitTimeout
      <3>1. commit' = commit /\ applied' = applied
        BY <2>2 DEF SearchForward, EnsureLease, RecheckLease, WaitApplied, SearchIndex, ForwardFails, WaitTimeout, dataVars
      <3>2. SearchOk(search', call, commit, applied)
        BY <2>2, HandlerOk
      <3> QED
        BY <3>1, <3>2
    <2> QED
      BY ServerFrame, <2>1, <2>2
  <1>8. ReadsFresh'
    BY <1>1 DEF ReadsFresh, ReadInv
  <1> QED
    BY <1>1, <1>4, <1>6, <1>7, <1>8 DEF ReadInv

(***************************************************************************)
(* The client.                                                             *)
(***************************************************************************)

\* A step of the client: what it has to show.
LEMMA ClientKeeps ==
    ASSUME ReadInv, UNCHANGED <<budget, leaseVars>>, CallInv', SearchOk(search', call', commit, applied), ReadsFresh'
    PROVE  ReadInv'
  <1> DueInv'
    BY DEF ReadInv, DueInv, Covered, leaseVars, nodeVars
  <1>1. LeaseReadInv' /\ commit' = commit /\ applied' = applied
    BY InvSame DEF ReadInv, leaseVars, dataVars
  <1> QED
    BY <1>1 DEF ReadInv

LEMMA EndFacts ==
    ASSUME NEW outcome, NEW value, NEW backed, End(outcome, value, backed),
           call.kind = "search" /\ outcome = "ok" /\ backed => value >= call.acked
    PROVE  call' = Idle /\ ReadsFresh'
  <1> DEFINE r == [pc |-> "ended", kind |-> call.kind, outcome |-> outcome, value |-> value,
                   backed |-> backed, acked |-> call.acked, calm |-> calm]
  <1>1. call' = Idle /\ result' = r
    BY DEF End
  <1>2. r.kind = call.kind /\ r.outcome = outcome /\ r.value = value /\ (r.backed <=> backed) /\ r.acked = call.acked
    OBVIOUS
  <1> HIDE DEF r
  <1>3. r # Idle /\ r.kind = "search" /\ r.outcome = "ok" /\ r.backed => r.value >= r.acked
    BY <1>2
  <1> QED
    BY <1>1, <1>3 DEF ReadsFresh

LEMMA NoSearchOk ==
    ASSUME NEW s, NEW c, NEW com, NEW app, s.pc = "none", c = Idle \/ c.pc # "wait"
    PROVE  SearchOk(s, c, com, app)
  BY DEF SearchOk, Steps

LEMMA NotWaiting ==
    ASSUME ReadInv, call.pc # "wait"
    PROVE  search.pc = "none"
  BY DEF ReadInv, SearchOk

LEMMA CallTyped ==
    ASSUME ReadInv, call.pc \in {"probe", "query", "send", "wait"}
    PROVE  /\ call # Idle /\ call \in CallTypes /\ call.acked \in Nat /\ call.acked <= acked /\ call.attempt \in Nat
           /\ call.target \in Nodes \union {None}
           /\ call.pc # "probe" => call.target \in Nodes
  <1>1. call # Idle
    BY DEF Idle
  <1> QED
    BY <1>1 DEF ReadInv, CallInv, CallTypes

\* The call has ended or goes on without a search.
Resumed ==
  \/ call' = Idle
  \/ /\ call' \in CallTypes /\ call'.pc # "wait" /\ call'.acked <= acked
     /\ call'.pc # "probe" => call'.target \in Nodes

LEMMA ResumedKeeps ==
    ASSUME ReadInv, UNCHANGED <<budget, leaseVars>>, Resumed, search'.pc = "none", cache' \in Nodes \union {None},
           probe' \in [pending: SUBSET Nodes, selected: Nodes \union {None}], ReadsFresh'
    PROVE  ReadInv'
  <1>1. CallTypes' = CallTypes /\ acked' = acked
    BY DEF CallTypes, leaseVars, dataVars
  <1>2. CallInv'
    BY <1>1 DEF Resumed, CallInv
  <1>3. call' = Idle \/ call'.pc # "wait"
    BY DEF Resumed
  <1>4. SearchOk(search', call', commit, applied)
    BY <1>3, NoSearchOk
  <1> QED
    BY <1>2, <1>4, ClientKeeps

LEMMA FreshSame ==
    ASSUME ReadInv, result' = result
    PROVE  ReadsFresh'
  BY DEF ReadInv, ReadsFresh

LEMMA RetryFacts ==
    ASSUME ReadInv, call.pc \in {"send", "wait"}, NEW target \in Nodes, Retry(target)
    PROVE  Resumed /\ ReadsFresh'
  <1>1. CASE call.attempt = config.max_retry
    <2>1. End("exhausted", None, FALSE)
      BY <1>1 DEF Retry
    <2>2. call' = Idle /\ ReadsFresh'
      BY <2>1, EndFacts
    <2> QED
      BY <2>2 DEF Resumed
  <1>2. CASE call.attempt # config.max_retry
    <2> DEFINE a == call.attempt + 1 c == [call EXCEPT !.pc = "send", !.target = target, !.attempt = a]
    <2>1. call' = c /\ result' = result
      BY <1>2 DEF Retry
    <2>2. call \in CallTypes /\ a \in Nat /\ call.acked <= acked
      BY CallTyped
    <2> HIDE DEF a
    <2>3. c \in CallTypes /\ c.pc = "send" /\ c.target = target /\ c.acked = call.acked
      BY <2>2 DEF CallTypes
    <2> HIDE DEF c
    <2>4. ReadsFresh'
      BY <2>1, FreshSame
    <2> QED
      BY <2>1, <2>2, <2>3, <2>4 DEF Resumed
  <1> QED
    BY <1>1, <1>2

LEMMA JudgeFacts ==
    ASSUME ReadInv, call.pc \in {"send", "wait"}, NEW kind, NEW value, NEW backed, Judge(kind, value, backed),
           kind = "redirect" => value \in Nodes \union {None},
           kind = "ok" /\ backed => value >= call.acked
    PROVE  Resumed /\ ReadsFresh' /\ cache' \in Nodes \union {None}
  <1>1. call.target \in Nodes /\ cache \in Nodes \union {None}
    BY CallTyped DEF ReadInv, CallInv
  <1>2. cache' \in Nodes \union {None}
    BY <1>1 DEF Judge
  <1>3. CASE kind = "ok"
    <2>1. End("ok", value, backed)
      BY <1>3 DEF Judge
    <2>2. call' = Idle /\ ReadsFresh'
      BY <1>3, <2>1, EndFacts
    <2> QED
      BY <1>2, <2>2 DEF Resumed
  <1>4. CASE kind = "redirect" /\ value # None
    <2>1. Retry(value) /\ value \in Nodes
      BY <1>4 DEF Judge
    <2> QED
      BY <1>2, <2>1, RetryFacts
  <1>5. CASE kind = "error"
    <2>1. End("error", None, FALSE)
      BY <1>5 DEF Judge
    <2>2. call' = Idle /\ ReadsFresh'
      BY <2>1, EndFacts
    <2> QED
      BY <1>2, <2>2 DEF Resumed
  <1>6. CASE ~(kind = "ok" \/ (kind = "redirect" /\ value # None) \/ kind = "error")
    <2>1. RetryElsewhere
      BY <1>6 DEF Judge
    <2>2. PICK p \in Nodes : Retry(p)
      BY <2>1 DEF RetryElsewhere
    <2> QED
      BY <1>2, <2>2, RetryFacts
  <1> QED
    BY <1>3, <1>4, <1>5, <1>6

LEMMA ReadBegin ==
    ASSUME ReadInv, NEW kind \in budget.kinds, NEW c \in Nodes \union {None}, Begin(kind, c)
    PROVE  ReadInv'
  <1> DEFINE x == IF c = None THEN "probe" ELSE IF kind = "get" THEN "query" ELSE "send"
             k == [pc |-> x, kind |-> kind, target |-> c, attempt |-> 0, acked |-> acked]
  <1>1. /\ call = Idle /\ cache' = c /\ call' = k /\ UNCHANGED <<serverVars, result>>
        /\ probe' = IF c = None THEN [pending |-> Nodes, selected |-> None] ELSE NoProbe
    BY DEF Begin
  <1>2. acked \in Nat
    BY DEF ReadInv, LeaseReadInv, ServerTypes
  <1>3. x \in {"probe", "query", "send"} /\ (x # "probe" => c \in Nodes)
    OBVIOUS
  <1> HIDE DEF x
  <1>4. k \in CallTypes /\ k.pc = x /\ k.target = c /\ k.acked = acked
    BY <1>2, <1>3 DEF CallTypes
  <1> HIDE DEF k
  <1>5. Resumed
    BY <1>1, <1>2, <1>3, <1>4 DEF Resumed
  <1>6. search'.pc = "none"
    <2>1. call.pc # "wait"
      BY <1>1 DEF Idle
    <2> QED
      BY <1>1, <2>1, NotWaiting DEF serverVars
  <1>7. probe' \in [pending: SUBSET Nodes, selected: Nodes \union {None}]
    BY <1>1 DEF NoProbe
  <1>8. ReadsFresh' /\ UNCHANGED <<budget, leaseVars>>
    BY <1>1, FreshSame DEF serverVars, leaseVars
  <1> QED
    BY <1>1, <1>5, <1>6, <1>7, <1>8, ResumedKeeps

LEMMA ReadQueryCached ==
    ASSUME ReadInv, QueryCached
    PROVE  ReadInv'
  <1>1. call.pc = "query" /\ UNCHANGED <<budget, leaseVars>> /\ search' = search
    BY DEF QueryCached, leaseVars
  <1>2. /\ call \in CallTypes /\ call.target \in Nodes /\ call.acked <= acked
    BY <1>1, CallTyped
  <1>3. hint[call.target] \in Nodes \union {None} /\ cache \in Nodes \union {None}
        /\ probe \in [pending: SUBSET Nodes, selected: Nodes \union {None}]
    BY <1>2 DEF ReadInv, CallInv, LeaseReadInv, ServerTypes
  <1>4. search'.pc = "none"
    BY <1>1, NotWaiting
  <1>5. CASE cache' = hint[call.target] /\ End("ok", hint[call.target], FALSE) /\ probe' = probe
    <2>1. call' = Idle /\ ReadsFresh'
      BY <1>5, EndFacts
    <2> QED
      BY <1>1, <1>3, <1>4, <1>5, <2>1, ResumedKeeps DEF Resumed
  <1>6. CASE StartProbe /\ cache' = cache /\ result' = result
    <2> DEFINE c == [call EXCEPT !.pc = "probe"]
    <2>1. call' = c /\ probe' = [pending |-> Nodes, selected |-> None]
      BY <1>6 DEF StartProbe
    <2>2. c \in CallTypes /\ c.pc = "probe" /\ c.acked = call.acked
      BY <1>2 DEF CallTypes
    <2> HIDE DEF c
    <2>3. Resumed
      BY <1>2, <2>1, <2>2 DEF Resumed
    <2>4. ReadsFresh' /\ probe' \in [pending: SUBSET Nodes, selected: Nodes \union {None}]
      BY <1>6, <2>1, FreshSame
    <2> QED
      BY <1>1, <1>3, <1>4, <1>6, <2>3, <2>4, ResumedKeeps
  <1> QED
    BY <1>5, <1>6 DEF QueryCached

LEMMA ReadProbe ==
    ASSUME ReadInv, NEW p \in Nodes, ProbeAnswer(p) \/ ProbeFails(p)
    PROVE  ReadInv'
  <1>1. call.pc = "probe" /\ UNCHANGED <<budget, leaseVars>> /\ search' = search /\ call' = call /\ cache' = cache /\ result' = result
    BY DEF ProbeAnswer, ProbeFails, leaseVars, serverVars
  <1>2. call \in CallTypes /\ call.acked <= acked
    BY <1>1, CallTyped
  <1>3. hint[p] \in Nodes \union {None} /\ cache \in Nodes \union {None}
        /\ probe \in [pending: SUBSET Nodes, selected: Nodes \union {None}]
    BY DEF ReadInv, CallInv, LeaseReadInv, ServerTypes
  <1>4. search'.pc = "none"
    BY <1>1, NotWaiting
  <1>5. probe' \in [pending: SUBSET Nodes, selected: Nodes \union {None}]
    BY <1>3 DEF ProbeAnswer, ProbeFails, Select
  <1>6. Resumed
    BY <1>1, <1>2 DEF Resumed
  <1>7. ReadsFresh'
    BY <1>1, FreshSame
  <1> QED
    BY <1>1, <1>3, <1>4, <1>5, <1>6, <1>7, ResumedKeeps

LEMMA ReadProbeEnd ==
    ASSUME ReadInv, ProbeEnd
    PROVE  ReadInv'
  <1>1. call.pc = "probe" /\ UNCHANGED <<budget, leaseVars>> /\ search' = search /\ probe' = NoProbe
    BY DEF ProbeEnd, leaseVars, serverVars
  <1>2. call \in CallTypes /\ call.acked <= acked
    BY <1>1, CallTyped
  <1>3. cache \in Nodes \union {None} /\ probe.selected \in Nodes \union {None}
    BY DEF ReadInv, CallInv
  <1>4. search'.pc = "none"
    BY <1>1, NotWaiting
  <1>5. probe' \in [pending: SUBSET Nodes, selected: Nodes \union {None}]
    BY <1>1 DEF NoProbe
  <1>6. Resumed /\ ReadsFresh' /\ cache' \in Nodes \union {None}
    <2>1. CASE probe.selected = None
      <3>1. call' = Idle /\ ReadsFresh'
        BY <2>1, EndFacts DEF ProbeEnd
      <3> QED
        BY <1>3, <2>1, <3>1 DEF ProbeEnd, Resumed
    <2>2. CASE probe.selected # None /\ call.kind = "get"
      <3>1. End("ok", probe.selected, FALSE) /\ cache' = probe.selected
        BY <2>2 DEF ProbeEnd
      <3>2. call' = Idle /\ ReadsFresh'
        BY <3>1, EndFacts
      <3> QED
        BY <1>3, <3>1, <3>2 DEF Resumed
    <2>3. CASE probe.selected # None /\ call.kind # "get"
      <3> DEFINE c == [call EXCEPT !.pc = "send", !.target = probe.selected]
      <3>1. call' = c /\ cache' = cache /\ result' = result /\ probe.selected \in Nodes
        BY <1>3, <2>3 DEF ProbeEnd
      <3>2. c \in CallTypes /\ c.pc = "send" /\ c.target = probe.selected /\ c.acked = call.acked
        BY <1>2, <3>1 DEF CallTypes
      <3> HIDE DEF c
      <3>3. ReadsFresh'
        BY <3>1, FreshSame
      <3> QED
        BY <1>2, <1>3, <3>1, <3>2, <3>3 DEF Resumed
    <2> QED
      BY <2>1, <2>2, <2>3
  <1> QED
    BY <1>1, <1>4, <1>5, <1>6, ResumedKeeps

LEMMA ReadSend ==
    ASSUME ReadInv, Send
    PROVE  ReadInv'
  <1> DEFINE c == [call EXCEPT !.pc = "wait"] s == NewSearch(call.target)
  <1>1. /\ call.pc = "send" /\ UNCHANGED <<budget, leaseVars>> /\ search' = s /\ call' = c
        /\ UNCHANGED <<cache, probe, result>>
    BY DEF Send, leaseVars
  <1>2. call \in CallTypes /\ call.acked <= acked /\ call.target \in Nodes
    BY <1>1, CallTyped
  <1>3. c \in CallTypes /\ c.pc = "wait" /\ c.acked = call.acked /\ c.target = call.target /\ c # Idle
    BY <1>2 DEF CallTypes, Idle
  <1>4. s.pc = "enter" /\ s \in [pc: Steps, at: Nodes, via: Seq(Nodes), backed: BOOLEAN]
    BY <1>2 DEF NewSearch, Steps
  <1> HIDE DEF c, s
  <1>5. SearchOk(s, c, commit, applied)
    BY <1>3, <1>4 DEF SearchOk, Steps
  <1>6. CallInv'
    <2>1. CallTypes' = CallTypes /\ acked' = acked
      BY <1>1 DEF CallTypes, leaseVars, dataVars
    <2>2. c \in CallTypes /\ c.acked <= acked /\ c.target \in Nodes
      BY <1>2, <1>3
    <2> QED
      BY <1>1, <2>1, <2>2 DEF ReadInv, CallInv
  <1> QED
    BY <1>1, <1>5, <1>6, FreshSame, ClientKeeps

LEMMA ReadReceive ==
    ASSUME ReadInv, Receive
    PROVE  ReadInv'
  <1>1. /\ call.pc = "wait" /\ search.pc = "answered" /\ Judge(search.kind, search.value, search.backed)
        /\ UNCHANGED <<budget, leaseVars>> /\ search' = NoSearch /\ probe' = probe
    BY DEF Receive, leaseVars
  <1> DEFINE kind == search.kind value == search.value backed == search.backed
  <1>2. /\ kind = "redirect" => value \in Nodes \union {None}
        /\ kind = "ok" /\ backed => call.acked <= value
    BY <1>1 DEF ReadInv, SearchOk
  <1>3. Judge(kind, value, backed)
    BY <1>1
  <1> HIDE DEF kind, value, backed
  <1>4. Resumed /\ ReadsFresh' /\ cache' \in Nodes \union {None}
    <2>1. kind = "ok" /\ backed => value >= call.acked
      BY <1>2
    <2> QED
      BY <1>1, <1>2, <1>3, <2>1, JudgeFacts
  <1>5. search'.pc = "none" /\ probe' \in [pending: SUBSET Nodes, selected: Nodes \union {None}]
    BY <1>1 DEF NoSearch, ReadInv, CallInv
  <1> QED
    BY <1>1, <1>4, <1>5, ResumedKeeps

LEMMA ReadSendFails ==
    ASSUME ReadInv, SendFails
    PROVE  ReadInv'
  <1>1. /\ call.pc \in {"send", "wait"} /\ RetryElsewhere /\ UNCHANGED <<budget, leaseVars>>
        /\ search' = NoSearch /\ UNCHANGED <<cache, probe>>
    BY DEF SendFails, leaseVars
  <1>2. PICK p \in Nodes : Retry(p)
    BY <1>1 DEF RetryElsewhere
  <1>3. Resumed /\ ReadsFresh'
    BY <1>1, <1>2, RetryFacts
  <1>4. /\ search'.pc = "none" /\ cache' \in Nodes \union {None}
        /\ probe' \in [pending: SUBSET Nodes, selected: Nodes \union {None}]
    BY <1>1 DEF NoSearch, ReadInv, CallInv
  <1> QED
    BY <1>1, <1>3, <1>4, ResumedKeeps

LEMMA ReadWriteAnswer ==
    ASSUME ReadInv, WriteAnswer
    PROVE  ReadInv'
  <1>1. call.pc = "send" /\ UNCHANGED <<budget, leaseVars>> /\ search' = search /\ probe' = probe
    BY DEF WriteAnswer, serverVars, leaseVars
  <1>2. hint[call.target] \in Nodes \union {None}
    BY <1>1, CallTyped DEF ReadInv, LeaseReadInv, ServerTypes
  <1>3. PICK kind, value : /\ Judge(kind, value, FALSE)
                           /\ kind = "redirect" => value \in Nodes \union {None}
    BY <1>2 DEF WriteAnswer
  <1>4. Resumed /\ ReadsFresh' /\ cache' \in Nodes \union {None}
    BY <1>1, <1>3, JudgeFacts
  <1>5. search'.pc = "none" /\ probe' \in [pending: SUBSET Nodes, selected: Nodes \union {None}]
    BY <1>1, NotWaiting DEF ReadInv, CallInv
  <1> QED
    BY <1>1, <1>4, <1>5, ResumedKeeps

LEMMA ReadStep == ReadInv /\ [Next]_vars => ReadInv'
  <1> SUFFICES ASSUME ReadInv, [Next]_vars PROVE ReadInv'
    OBVIOUS
  <1>1. CASE ServerStep /\ UNCHANGED clientVars
    BY <1>1, ReadServer
  <1>2. ASSUME NEW kind \in budget.kinds, NEW c \in Nodes \union {None}, Begin(kind, c) PROVE ReadInv'
    BY <1>2, ReadBegin
  <1>3. ASSUME NEW p \in Nodes, ProbeAnswer(p) \/ ProbeFails(p) PROVE ReadInv'
    BY <1>3, ReadProbe
  <1>4. CASE QueryCached \/ ProbeEnd \/ Send \/ Receive \/ WriteAnswer \/ SendFails
    BY <1>4, ReadQueryCached, ReadProbeEnd, ReadSend, ReadReceive, ReadWriteAnswer, ReadSendFails
  <1>5. CASE UNCHANGED vars
    <2>1. UNCHANGED <<budget, leaseVars>> /\ UNCHANGED <<search, call, cache, probe, result>>
      BY <1>5 DEF vars, serverVars, clientVars, leaseVars
    <2>2. CallTypes' = CallTypes /\ acked' = acked
      BY <2>1 DEF CallTypes, leaseVars, dataVars
    <2>3. CallInv'
      BY <2>1, <2>2 DEF ReadInv, CallInv
    <2>4. SearchOk(search', call', commit, applied)
      BY <2>1 DEF ReadInv
    <2> QED
      BY <2>1, <2>3, <2>4, FreshSame, ClientKeeps
  <1> QED
    BY <1>1, <1>2, <1>3, <1>4, <1>5 DEF Next, ClientStep

LEMMA ReadInitial == ClientInit => ReadInv
  <1> SUFFICES ASSUME ClientInit PROVE ReadInv
    OBVIOUS
  <1>1. search = NoSearch /\ call = Idle /\ result = Idle /\ cache = None /\ probe = NoProbe
    BY DEF ClientInit, Init
  <1>2. search.pc = "none" /\ SearchOk(search, call, commit, applied)
    BY <1>1, NoSearchOk DEF NoSearch
  <1>3. CallInv
    BY <1>1 DEF CallInv, NoProbe
  <1>4. ReadsFresh
    BY <1>1 DEF ReadsFresh
  <1>5. DueInv
    BY DEF ClientInit, Init, DueInv
  <1> QED
    BY <1>2, <1>3, <1>4, <1>5, LeaseReadInit DEF ReadInv

(***************************************************************************)
(* Through every election, heartbeat, lost answer, lease and forwarded     *)
(* search the nodes keep ReadInv: the inductive invariant of leases, logs  *)
(* and of the client's searches.                                           *)
(***************************************************************************)
THEOREM ReadInvariant == Spec => []ReadInv
  BY ReadInitial, ReadStep, PTL DEF Spec

(***************************************************************************)
(* A node runs with a positive lease, and every file that LoadFromFile     *)
(* accepts keeps the promises of Usable (src/src/common/config.cpp).       *)
(***************************************************************************)
THEOREM ConfigIsUsable == Spec => []ConfigUsable
  <1>1. ReadInv => ConfigUsable
    BY AllUsable DEF ReadInv, LeaseReadInv, ConfigInv, ConfigUsable
  <1> QED
    BY <1>1, ReadInvariant, PTL

(***************************************************************************)
(* While a lease that rests on a round answered by every node within the   *)
(* drift bound lasts, and by none between its look at its deadline and its *)
(* candidacy, nobody leads a later term (BroadcastHeartbeat, LeaseManager, *)
(* ElectionLoop).                                                          *)
(***************************************************************************)
THEOREM LeaseIsExclusive == Spec => []LeaseExclusive
  <1>1. ReadInv => LeaseExclusive
    BY DEF ReadInv, LeaseReadInv, LeaseInv, Covered, LeaseExclusive, IsValid
  <1> QED
    BY <1>1, ReadInvariant, PTL

(***************************************************************************)
(* A search answered on such a lease by a leader that has committed an     *)
(* entry of its term returns every write acknowledged before the search    *)
(* began (EnsureLeaseReadable, LeaseRead, HandleClientSearch).             *)
(***************************************************************************)
THEOREM ReadsAreFresh == Spec => []ReadsFresh
  <1>1. ReadInv => ReadsFresh
    BY DEF ReadInv
  <1> QED
    BY <1>1, ReadInvariant, PTL

(***************************************************************************)
(* Searches among settled nodes.                                           *)
(***************************************************************************)

SettledAt(l) == role[l] = "leader" /\ \A n \in Nodes : hint[n] = l /\ term[n] = term[l]

\* The read's own round, so far without a refusal.
RoundClean(l) ==
  /\ round[l]["read"] # NoRound
  /\ round[l]["read"].term = term[l] /\ round[l]["read"].high = term[l]
  /\ \A p \in Nodes \ {l} : round[l]["read"].answer[p] # "bad"

\* The handler of a search that ends at the leader l, whose lease stands or is being renewed.
SearchOnCourse(s, l, clean) ==
  /\ s.pc = "enter" => s.at = l \/ s.via = <<>>
  /\ s.pc \in {"round", "applied", "search"} => s.at = l
  /\ s.pc = "round" => clean
  /\ s.pc = "answered" => s.kind = "ok"

\* The call is on its way to the leader l, or waits there.
OnCourse(l) ==
  /\ call.attempt = 0 /\ call.pc # "query"
  /\ call.pc = "probe" => probe.selected = l \/ (probe.selected = None /\ probe.pending = Nodes)
  /\ SearchOnCourse(search, l, IsValid(l) \/ RoundClean(l))

CourseInv ==
  /\ faults \in Nat
  /\ call # Idle /\ call.kind = "search" /\ calm => \E l \in Nodes : SettledAt(l) /\ OnCourse(l)

LEMMA StateIsRound ==
    ASSUME NEW n \in Nodes, NEW v, v \in RoundState(n)
    PROVE  v # NoRound
  <1>1. DOMAIN v = {"term", "commit", "age", "high", "answer"}
    BY DEF RoundState
  <1>2. DOMAIN NoRound = {"term"}
    BY DEF NoRound
  <1>3. "age" \in DOMAIN v /\ "age" \notin DOMAIN NoRound
    BY <1>1, <1>2
  <1> QED
    BY <1>3

\* Nodes that are settled before and after a step have the same leader and term.
LEMMA SameLeader ==
    ASSUME LeaseReadInv, NEW l \in Nodes, SettledAt(l), NEW n \in Nodes, Claim(n, term[l])
    PROVE  n = l
  <1>1. term[l] \in Nat /\ Claim(l, term[l])
    BY DEF LeaseReadInv, ServerTypes, SettledAt, Claim
  <1> QED
    BY <1>1 DEF LeaseReadInv, ClaimsInv

LEMMA SettledHeartbeat ==
    ASSUME LeaseReadInv, NEW l \in Nodes, SettledAt(l), NEW n \in Nodes, NEW t \in Threads, NEW p \in Nodes,
           HandleHeartbeat(n, t, p)
    PROVE  /\ term' = term /\ hint' = hint /\ role'[l] = "leader"
           /\ RoundClean(l) => RoundClean(l)'
  <1> DEFINE r == round[n][t]
  <1>1. r # NoRound /\ p # n /\ r.answer[p] = "net"
    BY DEF HandleHeartbeat, Pending
  <1>2. /\ r \in RoundState(n) /\ r.term \in Nat /\ r.high \in Nat /\ r.term <= term[n] /\ Claim(n, r.term)
        /\ term \in [Nodes -> Nat] /\ hint \in [Nodes -> Nodes \union {None}] /\ term[n] = term[l] /\ term[p] = term[l]
        /\ role \in [Nodes -> {"follower", "candidate", "leader"}] /\ hint[p] = l /\ r.term <= r.high
    BY <1>1 DEF LeaseReadInv, ServerTypes, RoundState, RoundsInv, RoundInv, Claim, SettledAt
  <1>3. CASE r.term < term[p]
    <2> DEFINE v == Answered(r, p, FALSE, term[p])
    <2>1. round' = [round EXCEPT ![n][t] = v] /\ UNCHANGED nodeVars
      BY <1>3 DEF HandleHeartbeat
    <2>2. RoundClean(l) => ~(n = l /\ t = "read")
      BY <1>2, <1>3 DEF RoundClean
    <2> HIDE DEF v, r
    <2>3. RoundClean(l) => round'[l]["read"] = round[l]["read"]
      <3>1. \A m \in Nodes, u \in Threads : ~(m = n /\ u = t) => round'[m][u] = round[m][u]
        BY <2>1 DEF LeaseReadInv, ServerTypes
      <3> QED
        BY <2>2, <3>1 DEF Threads
    <2> QED
      BY <2>1, <2>3 DEF RoundClean, nodeVars, SettledAt
  <1>4. CASE ~(r.term < term[p])
    <2> DEFINE v == Answered(r, p, TRUE, r.term)
    <2>1. r.term = term[l] /\ n = l
      BY <1>2, <1>4, SameLeader
    <2>2. /\ term' = [term EXCEPT ![p] = r.term] /\ hint' = [hint EXCEPT ![p] = n]
          /\ role' = [role EXCEPT ![p] = "follower"]
      BY <1>4, HeartbeatFacts
    <2>3. term' = term /\ hint' = hint /\ role'[l] = "leader"
      BY <1>1, <1>2, <2>1, <2>2 DEF SettledAt
    <2>4. round' = [round EXCEPT ![n][t] = v]
      BY <1>4 DEF HandleHeartbeat
    <2>5. AnswerIs(n, p, IF due[p] THEN "due" ELSE "ok", r, r.high, v)
      BY <1>1, <1>2, ConfirmedAnswer
    <2>6. v \in RoundState(n) /\ v.term = r.term /\ v.high = r.high
          /\ \A q \in Nodes \ {n} : v.answer[q] = "bad" => r.answer[q] = "bad"
      BY <2>5 DEF AnswerIs
    <2>7. v # NoRound
      BY <2>6, StateIsRound
    <2>8. r = round[n][t]
      OBVIOUS
    <2> HIDE DEF v, r
    <2>9. /\ round'[n][t] = v
          /\ \A m \in Nodes, u \in Threads : ~(m = n /\ u = t) => round'[m][u] = round[m][u]
      BY <2>4 DEF LeaseReadInv, ServerTypes
    <2>10. CASE t = "read"
      BY <2>1, <2>3, <2>6, <2>7, <2>8, <2>9, <2>10 DEF RoundClean
    <2>11. CASE t # "read"
      <3>1. round'[l]["read"] = round[l]["read"]
        BY <2>9, <2>11 DEF Threads
      <3> QED
        BY <2>3, <3>1 DEF RoundClean
    <2> QED
      BY <2>3, <2>10, <2>11
  <1> QED
    BY <1>3, <1>4

\* What a step leaves as it is among settled nodes.
StaysSettled(l) ==
  /\ term' = term /\ hint' = hint /\ role'[l] = "leader"
  /\ RoundClean(l) => RoundClean(l)' \/ IsValid(l)'

LEMMA OtherThread ==
    ASSUME LeaseReadInv, NEW l \in Nodes, NEW n \in Nodes, NEW t \in Threads, NEW v,
           round' = [round EXCEPT ![n][t] = v], ~(n = l /\ t = "read")
    PROVE  round'[l]["read"] = round[l]["read"]
  <1>1. \A m \in Nodes, u \in Threads : ~(m = n /\ u = t) => round'[m][u] = round[m][u]
    BY DEF LeaseReadInv, ServerTypes
  <1> QED
    BY <1>1 DEF Threads

LEMMA StaysQuietly ==
    ASSUME NEW l \in Nodes, SettledAt(l), term' = term, hint' = hint, role'[l] = role[l],
           RoundClean(l) => round'[l]["read"] = round[l]["read"]
    PROVE  StaysSettled(l)
  BY DEF StaysSettled, SettledAt, RoundClean

LEMMA SettledEndRound ==
    ASSUME LeaseReadInv, NEW l \in Nodes, SettledAt(l), NEW n \in Nodes, NEW t \in Threads, EndRound(n, t), Settled'
    PROVE  StaysSettled(l)
  <1> DEFINE r == round[n][t] v == NoRound
  <1>1. r # NoRound /\ round' = [round EXCEPT ![n][t] = v]
    BY DEF EndRound
  <1>2. \A p \in Nodes : hint'[p] # None
    BY ReadAssumption DEF Settled
  <1>3. ~(r.high > r.term /\ BecomeFollower({n}, r.high, None))
    BY <1>2 DEF BecomeFollower
  <1>4. CASE r.high > r.term
    <2>1. UNCHANGED nodeVars
      BY <1>3, <1>4 DEF EndRound
    <2>2. RoundClean(l) => ~(n = l /\ t = "read")
      <3>1. RoundClean(l) /\ n = l /\ t = "read" => r.high = r.term /\ r.term \in Nat
        BY <1>1 DEF RoundClean, LeaseReadInv, ServerTypes, RoundState
      <3> QED
        BY <1>4, <3>1
    <2>3. RoundClean(l) => round'[l]["read"] = round[l]["read"]
      BY <1>1, <2>2, OtherThread
    <2> QED
      BY <2>1, <2>3, StaysQuietly DEF nodeVars
  <1>5. CASE ~(r.high > r.term)
    <2>1. UNCHANGED <<term, role, hint>>
      BY <1>5 DEF EndRound
    <2>2. CASE ~(n = l /\ t = "read")
      BY <1>1, <2>1, <2>2, OtherThread, StaysQuietly
    <2>3. CASE n = l /\ t = "read" /\ RoundClean(l)
      <3>1. \A p \in Nodes \ {l} : r.answer[p] \in {"ok", "due"}
        <4>1. r \in RoundState(l)
          BY <1>1, <2>3 DEF LeaseReadInv, ServerTypes
        <4>2. \A p \in Nodes \ {l} : r.answer[p] \in {"net", "ok", "due", "bad"}
          BY <4>1 DEF RoundState
        <4> QED
          BY <2>3, <4>2 DEF EndRound, RoundClean
      <3>2. {p \in Nodes \ {l} : r.answer[p] \in {"ok", "due"}} = Nodes \ {l}
        BY <3>1
      <3>3. IsFiniteSet(Nodes) /\ Cardinality(Nodes) \in Nat /\ Cardinality(Nodes \ {l}) = Cardinality(Nodes) - 1
        BY ReadAssumption, FS_CardinalityType, FS_RemoveElement
      <3>4. Cardinality(Nodes \ {l}) + 1 >= QuorumSize
        BY <3>3, AllQuorum DEF IsQuorum, QuorumSize
      <3>5. lease' = [lease EXCEPT ![l] = Renew(Sound(l, r))]
        <4>1. Cardinality({p \in Nodes \ {l} : r.answer[p] \in {"ok", "due"}}) + 1 >= QuorumSize
          BY <3>2, <3>4
        <4> QED
          BY <1>5, <2>3, <4>1 DEF EndRound
      <3> DEFINE sound == Sound(l, r)
      <3>6. config.lease > 0
        BY DEF LeaseReadInv, ConfigInv
      <3>7. ~(config.lease <= 0)
        BY DEF LeaseReadInv, ConfigInv
      <3> HIDE DEF sound
      <3>8. Renew(sound).left = config.lease
        BY <3>7 DEF Renew
      <3>9. lease'[l] = Renew(sound)
        BY <3>5 DEF sound, LeaseReadInv, ServerTypes
      <3>10. lease'[l].left > 0
        BY <3>6, <3>8, <3>9
      <3> QED
        BY <2>1, <3>10 DEF StaysSettled, IsValid, SettledAt
    <2>4. CASE ~RoundClean(l)
      BY <2>1, <2>4, StaysQuietly
    <2> QED
      BY <2>2, <2>3, <2>4
  <1> QED
    BY <1>4, <1>5

LEMMA SettledReplicate ==
    ASSUME LeaseReadInv, NEW l \in Nodes, SettledAt(l), NEW n \in Nodes, NEW S \in SUBSET (Nodes \ {n}), NEW k \in {0, 1},
           Replicate(n, S, k)
    PROVE  StaysSettled(l)
  <1>1. term \in [Nodes -> Nat] /\ hint \in [Nodes -> Nodes \union {None}]
    BY DEF LeaseReadInv, ServerTypes
  <1>2. n = l
    <2>1. Claim(n, term[l])
      BY DEF Replicate, SettledAt, Claim
    <2> QED
      BY <2>1, SameLeader
  <1>3. /\ term' = [p \in Nodes |-> IF p \in S THEN term[l] ELSE term[p]]
        /\ hint' = [p \in Nodes |-> IF p \in S THEN l ELSE hint[p]]
        /\ role' = [p \in Nodes |-> IF p \in S THEN "follower" ELSE role[p]]
        /\ round' = round
    BY <1>2 DEF Replicate
  <1>4. term' = term
    BY <1>1, <1>3 DEF SettledAt
  <1>5. hint' = hint
    BY <1>1, <1>3 DEF SettledAt
  <1>6. role'[l] = role[l]
    BY <1>2, <1>3
  <1> QED
    BY <1>3, <1>4, <1>5, <1>6, StaysQuietly

\* A candidate knows no leader or itself, a leader that it deposes knows none.
LEMMA SettledCampaign ==
    ASSUME DueInv, NEW l \in Nodes, SettledAt(l), NEW n \in Nodes, NEW S \in SUBSET (Nodes \ {n}), Campaign(n, S), Settled'
    PROVE  FALSE
  <1>1. n # l
    BY DEF Campaign, SettledAt, DueInv
  <1>2. hint'[n] \in {n, None}
    BY DEF Campaign
  <1>3. hint'[l] \in {l, None}
    BY <1>1 DEF Campaign, SettledAt
  <1>4. PICK m \in Nodes : \A p \in Nodes : hint'[p] = m
    BY DEF Settled
  <1> QED
    BY <1>1, <1>2, <1>3, <1>4, ReadAssumption

LEMMA SettledTick ==
    ASSUME LeaseReadInv, NEW l \in Nodes, SettledAt(l), Tick
    PROVE  StaysSettled(l)
  <1> DEFINE r == round[l]["read"] a == Min({r.age + 1, config.drift + 1}) v == [r EXCEPT !.age = a]
  <1>1. term' = term /\ hint' = hint /\ role' = role
    BY DEF Tick
  <1>2. RoundClean(l) => round'[l]["read"] = v /\ r \in RoundState(l)
    BY DEF Tick, Threads, RoundClean, LeaseReadInv, ServerTypes
  <1>3. RoundClean(l) => v \in RoundState(l) /\ v.term = r.term /\ v.high = r.high /\ v.answer = r.answer
    <2> SUFFICES ASSUME RoundClean(l) PROVE v \in RoundState(l) /\ v.term = r.term /\ v.high = r.high /\ v.answer = r.answer
      OBVIOUS
    <2>1. r \in RoundState(l) /\ r.age + 1 \in Nat /\ config.drift + 1 \in Nat
      BY <1>2 DEF RoundState, LeaseReadInv, ConfigInv
    <2>2. a \in Nat
      BY <2>1, PairMin
    <2> HIDE DEF a, r
    <2> QED
      BY <2>1, <2>2 DEF RoundState
  <1> HIDE DEF v
  <1>4. RoundClean(l) => RoundClean(l)'
    BY <1>1, <1>2, <1>3, StateIsRound DEF RoundClean
  <1> QED
    BY <1>1, <1>4 DEF StaysSettled, SettledAt

LEMMA SettledBroadcast ==
    ASSUME LeaseReadInv, NEW l \in Nodes, SettledAt(l), NEW n \in Nodes, NEW t \in Threads, Broadcast(n, t),
           UNCHANGED nodeVars
    PROVE  StaysSettled(l)
  <1> DEFINE v == [term |-> term[n], commit |-> commit[n], age |-> 0, high |-> term[n],
                   answer |-> [p \in Nodes \ {n} |-> "net"]]
  <1>1. round[n][t] = NoRound /\ round' = [round EXCEPT ![n][t] = v]
    BY DEF Broadcast
  <1> HIDE DEF v
  <1>2. RoundClean(l) => ~(n = l /\ t = "read")
    BY <1>1 DEF RoundClean
  <1>3. RoundClean(l) => round'[l]["read"] = round[l]["read"]
    BY <1>1, <1>2, OtherThread
  <1> QED
    BY <1>3, StaysQuietly DEF nodeVars

\* Nodes that are settled before and after a step without a fault have the same leader.
LEMMA SettledServer ==
    ASSUME LeaseReadInv, DueInv, SearchAt, NEW l \in Nodes, SettledAt(l), ServerStep, Settled', faults \in Nat, faults' = faults
    PROVE  StaysSettled(l)
  <1>1. faults' # faults + 1
    OBVIOUS
  <1>2. CASE Tick
    BY <1>2, SettledTick
  <1>3. ASSUME NEW n \in Nodes, BeginRound(n) PROVE StaysSettled(l)
    BY <1>3, SettledBroadcast DEF BeginRound, Threads
  <1>4. ASSUME NEW n \in Nodes, Apply(n) \/ ElectionLoop(n) PROVE StaysSettled(l)
    BY <1>4, StaysQuietly DEF Apply, ElectionLoop, nodeVars
  <1>5. ASSUME NEW n \in Nodes, NEW S \in SUBSET (Nodes \ {n}), Campaign(n, S) PROVE StaysSettled(l)
    BY <1>5, SettledCampaign
  <1>6. ASSUME NEW n \in Nodes, NEW S \in SUBSET (Nodes \ {n}), NEW k \in {0, 1}, Replicate(n, S, k) PROVE StaysSettled(l)
    BY <1>6, SettledReplicate
  <1>7. ASSUME NEW n \in Nodes, NEW t \in Threads, EndRound(n, t) PROVE StaysSettled(l)
    BY <1>7, SettledEndRound
  <1>8. ASSUME NEW n \in Nodes, NEW t \in Threads, NEW p \in Nodes, HandleHeartbeat(n, t, p) PROVE StaysSettled(l)
    BY <1>8, SettledHeartbeat DEF StaysSettled
  <1>9. ASSUME NEW n \in Nodes, NEW t \in Threads, NEW p \in Nodes, HeartbeatLost(n, t, p) PROVE StaysSettled(l)
    BY <1>1, <1>9 DEF HeartbeatLost
  <1>10. CASE SearchForward \/ RecheckLease \/ WaitApplied \/ SearchIndex \/ ForwardFails \/ WaitTimeout
    BY <1>10, StaysQuietly DEF SearchForward, RecheckLease, WaitApplied, SearchIndex, ForwardFails, WaitTimeout, nodeVars
  <1>11. CASE EnsureLease
    <2>1. UNCHANGED nodeVars /\ (UNCHANGED round \/ Broadcast(search.at, "read")) /\ search.at \in Nodes
      BY <1>11 DEF EnsureLease, SearchAt, Steps
    <2>2. CASE UNCHANGED round
      BY <2>1, <2>2, StaysQuietly DEF nodeVars
    <2>3. CASE Broadcast(search.at, "read")
      <3> DEFINE n == search.at t == "read"
      <3>1. n \in Nodes /\ t \in Threads /\ Broadcast(n, t)
        BY <2>1, <2>3 DEF Threads
      <3> HIDE DEF n, t
      <3> QED
        BY <2>1, <3>1, SettledBroadcast
    <2> QED
      BY <2>1, <2>2, <2>3
  <1> QED
    BY ServerCases, <1>2, <1>3, <1>4, <1>5, <1>6, <1>7, <1>8, <1>9, <1>10, <1>11

LEMMA ServerFaults ==
    ASSUME ServerStep, faults \in Nat
    PROVE  faults' \in Nat
  <1> DEFINE Kept == faults' = faults \/ faults' = faults + 1
  <1>1. ASSUME NEW n \in Nodes, BeginRound(n) \/ Apply(n) \/ ElectionLoop(n) PROVE Kept
    BY <1>1 DEF BeginRound, Apply, ElectionLoop
  <1>2. ASSUME NEW n \in Nodes, NEW S \in SUBSET (Nodes \ {n}), Campaign(n, S) PROVE Kept
    BY <1>2 DEF Campaign
  <1>3. ASSUME NEW n \in Nodes, NEW S \in SUBSET (Nodes \ {n}), NEW k \in {0, 1}, Replicate(n, S, k) PROVE Kept
    BY <1>3 DEF Replicate
  <1>4. ASSUME NEW n \in Nodes, NEW t \in Threads, EndRound(n, t) PROVE Kept
    BY <1>4 DEF EndRound
  <1>5. ASSUME NEW n \in Nodes, NEW t \in Threads, NEW p \in Nodes, HandleHeartbeat(n, t, p) \/ HeartbeatLost(n, t, p)
        PROVE  Kept
    BY <1>5 DEF HandleHeartbeat, HeartbeatLost
  <1>6. Tick => Kept
    BY DEF Tick
  <1>7. SearchForward \/ EnsureLease \/ RecheckLease \/ WaitApplied \/ SearchIndex \/ ForwardFails \/ WaitTimeout => Kept
    BY DEF SearchForward, EnsureLease, RecheckLease, WaitApplied, SearchIndex, ForwardFails, WaitTimeout
  <1> HIDE DEF Kept
  <1>8. Kept
    BY ServerCases, <1>1, <1>2, <1>3, <1>4, <1>5, <1>6, <1>7
  <1> QED
    BY <1>8 DEF Kept

LEMMA CourseForward ==
    ASSUME ReadInv, NEW l \in Nodes, SettledAt(l), SearchForward, SearchOnCourse(search, l, TRUE)
    PROVE  SearchOnCourse(search', l, TRUE) /\ search'.pc = "enter"
  <1>1. search.pc = "enter" /\ search.pc \in Steps /\ role[search.at] # "leader"
    BY DEF SearchForward, Steps
  <1>2. search \in [pc: Steps, at: Nodes, via: Seq(Nodes), backed: BOOLEAN] /\ search.at \in Nodes
    BY <1>1, SearchFacts
  <1>3. search.at # l /\ search.via = <<>> /\ hint[search.at] = l
    BY <1>1, <1>2 DEF SettledAt, SearchOnCourse
  <1>4. Len(search.via) < MaxHops /\ l # None
    BY <1>3, ReadAssumption
  <1> DEFINE v == Append(search.via, l) s == [search EXCEPT !.at = l, !.via = v]
  <1>5. search' = s
    BY <1>3, <1>4 DEF SearchForward
  <1> HIDE DEF v
  <1>6. s.pc = "enter" /\ s.at = l
    BY <1>1, <1>2
  <1> HIDE DEF s
  <1> QED
    BY <1>5, <1>6 DEF SearchOnCourse

LEMMA CourseLeased ==
    ASSUME ReadInv, NEW l \in Nodes, search.pc \in Steps, search.at = l, search' = Leased(l)
    PROVE  SearchOnCourse(search', l, TRUE) /\ search'.pc = "applied"
  <1> DEFINE b == lease[l].sound /\ own[l] s == [search EXCEPT !.pc = "applied", !.backed = b]
  <1>1. search \in [pc: Steps, at: Nodes, via: Seq(Nodes), backed: BOOLEAN] /\ search' = s
    BY SearchFacts DEF Leased
  <1> HIDE DEF b
  <1>2. s.pc = "applied" /\ s.at = l
    BY <1>1
  <1> HIDE DEF s
  <1> QED
    BY <1>1, <1>2 DEF SearchOnCourse

LEMMA CourseEnsure ==
    ASSUME ReadInv, NEW l \in Nodes, SettledAt(l), EnsureLease
    PROVE  SearchOnCourse(search', l, RoundClean(l)')
  <1>1. search.pc = "enter" /\ search.pc \in Steps /\ role[search.at] = "leader" /\ UNCHANGED nodeVars
    BY DEF EnsureLease, Steps
  <1>2. search \in [pc: Steps, at: Nodes, via: Seq(Nodes), backed: BOOLEAN] /\ search.at \in Nodes
    BY <1>1, SearchFacts
  <1>3. search.at = l
    <2>1. Claim(search.at, term[l])
      BY <1>1, <1>2 DEF Claim, SettledAt
    <2> DEFINE n == search.at
    <2>2. n \in Nodes /\ Claim(n, term[l]) /\ LeaseReadInv
      BY <1>2, <2>1 DEF ReadInv
    <2> HIDE DEF n
    <2>3. n = l
      BY <2>2, SameLeader
    <2> QED
      BY <2>3 DEF n
  <1>4. CASE IsValid(l)
    <2>1. search' = Leased(l)
      BY <1>3, <1>4 DEF EnsureLease
    <2>2. SearchOnCourse(search', l, TRUE) /\ search'.pc = "applied"
      BY <1>1, <1>3, <2>1, CourseLeased
    <2> QED
      BY <2>2 DEF SearchOnCourse
  <1>5. CASE ~IsValid(l)
    <2> DEFINE s == [search EXCEPT !.pc = "round"] t == "read"
               v == [term |-> term[l], commit |-> commit[l], age |-> 0, high |-> term[l],
                     answer |-> [p \in Nodes \ {l} |-> "net"]]
    <2>1. search' = s /\ Broadcast(l, t)
      BY <1>3, <1>5 DEF EnsureLease
    <2>2. s.pc = "round" /\ s.at = l
      BY <1>2, <1>3
    <2> HIDE DEF s
    <2>3. round' = [round EXCEPT ![l][t] = v] /\ t \in Threads
      BY <2>1 DEF Broadcast, Threads
    <2>4. v \in RoundState(l) /\ v.term = term[l] /\ v.high = term[l] /\ \A p \in Nodes \ {l} : v.answer[p] # "bad"
      BY DEF RoundState, ReadInv, LeaseReadInv, ServerTypes
    <2> HIDE DEF v
    <2>5. round'[l][t] = v
      BY <2>3 DEF ReadInv, LeaseReadInv, ServerTypes
    <2>6. RoundClean(l)'
      BY <1>1, <2>4, <2>5, StateIsRound DEF RoundClean, nodeVars
    <2> QED
      BY <2>1, <2>2, <2>6 DEF SearchOnCourse
  <1> QED
    BY <1>4, <1>5

LEMMA CourseHandler ==
    ASSUME ReadInv, NEW l \in Nodes, SettledAt(l), RecheckLease \/ WaitApplied \/ SearchIndex,
           SearchOnCourse(search, l, IsValid(l) \/ RoundClean(l))
    PROVE  SearchOnCourse(search', l, TRUE) /\ search'.pc # "round"
  <1>1. search.pc \in {"round", "applied", "search"} /\ search.pc \in Steps /\ search.at = l
    BY DEF RecheckLease, WaitApplied, SearchIndex, Steps, SearchOnCourse
  <1>2. search \in [pc: Steps, at: Nodes, via: Seq(Nodes), backed: BOOLEAN]
    BY <1>1, SearchFacts
  <1>3. CASE RecheckLease
    <2>1. IsValid(l)
      BY <1>1, <1>3 DEF RecheckLease, SearchOnCourse, RoundClean
    <2>2. search' = Leased(l)
      BY <1>1, <1>3, <2>1 DEF RecheckLease
    <2> QED
      BY <1>1, <2>2, CourseLeased
  <1>4. CASE WaitApplied
    <2> DEFINE s == [search EXCEPT !.pc = "search"]
    <2>1. search' = s
      BY <1>4 DEF WaitApplied
    <2>2. s.pc = "search" /\ s.at = l
      BY <1>1, <1>2
    <2> HIDE DEF s
    <2> QED
      BY <2>1, <2>2 DEF SearchOnCourse
  <1>5. CASE SearchIndex
    <2>1. search'.pc = "answered" /\ search'.kind = "ok"
      BY <1>5 DEF SearchIndex, Reply
    <2> QED
      BY <2>1 DEF SearchOnCourse
  <1> QED
    BY <1>3, <1>4, <1>5

LEMMA CourseServer ==
    ASSUME ReadInv, CourseInv, ServerStep, UNCHANGED clientVars, Calm
    PROVE  CourseInv'
  <1>1. UNCHANGED <<call, probe>> /\ faults \in Nat /\ faults' \in Nat
    BY ServerFaults DEF clientVars, CourseInv
  <1> SUFFICES ASSUME call # Idle, call.kind = "search", calm'
               PROVE  \E l \in Nodes : SettledAt(l)' /\ OnCourse(l)'
    BY <1>1 DEF CourseInv
  <1>2. /\ calm /\ Settled' /\ faults' = faults
        /\ search.pc = "round" /\ IsValid(search.at) => IsValid(search.at)'
        /\ ~(search.pc = "applied" /\ search'.pc = "answered")
    BY DEF Calm
  <1>3. PICK l \in Nodes : SettledAt(l) /\ OnCourse(l)
    BY <1>2 DEF CourseInv
  <1>4. LeaseReadInv /\ DueInv /\ SearchAt
    BY SearchFacts DEF SearchAt, ReadInv
  <1>5. StaysSettled(l)
    BY <1>1, <1>2, <1>3, <1>4, SettledServer
  <1>6. SettledAt(l)'
    BY <1>3, <1>5 DEF StaysSettled, SettledAt
  <1>7. SearchOnCourse(search, l, IsValid(l) \/ RoundClean(l))
    BY <1>3 DEF OnCourse
  <1>8. SearchOnCourse(search', l, (IsValid(l) \/ RoundClean(l))')
    <2>1. CASE search' = search
      <3>1. search.pc = "round" => IsValid(l)' \/ RoundClean(l)'
        <4> SUFFICES ASSUME search.pc = "round" PROVE IsValid(l)' \/ RoundClean(l)'
          OBVIOUS
        <4>1. search.at = l /\ (IsValid(l) \/ RoundClean(l))
          BY <1>7 DEF SearchOnCourse
        <4>2. CASE IsValid(l)
          BY <1>2, <2>1, <4>1, <4>2 DEF IsValid
        <4>3. CASE RoundClean(l)
          BY <1>5, <4>3 DEF StaysSettled
        <4> QED
          BY <4>1, <4>2, <4>3
      <3> QED
        BY <1>7, <2>1, <3>1 DEF SearchOnCourse
    <2>2. CASE SearchForward
      <3>1. SearchOnCourse(search, l, TRUE)
        BY <1>7 DEF SearchOnCourse
      <3>2. SearchOnCourse(search', l, TRUE) /\ search'.pc = "enter"
        BY <1>3, <2>2, <3>1, CourseForward
      <3> QED
        BY <3>2 DEF SearchOnCourse
    <2>3. CASE EnsureLease
      <3>1. SearchOnCourse(search', l, RoundClean(l)')
        BY <1>3, <2>3, CourseEnsure
      <3> QED
        BY <3>1 DEF SearchOnCourse
    <2>4. CASE RecheckLease \/ WaitApplied \/ SearchIndex
      <3>1. SearchOnCourse(search', l, TRUE) /\ search'.pc # "round"
        BY <1>3, <1>7, <2>4, CourseHandler
      <3> QED
        BY <3>1 DEF SearchOnCourse
    <2>5. CASE ForwardFails
      BY <1>1, <1>2, <2>5 DEF ForwardFails
    <2>6. CASE WaitTimeout
      <3>1. search.pc = "applied" /\ search'.pc = "answered"
        BY <2>6 DEF WaitTimeout, Fail, Reply
      <3> QED
        BY <1>2, <3>1
    <2> QED
      BY ServerFrame, <2>1, <2>2, <2>3, <2>4, <2>5, <2>6
  <1>9. OnCourse(l)'
    BY <1>1, <1>3, <1>8 DEF OnCourse
  <1> QED
    BY <1>6, <1>9

\* What the client's steps have to keep.
CourseKept == CourseInv' /\ SettledSucceeds'

LEMMA EndSettled ==
    ASSUME NEW outcome, NEW value, NEW backed, End(outcome, value, backed), faults' \in Nat,
           call.kind = "search" /\ calm => outcome = "ok"
    PROVE  CourseKept
  <1> DEFINE r == [pc |-> "ended", kind |-> call.kind, outcome |-> outcome, value |-> value,
                   backed |-> backed, acked |-> call.acked, calm |-> calm]
  <1>1. call' = Idle /\ result' = r
    BY DEF End
  <1>2. r.kind = call.kind /\ r.outcome = outcome /\ r.calm = calm
    OBVIOUS
  <1> HIDE DEF r
  <1>3. r # Idle /\ r.kind = "search" /\ r.calm => r.outcome = "ok"
    BY <1>2
  <1> QED
    BY <1>1, <1>3 DEF CourseKept, CourseInv, SettledSucceeds

\* A call that is not a search, or that is not looked at any more, goes on.
LEMMA OffCourse ==
    ASSUME SettledSucceeds, Calm, call # Idle, faults' \in Nat, result' = result,
           call' = Idle \/ call'.kind = call.kind, call.kind = "search" => ~calm \/ faults' # faults
    PROVE  CourseKept
  <1>1. SettledSucceeds'
    BY DEF SettledSucceeds
  <1>2. ~(call' # Idle /\ call'.kind = "search" /\ calm')
    BY DEF Calm
  <1> QED
    BY <1>1, <1>2 DEF CourseKept, CourseInv

LEMMA RetryCourse ==
    ASSUME ReadInv, SettledSucceeds, Calm, call.pc \in {"send", "wait"}, faults' \in Nat, NEW target \in Nodes, Retry(target),
           call.kind = "search" => ~calm \/ (faults' # faults /\ call.attempt # config.max_retry)
    PROVE  CourseKept
  <1>1. CASE call.attempt = config.max_retry
    <2>1. End("exhausted", None, FALSE)
      BY <1>1 DEF Retry
    <2> QED
      BY <1>1, <2>1, EndSettled
  <1>2. CASE call.attempt # config.max_retry
    <2> DEFINE a == call.attempt + 1 c == [call EXCEPT !.pc = "send", !.target = target, !.attempt = a]
    <2>1. call' = c /\ result' = result
      BY <1>2 DEF Retry
    <2>2. call \in CallTypes /\ call # Idle
      BY CallTyped
    <2> HIDE DEF a
    <2>3. c.kind = call.kind
      BY <2>2 DEF CallTypes
    <2> HIDE DEF c
    <2> QED
      BY <2>1, <2>2, <2>3, OffCourse
  <1> QED
    BY <1>1, <1>2

LEMMA JudgeCourse ==
    ASSUME ReadInv, SettledSucceeds, Calm, call.pc \in {"send", "wait"}, faults' \in Nat,
           NEW kind, NEW value, NEW backed, Judge(kind, value, backed),
           kind = "redirect" => value \in Nodes \union {None},
           call.kind = "search" /\ calm => kind = "ok"
    PROVE  CourseKept
  <1>1. CASE kind = "ok"
    <2>1. End("ok", value, backed)
      BY <1>1 DEF Judge
    <2> QED
      BY <2>1, EndSettled
  <1>2. CASE kind = "redirect" /\ value # None
    <2>1. Retry(value) /\ value \in Nodes
      BY <1>2 DEF Judge
    <2>2. call.kind = "search" => ~calm
      BY <1>2
    <2> QED
      BY <2>1, <2>2, RetryCourse
  <1>3. CASE kind = "error"
    <2>1. End("error", None, FALSE)
      BY <1>3 DEF Judge
    <2>2. ~(call.kind = "search" /\ calm)
      BY <1>3
    <2> QED
      BY <2>1, <2>2, EndSettled
  <1>4. CASE ~(kind = "ok" \/ (kind = "redirect" /\ value # None) \/ kind = "error")
    <2>1. RetryElsewhere
      BY <1>4 DEF Judge
    <2>2. PICK p \in Nodes : Retry(p)
      BY <2>1 DEF RetryElsewhere
    <2>3. call.kind = "search" => ~calm
      BY <1>4
    <2> QED
      BY <2>2, <2>3, RetryCourse
  <1> QED
    BY <1>1, <1>2, <1>3, <1>4

\* A step of the client that leaves the nodes alone and the search on its course.
LEMMA CourseContinues ==
    ASSUME SettledSucceeds, CourseInv, Calm, call # Idle, faults' \in Nat, UNCHANGED <<nodeVars, result>>,
           call'.kind = call.kind,
           \A l \in Nodes : call.kind = "search" /\ calm /\ SettledAt(l) /\ OnCourse(l) => OnCourse(l)'
    PROVE  CourseKept
  <1>1. SettledSucceeds'
    BY DEF SettledSucceeds
  <1>2. ASSUME call'.kind = "search", calm'
        PROVE  \E l \in Nodes : SettledAt(l)' /\ OnCourse(l)'
    <2>1. calm /\ call.kind = "search"
      BY <1>2 DEF Calm
    <2>2. PICK l \in Nodes : SettledAt(l) /\ OnCourse(l)
      BY <2>1 DEF CourseInv
    <2>3. SettledAt(l)'
      BY <2>2 DEF SettledAt, nodeVars
    <2> QED
      BY <2>1, <2>2, <2>3
  <1> QED
    BY <1>1, <1>2 DEF CourseKept, CourseInv

LEMMA CourseBegin ==
    ASSUME ReadInv, CourseInv, SettledSucceeds, Calm, NEW kind \in budget.kinds, NEW c \in Nodes \union {None}, Begin(kind, c)
    PROVE  CourseKept
  <1> DEFINE x == IF c = None THEN "probe" ELSE IF kind = "get" THEN "query" ELSE "send"
             k == [pc |-> x, kind |-> kind, target |-> c, attempt |-> 0, acked |-> acked]
  <1>1. /\ call = Idle /\ call' = k /\ UNCHANGED <<serverVars, result>>
        /\ probe' = IF c = None THEN [pending |-> Nodes, selected |-> None] ELSE NoProbe
    BY DEF Begin
  <1>2. k.pc = x /\ k.kind = kind /\ k.attempt = 0
    OBVIOUS
  <1>3. kind = "search" => x # "query" /\ (x = "probe" => c = None)
    OBVIOUS
  <1> HIDE DEF x, k
  <1>4. search' = search /\ faults' = faults /\ faults \in Nat
    BY <1>1 DEF serverVars, CourseInv
  <1>5. search.pc = "none"
    <2>1. call.pc # "wait"
      BY <1>1 DEF Idle
    <2> QED
      BY <2>1, NotWaiting
  <1>6. SettledSucceeds'
    BY <1>1 DEF SettledSucceeds
  <1>7. ASSUME kind = "search", calm'
        PROVE  \E l \in Nodes : SettledAt(l)' /\ OnCourse(l)'
    <2>1. PICK l \in Nodes : SettledAt(l)'
      BY <1>7 DEF Calm, Settled, SettledAt
    <2>2. call'.pc = "probe" => probe'.selected = None /\ probe'.pending = Nodes
      BY <1>1, <1>2, <1>3, <1>7
    <2>3. \A b : SearchOnCourse(search', l, b)
      BY <1>4, <1>5 DEF SearchOnCourse
    <2>4. OnCourse(l)'
      BY <1>1, <1>2, <1>3, <1>7, <2>2, <2>3 DEF OnCourse
    <2> QED
      BY <2>1, <2>4
  <1> QED
    BY <1>1, <1>2, <1>4, <1>6, <1>7 DEF CourseKept, CourseInv

LEMMA CourseQuery ==
    ASSUME ReadInv, CourseInv, SettledSucceeds, Calm, QueryCached
    PROVE  CourseKept
  <1>1. call.pc = "query" /\ faults \in Nat /\ faults' \in Nat
    <2>1. call.pc = "query" /\ (faults' = faults \/ faults' = faults + 1)
      BY DEF QueryCached
    <2>2. faults \in Nat
      BY DEF CourseInv
    <2> QED
      BY <2>1, <2>2
  <1>2. call \in CallTypes /\ call # Idle
    BY <1>1, CallTyped
  <1>3. call.kind = "search" => ~calm
    BY <1>1, <1>2 DEF CourseInv, OnCourse
  <1>4. CASE End("ok", hint[call.target], FALSE)
    BY <1>1, <1>4, EndSettled
  <1>5. CASE StartProbe /\ result' = result
    <2>1. call' = [call EXCEPT !.pc = "probe"]
      BY <1>5 DEF StartProbe
    <2>2. call'.kind = call.kind
      BY <1>2, <2>1 DEF CallTypes
    <2> QED
      BY <1>1, <1>2, <1>3, <1>5, <2>2, OffCourse
  <1> QED
    BY <1>4, <1>5 DEF QueryCached

LEMMA CourseProbe ==
    ASSUME ReadInv, CourseInv, SettledSucceeds, Calm, NEW p \in Nodes, ProbeAnswer(p)
    PROVE  CourseKept
  <1>1. /\ call.pc = "probe" /\ UNCHANGED <<serverVars, call, result>>
        /\ probe' = [pending |-> probe.pending \ {p}, selected |-> Select(probe.selected, hint[p])]
    BY DEF ProbeAnswer
  <1>2. call # Idle /\ faults' \in Nat
    BY <1>1, CallTyped DEF serverVars, CourseInv
  <1>3. UNCHANGED <<nodeVars, search, round>>
    BY <1>1 DEF serverVars
  <1>4. ASSUME NEW l \in Nodes, SettledAt(l), OnCourse(l) PROVE OnCourse(l)'
    <2>1. probe'.selected = l
      BY <1>1, <1>4 DEF SettledAt, OnCourse, Select
    <2>2. (IsValid(l) <=> IsValid(l)') /\ (RoundClean(l) <=> RoundClean(l)')
      BY <1>3 DEF IsValid, RoundClean, nodeVars
    <2> QED
      BY <1>1, <1>3, <1>4, <2>1, <2>2 DEF OnCourse, SearchOnCourse
  <1> QED
    BY <1>1, <1>2, <1>3, <1>4, CourseContinues

LEMMA CourseProbeFails ==
    ASSUME ReadInv, CourseInv, SettledSucceeds, Calm, NEW p \in Nodes, ProbeFails(p)
    PROVE  CourseKept
  <1>1. call.pc = "probe" /\ UNCHANGED <<call, result>> /\ faults \in Nat /\ faults' = faults + 1
    BY DEF ProbeFails, CourseInv
  <1>2. call # Idle /\ faults' \in Nat /\ faults' # faults
    BY <1>1, CallTyped
  <1> QED
    BY <1>1, <1>2, OffCourse

LEMMA CourseProbeEnd ==
    ASSUME ReadInv, CourseInv, SettledSucceeds, Calm, ProbeEnd
    PROVE  CourseKept
  <1>1. /\ call.pc = "probe" /\ probe.pending = {} /\ UNCHANGED serverVars /\ probe' = NoProbe
    BY DEF ProbeEnd
  <1>2. call # Idle /\ call \in CallTypes /\ faults' \in Nat /\ UNCHANGED <<nodeVars, search, round>>
    BY <1>1, CallTyped DEF serverVars, CourseInv
  <1>3. CASE probe.selected = None
    <2>1. End("error", None, FALSE)
      BY <1>3 DEF ProbeEnd
    <2>2. ~(call.kind = "search" /\ calm)
      BY <1>1, <1>2, <1>3, ReadAssumption DEF CourseInv, OnCourse
    <2> QED
      BY <1>2, <2>1, <2>2, EndSettled
  <1>4. CASE probe.selected # None /\ call.kind = "get"
    <2>1. End("ok", probe.selected, FALSE)
      BY <1>4 DEF ProbeEnd
    <2> QED
      BY <1>2, <2>1, EndSettled
  <1>5. CASE probe.selected # None /\ call.kind # "get"
    <2> DEFINE c == [call EXCEPT !.pc = "send", !.target = probe.selected]
    <2>1. call' = c /\ result' = result
      BY <1>5 DEF ProbeEnd
    <2>2. c.pc = "send" /\ c.kind = call.kind /\ c.attempt = call.attempt
      BY <1>2 DEF CallTypes
    <2> HIDE DEF c
    <2>3. ASSUME NEW l \in Nodes, OnCourse(l) PROVE OnCourse(l)'
      <3>1. (IsValid(l) <=> IsValid(l)') /\ (RoundClean(l) <=> RoundClean(l)')
        BY <1>2 DEF IsValid, RoundClean, nodeVars
      <3> QED
        BY <1>2, <2>1, <2>2, <2>3, <3>1 DEF OnCourse, SearchOnCourse
    <2> QED
      BY <1>2, <2>1, <2>2, <2>3, CourseContinues
  <1> QED
    BY <1>3, <1>4, <1>5

LEMMA CourseSend ==
    ASSUME ReadInv, CourseInv, SettledSucceeds, Calm, Send
    PROVE  CourseKept
  <1> DEFINE c == [call EXCEPT !.pc = "wait"] s == NewSearch(call.target)
  <1>1. call.pc = "send" /\ call' = c /\ search' = s /\ UNCHANGED <<nodeVars, result, faults>>
    BY DEF Send
  <1>2. call # Idle /\ call \in CallTypes /\ faults' \in Nat
    BY <1>1, CallTyped DEF CourseInv
  <1>3. c.pc = "wait" /\ c.kind = call.kind /\ c.attempt = call.attempt
    BY <1>2 DEF CallTypes
  <1>4. s.pc = "enter" /\ s.via = <<>>
    BY DEF NewSearch
  <1> HIDE DEF c, s
  <1>5. ASSUME NEW l \in Nodes, OnCourse(l) PROVE OnCourse(l)'
    <2>1. \A b : SearchOnCourse(search', l, b)
      BY <1>1, <1>4 DEF SearchOnCourse
    <2> QED
      BY <1>1, <1>3, <1>5, <2>1 DEF OnCourse
  <1> QED
    BY <1>1, <1>2, <1>3, <1>5, CourseContinues

LEMMA CourseReceive ==
    ASSUME ReadInv, CourseInv, SettledSucceeds, Calm, Receive
    PROVE  CourseKept
  <1>1. /\ call.pc = "wait" /\ search.pc = "answered" /\ Judge(search.kind, search.value, search.backed)
        /\ faults' = faults /\ faults \in Nat
    BY DEF Receive, CourseInv
  <1> DEFINE kind == search.kind value == search.value backed == search.backed
  <1>2. kind = "redirect" => value \in Nodes \union {None}
    BY <1>1 DEF ReadInv, SearchOk
  <1>3. call # Idle
    BY <1>1, CallTyped
  <1>4. call.kind = "search" /\ calm => kind = "ok"
    BY <1>1, <1>3 DEF CourseInv, OnCourse, SearchOnCourse
  <1>5. Judge(kind, value, backed) /\ faults' \in Nat
    BY <1>1
  <1> HIDE DEF kind, value, backed
  <1> QED
    BY <1>1, <1>2, <1>4, <1>5, JudgeCourse

LEMMA CourseSendFails ==
    ASSUME ReadInv, CourseInv, SettledSucceeds, Calm, SendFails
    PROVE  CourseKept
  <1>1. call.pc \in {"send", "wait"} /\ faults \in Nat /\ faults' = faults + 1 /\ RetryElsewhere
    BY DEF SendFails, CourseInv
  <1>2. faults' \in Nat /\ faults' # faults /\ call # Idle
    BY <1>1, CallTyped
  <1>3. call.kind = "search" => ~calm \/ call.attempt # config.max_retry
    <2>1. config.max_retry # 0
      BY DEF ReadInv, LeaseReadInv, ConfigInv
    <2> QED
      BY <1>2, <2>1 DEF CourseInv, OnCourse
  <1>4. PICK p \in Nodes : Retry(p)
    BY <1>1 DEF RetryElsewhere
  <1> QED
    BY <1>1, <1>2, <1>3, <1>4, RetryCourse

LEMMA CourseWriteAnswer ==
    ASSUME ReadInv, CourseInv, SettledSucceeds, Calm, WriteAnswer
    PROVE  CourseKept
  <1>1. call.pc = "send" /\ call.kind = "write" /\ faults' \in Nat
    BY DEF WriteAnswer, serverVars, CourseInv
  <1>2. hint[call.target] \in Nodes \union {None}
    BY <1>1, CallTyped DEF ReadInv, LeaseReadInv, ServerTypes
  <1>3. PICK kind, value : /\ Judge(kind, value, FALSE)
                           /\ kind = "redirect" => value \in Nodes \union {None}
    BY <1>2 DEF WriteAnswer
  <1> QED
    BY <1>1, <1>3, JudgeCourse

LEMMA CourseStep == ReadInv /\ CourseInv /\ SettledSucceeds /\ [Next]_vars => CourseKept
  <1> SUFFICES ASSUME ReadInv, CourseInv, SettledSucceeds, [Next]_vars PROVE CourseKept
    OBVIOUS
  <1>1. CASE ServerStep /\ UNCHANGED clientVars /\ Calm
    <2>1. SettledSucceeds'
      BY <1>1 DEF SettledSucceeds, clientVars
    <2> QED
      BY <1>1, <2>1, CourseServer DEF CourseKept
  <1>2. ASSUME NEW kind \in budget.kinds, NEW c \in Nodes \union {None}, Begin(kind, c), Calm PROVE CourseKept
    BY <1>2, CourseBegin
  <1>3. ASSUME NEW p \in Nodes, ProbeAnswer(p) \/ ProbeFails(p), Calm PROVE CourseKept
    BY <1>3, CourseProbe, CourseProbeFails
  <1>4. CASE (QueryCached \/ ProbeEnd \/ Send \/ Receive \/ WriteAnswer \/ SendFails) /\ Calm
    BY <1>4, CourseQuery, CourseProbeEnd, CourseSend, CourseReceive, CourseWriteAnswer, CourseSendFails
  <1>5. CASE UNCHANGED vars
    BY <1>5 DEF vars, serverVars, clientVars, nodeVars, dataVars, CourseKept, CourseInv, SettledSucceeds, SettledAt, OnCourse,
                SearchOnCourse, IsValid, RoundClean
  <1> QED
    BY <1>1, <1>2, <1>3, <1>4, <1>5 DEF Next, ClientStep

(***************************************************************************)
(* A search succeeds when the nodes agree on their leader while it lasts   *)
(* and no call is lost, whichever node the client asks first (WithRetry,   *)
(* ProbeLeaderConcurrently, HandleClientSearch, EnsureLeaseReadable).      *)
(***************************************************************************)
THEOREM SettledSearchSucceeds == Spec => []SettledSucceeds
  <1>1. ClientInit => CourseInv /\ SettledSucceeds
    BY DEF ClientInit, Init, CourseInv, SettledSucceeds
  <1> QED
    BY <1>1, ReadInvariant, CourseStep, PTL DEF Spec, CourseKept
=============================================================================
