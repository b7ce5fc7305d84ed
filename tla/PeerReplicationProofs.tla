----------------------- MODULE PeerReplicationProofs -----------------------
(***************************************************************************)
(* Type correctness and Log Matching of PeerReplication, for any number of *)
(* peers, window, batch size and number of handlers that run at a time.    *)
(* Then that the acknowledgements of the peers that were not misled are    *)
(* real and that a commit rests on a quorum of them.                       *)
(***************************************************************************)
EXTENDS PeerReplication, SequenceTheorems, FiniteSetTheorems, WellFoundedInduction, TLAPS

(***************************************************************************)
(* Least and greatest elements, for the CHOOSE of RunStart and Committable.*)
(***************************************************************************)

LEMMA MinExists ==
    ASSUME NEW T, T \subseteq Nat, T # {}
    PROVE  \E x \in T : \A y \in T : x <= y
  <1>1. IsWellFoundedOn(OpToRel(<, Nat), Nat)
    BY NatLessThanWellFounded
  <1>2. PICK x \in T : \A y \in T : ~(<<y, x>> \in OpToRel(<, Nat))
    <2> HIDE DEF OpToRel
    <2> QED
      BY <1>1, WFMin
  <1>3. \A y \in T : ~(y < x)
    BY <1>2 DEF OpToRel
  <1> QED
    BY <1>3, SMT

LEMMA MaxExists ==
    ASSUME NEW T, NEW b \in Nat, T \subseteq 0..b, T # {}
    PROVE  \E x \in T : \A y \in T : y <= x
  <1> DEFINE U == {b - i : i \in T}
  <1>1. U \subseteq Nat
    OBVIOUS
  <1>2. U # {}
    BY DEF U
  <1>3. PICK u \in U : \A v \in U : u <= v
    <2> HIDE DEF U
    <2> QED
      BY <1>1, <1>2, MinExists
  <1>4. PICK x \in T : u = b - x
    OBVIOUS
  <1>5. \A y \in T : b - x <= b - y
    BY <1>3, <1>4
  <1> QED
    BY <1>5

(***************************************************************************)
(* Type correctness.                                                       *)
(***************************************************************************)

LEMMA NodesFacts == Leader \in Nodes /\ Peers \subseteq Nodes
  BY DEF Nodes

LEMMA BoundFacts ==
    MaxProposals \in Nat /\ MaxLost \in Nat /\ MaxHeartbeatLost \in Nat /\ MaxSnapshots \in Nat
  BY ReplicationAssumption

LEMMA LogFacts ==
    ASSUME TypeOK, NEW n \in Nodes
    PROVE  /\ log[n] \in Logs
           /\ Len(log[n]) \in Nat
           /\ DOMAIN log[n] = 1..Len(log[n])
           /\ \A i \in 1..Len(log[n]) : log[n][i] \in 0..LeaderTerm
           /\ commit_index[n] \in Nat
  <1>1. log[n] \in Logs /\ commit_index[n] \in Nat
    BY DEF TypeOK
  <1>2. Len(log[n]) \in Nat /\ DOMAIN log[n] = 1..Len(log[n])
    BY <1>1, LenProperties DEF Logs
  <1>3. \A i \in 1..Len(log[n]) : log[n][i] \in 0..LeaderTerm
    BY <1>1, ElementOfSeq DEF Logs
  <1> QED
    BY <1>1, <1>2, <1>3

LEMMA LeaderFacts ==
    ASSUME TypeOK
    PROVE  /\ LeaderLast \in Nat
           /\ \A i \in 1..LeaderLast : log[Leader][i] \in 1..LeaderTerm
           /\ \A i \in 0..LeaderLast : LeaderTermAt(i) \in Nat
           /\ Held(log[Leader]) = 1..LeaderLast
  <1>1. log[Leader] \in Seq(1..LeaderTerm) /\ LeaderTerm \in Nat
    BY ReplicationAssumption DEF TypeOK, Entries
  <1>2. LeaderLast \in Nat /\ DOMAIN log[Leader] = 1..LeaderLast
    BY <1>1, LenProperties DEF LeaderLast
  <1>3. \A i \in 1..LeaderLast : log[Leader][i] \in 1..LeaderTerm
    BY <1>1, ElementOfSeq DEF LeaderLast
  <1>4. Held(log[Leader]) = 1..LeaderLast
    BY <1>1, <1>2, <1>3 DEF Held
  <1> QED
    BY <1>1, <1>2, <1>3, <1>4 DEF LeaderTermAt

LEMMA LeaderHeld == TypeOK => Held(log[Leader]) = 1..LeaderLast
  BY LeaderFacts

\* The entries a node holds.
LEMMA HeldFacts ==
    ASSUME TypeOK, NEW n \in Nodes, NEW i
    PROVE  i \in Held(log[n]) <=> (i \in 1..Len(log[n]) /\ log[n][i] # 0)
  BY LogFacts DEF Held

LEMMA PeerFacts ==
    ASSUME TypeOK, NEW p \in Peers
    PROVE  /\ LastIndex(p) \in Nat /\ LastIndex(p) >= Len(log[p])
           /\ LastIndex(p) >= snapshot[p].index
           /\ LastIndex(p) = Len(log[p]) \/ LastIndex(p) = snapshot[p].index
           /\ snapshot[p].index \in Nat /\ snapshot[p].term \in Nat
           /\ progress[p] \in Progress
  <1>1. snapshot[p].index \in Nat /\ snapshot[p].term \in Nat /\ progress[p] \in Progress
    BY DEF TypeOK
  <1> QED
    BY <1>1, LogFacts, NodesFacts DEF LastIndex, MaxOf

LEMMA CallFacts ==
    ASSUME TypeOK, NEW c \in calls
    PROVE  /\ c \in Call
           /\ c.peer \in Peers /\ c.peer \in Nodes
           /\ c.prev \in Nat /\ c.prev_term \in Nat /\ c.commit \in Nat /\ c.hint \in Nat
           /\ c.pos \in Nat \ {0} /\ c.entries \in Entries /\ Len(c.entries) \in Nat
           /\ \A i \in 1..Len(c.entries) : c.entries[i] \in 1..LeaderTerm
  <1>1. c \in Call
    BY DEF TypeOK
  <1>2. c.entries \in Seq(1..LeaderTerm)
    BY <1>1 DEF Call, Entries
  <1>3. /\ c.peer \in Peers /\ c.prev \in Nat /\ c.prev_term \in Nat /\ c.commit \in Nat
        /\ c.hint \in Nat /\ c.pos \in Nat \ {0}
    BY <1>1 DEF Call
  <1>4. Len(c.entries) \in Nat /\ \A i \in 1..Len(c.entries) : c.entries[i] \in 1..LeaderTerm
    BY <1>2, LenProperties, ElementOfSeq
  <1> QED
    BY <1>1, <1>2, <1>3, <1>4, NodesFacts DEF Entries

LEMMA InitTypes == Init => TypeOK
  <1> SUFFICES ASSUME Init PROVE TypeOK
    OBVIOUS
  <1> USE ReplicationAssumption
  <1>1. log \in [Nodes -> Logs] /\ log[Leader] \in Entries
    <2>1. /\ LeaderTerm \in 1..LeaderTerm /\ 1..(LeaderTerm - 1) \subseteq 1..LeaderTerm
          /\ 0..(LeaderTerm - 1) \subseteq 0..LeaderTerm /\ 1..LeaderTerm \subseteq 0..LeaderTerm
      OBVIOUS
    <2>2. Seq(1..(LeaderTerm - 1)) \subseteq Entries
      BY <2>1, SeqMonotonic DEF Entries
    <2>3. Append(LeaderLog, LeaderTerm) \in Entries
      BY <2>1, <2>2, AppendProperties DEF Entries
    <2>4. Seq(0..(LeaderTerm - 1)) \subseteq Logs
      BY <2>1, SeqMonotonic DEF Logs
    <2>5. Entries \subseteq Logs
      BY <2>1, SeqMonotonic DEF Logs, Entries
    <2> QED
      BY <2>3, <2>4, <2>5, NodesFacts DEF Init
  <1>2. snapshot \in [Peers -> [index: Nat, term: Nat]] /\ commit_index \in [Nodes -> Nat]
    BY DEF Init
  <1>3. LeaderLast \in Nat
    BY <1>1, NodesFacts, LenProperties DEF LeaderLast, Entries
  <1>4. progress \in [Peers -> Progress]
    BY <1>3 DEF Init, FreshProgress, Progress
  <1>5. draft \in Draft \cup {NoDraft}
    BY DEF Init
  <1>6. spent \in Spent
    BY DEF Init, Spent
  <1> QED
    BY <1>1, <1>2, <1>3, <1>4, <1>5, <1>6 DEF Init, TypeOK

LEMMA EntriesAreLogs == Entries \subseteq Logs
  <1>1. 1..LeaderTerm \subseteq 0..LeaderTerm
    BY ReplicationAssumption
  <1> QED
    BY <1>1, SeqMonotonic DEF Entries, Logs

LEMMA TypeProposeAppend == TypeOK /\ ProposeAppend => TypeOK'
  <1> SUFFICES ASSUME TypeOK, ProposeAppend PROVE TypeOK'
    OBVIOUS
  <1>1. Append(log[Leader], LeaderTerm) \in Entries
    BY AppendProperties, ReplicationAssumption DEF Entries, TypeOK
  <1>2. log' \in [Nodes -> Logs] /\ log'[Leader] \in Entries
    <2>1. Append(log[Leader], LeaderTerm) \in Logs
      BY <1>1, EntriesAreLogs
    <2> QED
      BY <1>1, <2>1, NodesFacts DEF TypeOK, ProposeAppend
  <1>3. spent' \in Spent
    <2>1. spent.proposals + 1 \in 0..MaxProposals
      BY BoundFacts DEF TypeOK, ProposeAppend, Spent
    <2> QED
      BY <2>1 DEF TypeOK, ProposeAppend, Spent
  <1> QED
    BY <1>2, <1>3 DEF TypeOK, ProposeAppend

LEMMA TypeProposeFlush == TypeOK /\ ProposeFlush => TypeOK'
  BY LeaderFacts DEF TypeOK, ProposeFlush

\* The entries a request carries, as ReplicateRead cuts them out of the leader's log.
LEMMA PieceFacts ==
    ASSUME TypeOK, NEW next \in Nat \ {0}, next - 1 <= LeaderLast,
           NEW to, to = MinOf(LeaderLast, next + BatchMax - 1)
    PROVE  LET entries == SubSeq(log[Leader], next, to) IN
           /\ entries \in Entries
           /\ \A j \in 1..Len(entries) :
                  next - 1 + j <= LeaderLast /\ entries[j] = log[Leader][next - 1 + j]
  <1>1. to \in Int /\ to <= LeaderLast
    BY LeaderFacts, ReplicationAssumption, SMTT(30) DEF MinOf
  <1>2. \A i \in next..to : log[Leader][i] \in 1..LeaderTerm
    BY <1>1, LeaderFacts
  <1>3. /\ SubSeq(log[Leader], next, to) \in Seq(1..LeaderTerm)
        /\ Len(SubSeq(log[Leader], next, to)) = IF next <= to THEN to - next + 1 ELSE 0
        /\ \A i \in 1..(to - next + 1) :
               SubSeq(log[Leader], next, to)[i] = log[Leader][next + i - 1]
    BY <1>1, <1>2, SubSeqProperties
  <1>4. ASSUME NEW j \in 1..Len(SubSeq(log[Leader], next, to))
        PROVE  /\ next - 1 + j <= LeaderLast
               /\ SubSeq(log[Leader], next, to)[j] = log[Leader][next - 1 + j]
    <2>1. j \in 1..(to - next + 1) /\ next + j - 1 = next - 1 + j
      BY <1>1, <1>3
    <2> QED
      BY <2>1, <1>1, <1>3, LeaderFacts
  <1> QED
    BY <1>3, <1>4 DEF Entries

LEMMA TypeReplicateRead == ASSUME NEW p \in Peers PROVE TypeOK /\ ReplicateRead(p) => TypeOK'
  <1> SUFFICES ASSUME TypeOK, ReplicateRead(p) PROVE TypeOK'
    OBVIOUS
  <1> DEFINE next == progress[p].next
             to == MinOf(LeaderLast, next + BatchMax - 1)
  <1>1. next \in Nat \ {0} /\ next - 1 \in 0..LeaderLast
    BY PeerFacts, LeaderFacts DEF Progress, ReplicateRead
  <1>2. SubSeq(log[Leader], next, to) \in Entries
    BY <1>1, PieceFacts
  <1>3. LeaderTermAt(next - 1) \in Nat /\ commit_index[Leader] \in Nat
    BY <1>1, LeaderFacts, LogFacts, NodesFacts
  <1>4. draft' = [peer |-> p, prev |-> next - 1, prev_term |-> LeaderTermAt(next - 1),
                  entries |-> SubSeq(log[Leader], next, to), commit |-> commit_index[Leader]]
    BY DEF ReplicateRead
  <1>5. draft' \in Draft
    BY <1>1, <1>2, <1>3, <1>4, NodesFacts DEF Draft
  <1> QED
    BY <1>5 DEF TypeOK, ReplicateRead

LEMMA TypeReplicateSend == TypeOK /\ ReplicateSend => TypeOK'
  <1> SUFFICES ASSUME TypeOK, ReplicateSend PROVE TypeOK'
    OBVIOUS
  <1> DEFINE p == draft.peer
             size == Len(draft.entries)
  <1>1. draft \in Draft
    BY DEF TypeOK, ReplicateSend
  <1>2. p \in Peers /\ size \in Nat
    BY <1>1, LenProperties DEF Draft, Entries
  <1>3. calls' \subseteq Call
    <2>1. PICK id \in 1..MaxCalls : calls' = calls \cup
              {[id |-> id, peer |-> p, prev |-> draft.prev, prev_term |-> draft.prev_term,
                entries |-> draft.entries, commit |-> draft.commit, phase |-> "sent",
                pos |-> 1, hint |-> 0, awaited |-> TRUE]}
      BY DEF ReplicateSend
    <2>2. /\ draft.prev \in Nat /\ draft.prev_term \in Nat /\ draft.commit \in Nat
          /\ draft.entries \in Entries
      BY <1>1 DEF Draft
    <2>3. [id |-> id, peer |-> p, prev |-> draft.prev, prev_term |-> draft.prev_term,
           entries |-> draft.entries, commit |-> draft.commit, phase |-> "sent",
           pos |-> 1, hint |-> 0, awaited |-> TRUE] \in Call
      BY <1>2, <2>2 DEF Call
    <2> QED
      BY <2>1, <2>3 DEF TypeOK
  <1>4. progress' \in [Peers -> Progress]
    <2>1. progress[p] \in Progress
      BY <1>2, PeerFacts
    <2>2. /\ progress[p].in_flight + 1 \in Nat
          /\ progress[p].next + size \in Nat \ {0}
      <3>1. progress[p].in_flight \in Nat /\ progress[p].next \in Nat \ {0}
        BY <2>1 DEF Progress
      <3> QED
        BY <1>2, <3>1
    <2>3. progress' = [progress EXCEPT ![p] =
              [progress[p] EXCEPT !.in_flight = progress[p].in_flight + 1,
                                  !.next = progress[p].next + size]]
      BY <1>2 DEF ReplicateSend, TypeOK
    <2> QED
      BY <1>2, <2>1, <2>2, <2>3 DEF TypeOK, Progress
  <1> QED
    BY <1>3, <1>4 DEF TypeOK, ReplicateSend

LEMMA CallUpdates ==
    ASSUME NEW d \in Call, NEW k \in Nat \ {0},
           NEW phase \in {"sent", "loop", "truncate", "append", "ok", "conflict", "error"}
    PROVE  /\ [d EXCEPT !.phase = phase] \in Call
           /\ [d EXCEPT !.pos = k] \in Call
           /\ [d EXCEPT !.awaited = FALSE] \in Call
           /\ [d EXCEPT !.phase = phase, !.pos = k] \in Call
  <1>1. [d EXCEPT !.phase = phase] \in Call
    BY DEF Call
  <1>2. \A e \in Call : [e EXCEPT !.pos = k] \in Call
    BY DEF Call
  <1>3. [d EXCEPT !.awaited = FALSE] \in Call
    BY DEF Call
  <1>4. [d EXCEPT !.phase = phase, !.pos = k] = [[d EXCEPT !.phase = phase] EXCEPT !.pos = k]
    OBVIOUS
  <1> QED
    BY <1>1, <1>2, <1>3, <1>4

\* Replacing a call, or ending it, leaves well-formed calls.
LEMMA TypeReplace == ASSUME TypeOK, NEW c, NEW d \in Call, Replace(c, d) PROVE calls' \subseteq Call
  BY DEF TypeOK, Replace

LEMMA TypeAnswer ==
    ASSUME TypeOK, NEW c \in calls, NEW phase \in {"ok", "conflict", "error"}, NEW hint \in Nat,
           Answer(c, phase, hint)
    PROVE  calls' \subseteq Call
  <1>1. [c EXCEPT !.phase = phase, !.hint = hint, !.pos = 1] \in Call
    <2>1. c \in Call
      BY CallFacts
    <2>2. [c EXCEPT !.phase = phase] \in Call
      BY <2>1 DEF Call
    <2>3. ASSUME NEW d \in Call PROVE [d EXCEPT !.hint = hint] \in Call
      BY DEF Call
    <2>4. ASSUME NEW d \in Call PROVE [d EXCEPT !.pos = 1] \in Call
      BY DEF Call
    <2>5. [c EXCEPT !.phase = phase, !.hint = hint, !.pos = 1]
              = [[[c EXCEPT !.phase = phase] EXCEPT !.hint = hint] EXCEPT !.pos = 1]
      OBVIOUS
    <2> QED
      BY <2>2, <2>3, <2>4, <2>5
  <1> QED
    BY <1>1, TypeReplace DEF Answer, TypeOK

LEMMA RunStartFacts ==
    ASSUME TypeOK, NEW p \in Peers, NEW i \in (snapshot[p].index + 1)..Len(log[p])
    PROVE  RunStart(p, i) \in (snapshot[p].index + 1)..i
  <1> DEFINE low == snapshot[p].index + 1
             T == {j \in low..i : \A k \in j..i : log[p][k] = log[p][i]}
  <1>1. low \in Nat \ {0} /\ i \in Nat
    BY PeerFacts, LogFacts, NodesFacts
  <1>2. T \subseteq Nat /\ i \in T
    BY <1>1
  <1>3. PICK x \in T : \A y \in T : x <= y
    <2> HIDE DEF T
    <2> QED
      BY <1>2, MinExists
  <1>4. x > low => log[p][x - 1] # log[p][i]
    <2> SUFFICES ASSUME x > low, log[p][x - 1] = log[p][i] PROVE FALSE
      OBVIOUS
    <2>1. x - 1 \in low..i /\ \A k \in (x - 1)..i : k = x - 1 \/ k \in x..i
      BY <1>1
    <2>2. x - 1 \in T
      BY <2>1
    <2> QED
      BY <1>1, <1>3, <2>1, <2>2
  <1> QED
    BY <1>4 DEF RunStart

LEMMA ConflictFacts ==
    ASSUME TypeOK, NEW p \in Peers, NEW prev \in Nat, NEW t
    PROVE  Conflict(p, prev, t) \in Nat
  <1>1. ASSUME prev <= LastIndex(p), prev > snapshot[p].index
        PROVE  RunStart(p, prev) \in Nat
    <2>1. prev \in (snapshot[p].index + 1)..Len(log[p])
      BY <1>1, PeerFacts, LogFacts, NodesFacts
    <2> QED
      BY <2>1, RunStartFacts, PeerFacts
  <1> QED
    BY <1>1, PeerFacts DEF Conflict

LEMMA TypeHandleCheck == ASSUME NEW c \in calls PROVE TypeOK /\ HandleCheck(c) => TypeOK'
  <1> SUFFICES ASSUME TypeOK, HandleCheck(c) PROVE TypeOK'
    OBVIOUS
  <1> DEFINE conflict == Conflict(c.peer, c.prev, c.prev_term)
  <1>1. conflict \in Nat
    BY ConflictFacts, CallFacts
  <1>2. [c EXCEPT !.phase = "loop", !.pos = 1] \in Call
    <2>1. c \in Call /\ 1 \in Nat \ {0}
      BY CallFacts
    <2> QED
      BY <2>1, CallUpdates
  <1>3. calls' \subseteq Call
    BY <1>1, <1>2, TypeReplace, TypeAnswer DEF HandleCheck
  <1> QED
    BY <1>3 DEF TypeOK, HandleCheck

LEMMA TypeHandleRead == ASSUME NEW c \in calls PROVE TypeOK /\ HandleRead(c) => TypeOK'
  <1> SUFFICES ASSUME TypeOK, HandleRead(c) PROVE TypeOK'
    OBVIOUS
  <1>1. c \in Call /\ c.pos + 1 \in Nat \ {0}
    BY CallFacts
  <1>2. /\ [c EXCEPT !.pos = c.pos + 1] \in Call
        /\ [c EXCEPT !.phase = "truncate"] \in Call /\ [c EXCEPT !.phase = "append"] \in Call
    BY <1>1, CallUpdates
  <1>3. calls' \subseteq Call
    BY <1>2, TypeReplace DEF HandleRead
  <1> QED
    BY <1>3 DEF TypeOK, HandleRead

\* What TruncateSuffix leaves.
LEMMA TruncateFacts ==
    ASSUME NEW l \in Logs, NEW k \in Nat \ {0}, NEW t, t = TruncateSuffix(l, k)
    PROVE  /\ t \in Logs /\ Len(t) \in Nat /\ Len(t) <= Len(l)
           /\ \A i \in 1..Len(t) : t[i] = l[i]
           /\ Held(l) = {} \/ k > Len(l) => t = l
           /\ ~(Held(l) = {} \/ k > Len(l)) => Len(t) = k - 1
           /\ \A i \in Held(t) : i \in Held(l) /\ i < k /\ t[i] = l[i]
  <1>1. /\ Len(l) \in Nat /\ DOMAIN l = 1..Len(l)
        /\ \A i \in 1..Len(l) : l[i] \in 0..LeaderTerm
    BY LenProperties, ElementOfSeq DEF Logs
  <1>2. CASE Held(l) = {} \/ k > Len(l)
    <2>1. t = l
      BY <1>2 DEF TruncateSuffix
    <2> QED
      BY <1>1, <1>2, <2>1 DEF Held
  <1>3. CASE ~(Held(l) = {} \/ k > Len(l))
    <2> DEFINE n == k - 1
    <2>1. t = SubSeq(l, 1, n)
      BY <1>3 DEF TruncateSuffix
    <2>2. n \in Nat /\ n < Len(l)
      BY <1>1, <1>3
    <2>3. \A i \in 1..n : l[i] \in 0..LeaderTerm
      BY <1>1, <2>2
    <2>4. k = n + 1
      OBVIOUS
    <2> HIDE DEF n
    <2>5. /\ SubSeq(l, 1, n) \in Seq(0..LeaderTerm)
          /\ Len(SubSeq(l, 1, n)) = IF 1 <= n THEN n - 1 + 1 ELSE 0
          /\ \A i \in 1..(n - 1 + 1) : SubSeq(l, 1, n)[i] = l[1 + i - 1]
      BY <2>2, <2>3, SubSeqProperties
    <2>6. t \in Logs /\ Len(t) = n /\ \A i \in 1..n : t[i] = l[i]
      BY <2>1, <2>2, <2>5 DEF Logs
    <2>7. DOMAIN t = 1..n
      BY <2>6, LenProperties DEF Logs
    <2>8. \A i \in Held(t) : i \in Held(l) /\ i < k /\ t[i] = l[i]
      BY <1>1, <2>2, <2>4, <2>6, <2>7 DEF Held
    <2>9. Len(t) = k - 1
      BY <2>2, <2>4, <2>6
    <2> QED
      BY <1>1, <1>3, <2>2, <2>6, <2>8, <2>9
  <1> QED
    BY <1>2, <1>3

\* What Append leaves: the entry at k, and before it what was there.
LEMMA AppendFacts ==
    ASSUME NEW l \in Logs, NEW k \in Nat \ {0}, NEW v \in 1..LeaderTerm, CanAppend(l, k),
           NEW t, t = Appended(l, k, v)
    PROVE  /\ t \in Logs /\ Len(t) = k /\ t[k] = v
           /\ \A i \in Held(t) : i = k \/ (i \in Held(l) /\ i < k /\ t[i] = l[i])
           /\ \A i \in Held(l) : i \in Held(t) /\ i < k /\ t[i] = l[i]
           /\ k \in Held(t)
  <1>1. /\ Len(l) \in Nat /\ DOMAIN l = 1..Len(l)
        /\ \A i \in 1..Len(l) : l[i] \in 0..LeaderTerm
    BY LenProperties, ElementOfSeq DEF Logs
  <1>2. LeaderTerm \in Nat /\ v # 0 /\ v \in 0..LeaderTerm
    BY ReplicationAssumption
  <1>3. CASE Held(l) = {}
    <2>1. t = [j \in 1..k |-> IF j = k THEN v ELSE 0]
      BY <1>3 DEF Appended
    <2>2. t \in [1..k -> 0..LeaderTerm]
      BY <1>2, <2>1
    <2>3. t \in Logs /\ Len(t) = k
      <3>1. t \in Seq(0..LeaderTerm)
        <4> DEFINE S == 0..LeaderTerm
        <4>1. t \in [1..k -> S]
          BY <2>2
        <4> HIDE DEF S
        <4>2. t \in Seq(S)
          BY <4>1, SeqDef, Zenon
        <4> QED
          BY <4>2 DEF S
      <3>2. Len(t) \in Nat /\ DOMAIN t = 1..Len(t) /\ DOMAIN t = 1..k
        BY <2>2, <3>1, LenProperties
      <3>3. Len(t) = k
        <4> DEFINE n == Len(t)
        <4>1. n \in Nat /\ 1..n = 1..k
          BY <3>2
        <4> HIDE DEF n
        <4>2. \A x : x \in 1..n <=> x \in 1..k
          BY <4>1
        <4>3. k \in 1..n /\ n \in 1..k
          BY <4>1, <4>2
        <4> QED
          BY <4>1, <4>3 DEF n
      <3> QED
        BY <3>1, <3>3 DEF Logs
    <2>4. DOMAIN t = 1..k /\ t[k] = v /\ \A j \in 1..k : j # k => t[j] = 0
      BY <2>1
    <2>5. k \in Held(t) /\ \A i \in Held(t) : i = k
      BY <1>2, <2>4 DEF Held
    <2> QED
      BY <1>3, <2>3, <2>4, <2>5
  <1>4. CASE Held(l) # {}
    <2>1. t = Append(l, v) /\ k = Len(l) + 1
      BY <1>4 DEF Appended, CanAppend
    <2>2. l \in Seq(0..LeaderTerm)
      BY DEF Logs
    <2>3. /\ t \in Seq(0..LeaderTerm) /\ Len(t) = Len(l) + 1
          /\ \A i \in 1..Len(l) : t[i] = l[i] /\ t[Len(l) + 1] = v
      BY <1>2, <2>1, <2>2, AppendProperties
    <2>4. Len(t) = k /\ t[k] = v /\ \A i \in 1..Len(l) : t[i] = l[i]
      BY <2>1, <2>2, <2>3, <1>2, AppendProperties
    <2>5. DOMAIN t = 1..k
      BY <2>3, <2>4, LenProperties
    <2>6. \A i \in 1..k : i = k \/ i \in 1..Len(l)
      BY <1>1, <2>1
    <2>7. \A i \in Held(t) : i = k \/ (i \in Held(l) /\ i < k /\ t[i] = l[i])
      BY <1>1, <2>1, <2>4, <2>5, <2>6 DEF Held
    <2>8. \A i \in Held(l) : i \in Held(t) /\ i < k /\ t[i] = l[i]
      BY <1>1, <2>1, <2>4, <2>5 DEF Held
    <2>9. k \in Held(t)
      BY <1>2, <2>4, <2>5 DEF Held
    <2> QED
      BY <2>3, <2>4, <2>7, <2>8, <2>9 DEF Logs
  <1> QED
    BY <1>3, <1>4

LEMMA TypeHandleTruncate == ASSUME NEW c \in calls PROVE TypeOK /\ HandleTruncate(c) => TypeOK'
  <1> SUFFICES ASSUME TypeOK, HandleTruncate(c) PROVE TypeOK'
    OBVIOUS
  <1>1. c \in Call /\ c.peer \in Nodes /\ c.peer \in Peers /\ c.prev + c.pos \in Nat \ {0}
    BY CallFacts
  <1> DEFINE t == TruncateSuffix(log[c.peer], c.prev + c.pos)
  <1>2. t \in Logs
    BY <1>1, LogFacts, TruncateFacts
  <1>3. log' = [log EXCEPT ![c.peer] = t]
    BY DEF HandleTruncate
  <1> HIDE DEF t
  <1>4. log' \in [Nodes -> Logs] /\ log'[Leader] \in Entries
    BY <1>1, <1>2, <1>3, NodesFacts, ReplicationAssumption DEF TypeOK
  <1>5. calls' \subseteq Call
    <2>1. [c EXCEPT !.phase = "append"] \in Call
      BY <1>1 DEF Call
    <2> QED
      BY <2>1, TypeReplace DEF HandleTruncate
  <1>6. misled' \subseteq Peers
    BY <1>1 DEF TypeOK, HandleTruncate
  <1> QED
    BY <1>4, <1>5, <1>6 DEF TypeOK, HandleTruncate

LEMMA TypeHandleAppend ==
    ASSUME NEW c \in calls, c.phase = "append" => c.pos <= Len(c.entries)
    PROVE  TypeOK /\ HandleAppend(c) => TypeOK'
  <1> SUFFICES ASSUME TypeOK, HandleAppend(c) PROVE TypeOK'
    OBVIOUS
  <1>1. /\ c \in Call /\ c.peer \in Nodes /\ c.peer \in Peers /\ c.pos + 1 \in Nat \ {0}
        /\ c.prev + c.pos \in Nat \ {0}
    BY CallFacts
  <1>2. c.entries[c.pos] \in 1..LeaderTerm
    BY CallFacts DEF HandleAppend
  <1> DEFINE t == Appended(log[c.peer], c.prev + c.pos, c.entries[c.pos])
  <1>3. CanAppend(log[c.peer], c.prev + c.pos) => t \in Logs
    BY <1>1, <1>2, LogFacts, AppendFacts
  <1>4. \/ CanAppend(log[c.peer], c.prev + c.pos) /\ log' = [log EXCEPT ![c.peer] = t]
        \/ log' = log
    BY DEF HandleAppend
  <1> HIDE DEF t
  <1>5. log' \in [Nodes -> Logs] /\ log'[Leader] \in Entries
    BY <1>1, <1>3, <1>4, NodesFacts, ReplicationAssumption DEF TypeOK
  <1>6. [c EXCEPT !.phase = "loop", !.pos = c.pos + 1] \in Call
    BY <1>1, CallUpdates
  <1>7. calls' \subseteq Call
    BY <1>6, TypeReplace, TypeAnswer DEF HandleAppend
  <1> QED
    BY <1>5, <1>7 DEF TypeOK, HandleAppend

LEMMA TypeRaiseCommit ==
    ASSUME TypeOK, NEW p \in Peers, NEW k \in Nat, RaiseCommit(p, k)
    PROVE  commit_index' \in [Nodes -> Nat]
  <1>1. MaxOf(commit_index[p], MinOf(k, LastIndex(p))) \in Nat
    BY PeerFacts, LogFacts, NodesFacts DEF MaxOf, MinOf
  <1> QED
    BY <1>1 DEF RaiseCommit, TypeOK

LEMMA TypeHandleFinish == ASSUME NEW c \in calls PROVE TypeOK /\ HandleFinish(c) => TypeOK'
  <1> SUFFICES ASSUME TypeOK, HandleFinish(c) PROVE TypeOK'
    OBVIOUS
  <1>1. commit_index' \in [Nodes -> Nat]
    BY CallFacts, TypeRaiseCommit DEF HandleFinish
  <1>2. calls' \subseteq Call
    BY CallFacts, PeerFacts, TypeAnswer DEF HandleFinish, MatchIndex
  <1>3. misled' \subseteq Peers
    BY CallFacts DEF TypeOK, HandleFinish
  <1> QED
    BY <1>1, <1>2, <1>3 DEF TypeOK, HandleFinish

LEMMA TypeOnSuccess == ASSUME NEW c \in calls PROVE TypeOK /\ OnSuccess(c) => TypeOK'
  <1> SUFFICES ASSUME TypeOK, OnSuccess(c) PROVE TypeOK'
    OBVIOUS
  <1> DEFINE g == progress[c.peer]
  <1>1. c.peer \in Peers /\ c.hint \in Nat /\ g \in Progress
    BY CallFacts, PeerFacts
  <1>2. [next |-> MaxOf(g.next, c.hint + 1), match |-> MaxOf(g.match, c.hint),
         in_flight |-> Decrement(g.in_flight), anchor |-> 0, failures |-> 0] \in Progress
    BY <1>1 DEF Progress, MaxOf, Decrement
  <1>3. progress' \in [Peers -> Progress]
    BY <1>2 DEF TypeOK, OnSuccess
  <1>4. \A match : Committable(match) \in Nat
    <2> SUFFICES ASSUME NEW match PROVE Committable(match) \in Nat
      OBVIOUS
    <2> DEFINE Holders(i) == {p \in Peers : match[p] >= i}
                                 \cup (IF flushed_index >= i THEN {Leader} ELSE {})
               S == {i \in (commit_index[Leader] + 1)..LeaderLast :
                         log[Leader][i] = LeaderTerm /\ Cardinality(Holders(i)) >= QuorumSize}
    <2>1. Committable(match) = IF S = {} THEN commit_index[Leader]
                               ELSE CHOOSE i \in S : \A j \in S : j <= i
      BY DEF Committable
    <2>2. S \subseteq 0..LeaderLast /\ LeaderLast \in Nat /\ commit_index[Leader] \in Nat
      BY LeaderFacts, LogFacts, NodesFacts
    <2> HIDE DEF S
    <2>3. S # {} => \E i \in S : \A j \in S : j <= i
      BY <2>2, MaxExists
    <2> DEFINE m == CHOOSE i \in S : \A j \in S : j <= i
    <2>4. S # {} => m \in S
      BY <2>3
    <2>5. Committable(match) = IF S = {} THEN commit_index[Leader] ELSE m
      BY <2>1
    <2> HIDE DEF m
    <2>6. CASE S = {}
      BY <2>2, <2>5, <2>6
    <2>7. CASE S # {}
      <3>1. m \in 0..LeaderLast
        BY <2>2, <2>4, <2>7
      <3>2. m \in Nat
        BY <2>2, <3>1
      <3> QED
        BY <2>5, <2>7, <3>2
    <2> QED
      BY <2>6, <2>7
  <1>5. commit_index' \in [Nodes -> Nat]
    BY <1>4 DEF TypeOK, OnSuccess
  <1>6. calls' \subseteq Call
    BY DEF TypeOK, OnSuccess
  <1> QED
    BY <1>3, <1>5, <1>6 DEF TypeOK, OnSuccess

LEMMA RollbackFacts ==
    ASSUME NEW g \in Progress, NEW attempted \in Nat, NEW conflict \in Nat
    PROVE  Rollback(g, attempted, conflict) \in Progress
  <1> DEFINE from == IF g.anchor = 0 THEN attempted ELSE g.anchor
             anchor == IF conflict # 0 /\ conflict < from THEN conflict ELSE from
             failures == MinOf(g.failures + 1, MaxFailures)
             retreat == IF failures > LinearThreshold
                        THEN LinearThreshold + 2 ^ MinOf(failures - LinearThreshold - 1, 20)
                        ELSE failures
  <1>1. g.anchor \in Nat /\ g.failures \in Nat /\ g.match \in Nat
    BY DEF Progress
  <1>2. anchor \in Nat
    BY <1>1
  <1>3. failures \in Nat /\ LinearThreshold \in Nat
    <2>1. Window \in Nat /\ MaxFailures \in Nat
      BY ReplicationAssumption
    <2>2. failures \in Nat
      BY <1>1, <2>1 DEF MinOf
    <2>3. LinearThreshold \in Nat
      BY <2>1 DEF LinearThreshold, MaxOf
    <2> QED
      BY <2>2, <2>3
  <1>4. retreat \in Int
    <2>1. CASE failures > LinearThreshold
      <3>1. MinOf(failures - LinearThreshold - 1, 20) \in Nat
        BY <1>3, <2>1 DEF MinOf
      <3> QED
        BY <1>3, <2>1, <3>1
    <2>2. CASE ~(failures > LinearThreshold)
      BY <1>3, <2>2
    <2> QED
      BY <2>1, <2>2
  <1> HIDE DEF anchor, failures, retreat
  <1>5. (IF anchor > retreat THEN anchor - retreat ELSE 1) \in Nat \ {0}
    BY <1>2, <1>4
  <1>6. Rollback(g, attempted, conflict) =
            [next |-> IF anchor > retreat THEN anchor - retreat ELSE 1,
             match |-> g.match, in_flight |-> 0, anchor |-> anchor, failures |-> failures]
    BY DEF Rollback, anchor, failures, retreat
  <1> QED
    BY <1>1, <1>2, <1>3, <1>5, <1>6 DEF Progress

LEMMA TypeOnConflict == ASSUME NEW c \in calls PROVE TypeOK /\ OnConflict(c) => TypeOK'
  <1> SUFFICES ASSUME TypeOK, OnConflict(c) PROVE TypeOK'
    OBVIOUS
  <1> DEFINE g == progress[c.peer]
             direct == [next |-> c.hint, match |-> g.match, in_flight |-> 0,
                        anchor |-> 0, failures |-> 0]
  <1>1. c.peer \in Peers /\ c.hint \in Nat /\ c.prev + 1 \in Nat /\ g \in Progress
    BY CallFacts, PeerFacts
  <1>2. c.hint > 0 => direct \in Progress
    BY <1>1 DEF Progress
  <1>3. Rollback(g, c.prev + 1, c.hint) \in Progress
    BY <1>1, RollbackFacts
  <1>4. progress' = [progress EXCEPT ![c.peer] = IF c.hint > 0 /\ c.hint < c.prev + 1
                                                 THEN direct ELSE Rollback(g, c.prev + 1, c.hint)]
    BY DEF OnConflict
  <1>5. progress' \in [Peers -> Progress]
    BY <1>1, <1>2, <1>3, <1>4 DEF TypeOK
  <1> QED
    BY <1>5 DEF TypeOK, OnConflict

LEMMA TypeFailed ==
    ASSUME TypeOK, NEW p \in Peers, NEW k \in Nat, Failed(p, k)
    PROVE  progress' \in [Peers -> Progress]
  <1> DEFINE g == progress[p]
             next == IF k > 0 THEN MinOf(g.next, k) ELSE g.next
  <1>1. g \in Progress
    BY PeerFacts
  <1>2. g.next \in Nat \ {0} /\ g.in_flight \in Nat
    BY <1>1 DEF Progress
  <1>3. next \in Nat \ {0} /\ Decrement(g.in_flight) \in Nat
    BY <1>2 DEF MinOf, Decrement
  <1>4. progress' = [progress EXCEPT ![p] =
            [g EXCEPT !.in_flight = Decrement(g.in_flight), !.next = next]]
    BY DEF Failed, TypeOK
  <1> HIDE DEF next
  <1>5. [g EXCEPT !.in_flight = Decrement(g.in_flight), !.next = next] \in Progress
    BY <1>1, <1>3 DEF Progress
  <1> QED
    BY <1>4, <1>5 DEF TypeOK

LEMMA TypeOnError == ASSUME NEW c \in calls PROVE TypeOK /\ OnError(c) => TypeOK'
  <1> SUFFICES ASSUME TypeOK, OnError(c) PROVE TypeOK'
    OBVIOUS
  <1>1. progress' \in [Peers -> Progress]
    BY CallFacts, TypeFailed DEF OnError
  <1> QED
    BY <1>1 DEF TypeOK, OnError

LEMMA TypeOnTimeout == ASSUME NEW c \in calls PROVE TypeOK /\ OnTimeout(c) => TypeOK'
  <1> SUFFICES ASSUME TypeOK, OnTimeout(c) PROVE TypeOK'
    OBVIOUS
  <1>1. progress' \in [Peers -> Progress]
    BY CallFacts, TypeFailed, SMTT(30) DEF OnTimeout
  <1>2. [c EXCEPT !.awaited = FALSE] \in Call
    BY CallFacts, CallUpdates
  <1>3. calls' \subseteq Call
    BY <1>2, TypeReplace DEF TypeOK, OnTimeout
  <1>4. spent' \in Spent
    <2>1. spent.lost + 1 \in 0..MaxLost
      BY BoundFacts DEF TypeOK, OnTimeout, Spent
    <2> QED
      BY <2>1 DEF TypeOK, OnTimeout, Spent
  <1> QED
    BY <1>1, <1>3, <1>4 DEF TypeOK, OnTimeout

LEMMA TypeHeartbeatCommit ==
    ASSUME NEW p \in Peers PROVE TypeOK /\ HeartbeatCommit(p) => TypeOK'
  <1> SUFFICES ASSUME TypeOK, HeartbeatCommit(p) PROVE TypeOK'
    OBVIOUS
  <1>1. commit_index' \in [Nodes -> Nat]
    BY LogFacts, NodesFacts, TypeRaiseCommit DEF HeartbeatCommit
  <1> QED
    BY <1>1 DEF TypeOK, HeartbeatCommit

LEMMA TypeHeartbeatFails ==
    ASSUME NEW p \in Peers PROVE TypeOK /\ HeartbeatFails(p) => TypeOK'
  <1> SUFFICES ASSUME TypeOK, HeartbeatFails(p) PROVE TypeOK'
    OBVIOUS
  <1>1. progress' \in [Peers -> Progress]
    BY TypeFailed DEF HeartbeatFails
  <1>2. spent' \in Spent
    <2>1. spent.heartbeats + 1 \in 0..MaxHeartbeatLost
      BY BoundFacts DEF TypeOK, HeartbeatFails, Spent
    <2> QED
      BY <2>1 DEF TypeOK, HeartbeatFails, Spent
  <1> QED
    BY <1>1, <1>2 DEF TypeOK, HeartbeatFails

LEMMA TypeTakeSnapshot ==
    ASSUME NEW p \in Peers PROVE TypeOK /\ TakeSnapshot(p) => TypeOK'
  <1> SUFFICES ASSUME TypeOK, TakeSnapshot(p) PROVE TypeOK'
    OBVIOUS
  <1>1. PICK i \in (snapshot[p].index + 1)..MinOf(commit_index[p], Len(log[p])) :
            snapshot' = [snapshot EXCEPT ![p] = [index |-> i, term |-> log[p][i]]]
    BY DEF TakeSnapshot
  <1>2. i \in Nat /\ log[p][i] \in Nat
    <2>1. snapshot[p].index \in Nat /\ commit_index[p] \in Nat /\ Len(log[p]) \in Nat
      BY PeerFacts, LogFacts, NodesFacts
    <2>2. i \in 1..Len(log[p])
      BY <2>1 DEF MinOf
    <2>3. log[p][i] \in 0..LeaderTerm
      BY <2>2, LogFacts, NodesFacts
    <2> QED
      BY <2>2, <2>3, ReplicationAssumption, SMTT(30)
  <1>3. snapshot' \in [Peers -> [index: Nat, term: Nat]]
    BY <1>1, <1>2 DEF TypeOK
  <1>4. spent' \in Spent
    <2>1. spent.snapshots + 1 \in 0..MaxSnapshots
      BY BoundFacts, SMTT(30) DEF TypeOK, TakeSnapshot, Spent
    <2> QED
      BY <2>1 DEF TypeOK, TakeSnapshot, Spent
  <1> QED
    BY <1>3, <1>4 DEF TypeOK, TakeSnapshot

(***************************************************************************)
(* Log Matching.  Three lemmas, by what a step does to the logs.           *)
(***************************************************************************)

LEMMA MatchingFacts ==
    ASSUME LogMatching, NEW m \in Nodes, NEW n \in Nodes,
           NEW i \in Held(log[m]), i \in Held(log[n]), log[m][i] = log[n][i],
           NEW j \in Held(log[m]), j \in Held(log[n]), j <= i
    PROVE  log[m][j] = log[n][j]
  BY DEF LogMatching, Matching

\* An entry a peer shares with the leader ends a common prefix.
LEMMA SharedEntryAgrees ==
    ASSUME TypeOK, LogMatching, NEW p \in Peers, NEW k \in Nat, k > 0 => Shared(p, k)
    PROVE  Agrees(p, k)
  <1> SUFFICES ASSUME NEW j \in 1..k, j \in Held(log[p]) PROVE Shared(p, j)
    BY DEF Agrees
  <1>1. LeaderLast \in Nat /\ p \in Nodes /\ Leader \in Nodes /\ Held(log[Leader]) = 1..LeaderLast
    BY LeaderFacts, NodesFacts
  <1>2. k \in Held(log[p]) /\ k <= LeaderLast /\ log[p][k] = log[Leader][k] /\ j <= k
    BY DEF Shared
  <1>3. k \in Held(log[Leader]) /\ j \in Held(log[Leader]) /\ j <= LeaderLast
    BY <1>1, <1>2
  <1>4. log[p][j] = log[Leader][j]
    BY <1>1, <1>2, <1>3, MatchingFacts
  <1> QED
    BY <1>3, <1>4 DEF Shared

\* Logs and snapshots unchanged.
LEMMA SameLogs ==
    ASSUME ReplicationInv, UNCHANGED <<log, snapshot>>, IsLeaderPiece(draft'),
           \A d \in calls' : IsLeaderPiece(d) /\ Aligned(d)
    PROVE  ReplicationInv'
  <1>1. IsLeaderPiece(draft)' /\ \A d \in calls' : IsLeaderPiece(d)'
    BY DEF IsLeaderPiece, LeaderLast, LeaderTermAt
  <1>2. \A n, k : Agrees(n, k)' = Agrees(n, k)
    BY DEF Agrees, Shared, LeaderLast
  <1>3. \A d \in calls' : Aligned(d)'
    BY <1>2 DEF Aligned
  <1>4. LogMatching' /\ SnapshotsAligned' /\ OwnTermFromLeader'
    BY <1>2 DEF ReplicationInv, LogMatching, SnapshotsAligned, OwnTermFromLeader, LeaderLast
  <1> QED
    BY <1>1, <1>3, <1>4 DEF ReplicationInv

\* The leader appends an entry of its term.
LEMMA LeaderAppends == TypeOK /\ ReplicationInv /\ ProposeAppend => ReplicationInv'
  <1> SUFFICES ASSUME TypeOK, ReplicationInv, ProposeAppend PROVE ReplicationInv'
    OBVIOUS
  <1>1. TypeOK'
    BY TypeProposeAppend
  <1>2. /\ LeaderLast \in Nat /\ LeaderLast' = LeaderLast + 1
        /\ \A i \in 1..LeaderLast : log'[Leader][i] = log[Leader][i]
        /\ log'[Leader][LeaderLast + 1] = LeaderTerm
    <2>1. log'[Leader] = Append(log[Leader], LeaderTerm) /\ log[Leader] \in Entries
      BY NodesFacts DEF ProposeAppend, TypeOK
    <2>2. LeaderTerm \in 1..LeaderTerm
      BY ReplicationAssumption
    <2> QED
      BY <2>1, <2>2, AppendProperties, LeaderFacts DEF LeaderLast, Entries
  <1>3. \A p \in Peers : log'[p] = log[p]
    BY ReplicationAssumption DEF ProposeAppend, TypeOK
  <1>4. UNCHANGED <<snapshot, draft, calls>>
    BY DEF ProposeAppend
  <1>5. ASSUME NEW r, r.prev \in Nat, IsLeaderPiece(r) PROVE IsLeaderPiece(r)'
    <2>1. LeaderTermAt(r.prev)' = LeaderTermAt(r.prev)
      BY <1>2, <1>5 DEF LeaderTermAt, IsLeaderPiece
    <2>2. ASSUME NEW j \in 1..Len(r.entries)
          PROVE  r.prev + j <= LeaderLast' /\ r.entries[j] = log'[Leader][r.prev + j]
      <3>1. r.prev + j <= LeaderLast /\ r.entries[j] = log[Leader][r.prev + j]
        BY <1>5 DEF IsLeaderPiece
      <3>2. r.prev + j \in 1..LeaderLast
        BY <3>1, <1>2, <1>5
      <3> QED
        BY <1>2, <3>1, <3>2
    <2> QED
      BY <1>2, <1>5, <2>1, <2>2 DEF IsLeaderPiece
  <1>6. ASSUME NEW p \in Peers, NEW k, Agrees(p, k) PROVE Agrees(p, k)'
    <2> SUFFICES ASSUME NEW i \in 1..k, i \in Held(log'[p]) PROVE Shared(p, i)'
      BY DEF Agrees
    <2>1. i \in Held(log[p]) /\ Shared(p, i)
      BY <1>3, <1>6 DEF Agrees
    <2>2. i \in 1..LeaderLast /\ log[p][i] = log[Leader][i]
      BY <1>2, <2>1, HeldFacts, NodesFacts DEF Shared
    <2> QED
      BY <1>2, <1>3, <2>1, <2>2 DEF Shared
  <1>7. IsLeaderPiece(draft)' /\ \A c \in calls' : IsLeaderPiece(c)' /\ Aligned(c)'
    <2>1. draft.prev \in Nat
      BY DEF TypeOK, Draft, NoDraft
    <2> QED
      BY <1>4, <1>5, <1>6, <2>1, CallFacts DEF ReplicationInv, Aligned
  <1>8. SnapshotsAligned'
    BY <1>3, <1>4, <1>6 DEF ReplicationInv, SnapshotsAligned
  <1>9. OwnTermFromLeader'
    BY <1>2, <1>3, LogFacts, NodesFacts DEF ReplicationInv, OwnTermFromLeader
  <1>10. ASSUME NEW p \in Peers, NEW i \in Held(log[p]), i <= LeaderLast',
                log[p][i] = log'[Leader][i], NEW j \in Held(log[p]), j <= i
         PROVE  log[p][j] = log'[Leader][j]
    <2>0. i \in 1..Len(log[p]) /\ j \in 1..i /\ i \in Nat
      BY <1>10, HeldFacts, LogFacts, NodesFacts
    <2>1. CASE i <= LeaderLast
      <3>1. log[p][i] = log[Leader][i] /\ i \in 1..LeaderLast /\ j \in 1..LeaderLast
        BY <1>2, <1>10, <2>0, <2>1
      <3>2. i \in Held(log[Leader]) /\ j \in Held(log[Leader])
        BY <3>1, LeaderFacts
      <3>3. log[p][j] = log[Leader][j]
        BY <1>10, <3>1, <3>2, MatchingFacts, NodesFacts DEF ReplicationInv
      <3> QED
        BY <1>2, <3>1, <3>3
    <2>2. CASE i = LeaderLast + 1
      <3>1. log[p][i] = LeaderTerm /\ i \in DOMAIN log[p]
        BY <1>2, <1>10, <2>0, <2>2, LogFacts, NodesFacts
      <3> QED
        BY <1>2, <2>2, <3>1 DEF ReplicationInv, OwnTermFromLeader
    <2> QED
      BY <1>2, <1>10, <2>0, <2>1, <2>2
  <1>11. LogMatching'
    <2> SUFFICES ASSUME NEW m \in Nodes, NEW n \in Nodes,
                        NEW i \in Held(log'[m]), i \in Held(log'[n]), log'[m][i] = log'[n][i],
                        NEW j \in Held(log'[m]), j \in Held(log'[n]), j <= i
                 PROVE  log'[m][j] = log'[n][j]
      BY DEF LogMatching, Matching
    <2>1. \A x \in Held(log'[Leader]) : x <= LeaderLast'
      <3>2. (Held(log[Leader]) = 1..LeaderLast)'
        BY <1>1, LeaderHeld, PTL
      <3> QED
        BY <1>2, <3>2
    <2>2. CASE m \in Peers /\ n \in Peers
      <3>1. log'[m] = log[m] /\ log'[n] = log[n] /\ m \in Nodes /\ n \in Nodes
        BY <1>3, <2>2
      <3> QED
        BY <3>1, MatchingFacts DEF ReplicationInv
    <2>3. CASE m \in Peers /\ n = Leader
      BY <1>3, <1>10, <2>1, <2>3
    <2>4. CASE m = Leader /\ n \in Peers
      BY <1>3, <1>10, <2>1, <2>4
    <2>5. CASE m = Leader /\ n = Leader
      BY <2>5
    <2> QED
      BY <2>2, <2>3, <2>4, <2>5 DEF Nodes
  <1> QED
    BY <1>7, <1>8, <1>9, <1>11 DEF ReplicationInv

\* The log of one peer becomes a prefix of the leader's.
LEMMA PeerBecomesPrefix ==
    ASSUME TypeOK, TypeOK', ReplicationInv, NEW p \in Peers,
           \A n \in Nodes \ {p} : log'[n] = log[n],
           \A i \in Held(log'[p]) : i <= LeaderLast /\ log'[p][i] = log[Leader][i],
           UNCHANGED <<snapshot, draft>>,
           \A d \in calls' :
               /\ d.peer \in Peers /\ IsLeaderPiece(d) /\ (d.peer # p => Aligned(d))
               /\ d.phase \in {"truncate", "append"} => d.pos <= Len(d.entries)
    PROVE  ReplicationInv'
  <1>1. log'[Leader] = log[Leader] /\ LeaderLast' = LeaderLast
    BY NodesFacts, ReplicationAssumption DEF LeaderLast
  <1>2. IsLeaderPiece(draft)' /\ \A d \in calls' : IsLeaderPiece(d)'
    BY <1>1 DEF ReplicationInv, IsLeaderPiece, LeaderTermAt
  <1>3. ASSUME NEW q \in Peers \ {p}
        PROVE  log'[q] = log[q] /\ \A k : Agrees(q, k) => Agrees(q, k)'
    <2>1. log'[q] = log[q]
      BY NodesFacts
    <2> QED
      BY <1>1, <2>1 DEF Agrees, Shared
  <1>4. \A k \in Int : Agrees(p, k)'
    BY <1>1 DEF Agrees, Shared
  <1>5. \A d \in calls' : Aligned(d)'
    <2> SUFFICES ASSUME NEW d \in calls' PROVE Aligned(d)'
      OBVIOUS
    <2>1. d.prev + d.pos - 1 \in Int
      BY DEF TypeOK, Call
    <2> QED
      BY <1>3, <1>4, <2>1 DEF Aligned
  <1>6. SnapshotsAligned'
    BY <1>3, <1>4, PeerFacts DEF ReplicationInv, SnapshotsAligned
  <1>7. OwnTermFromLeader'
    <2> SUFFICES ASSUME NEW q \in Peers, NEW i \in DOMAIN log'[q], log'[q][i] = LeaderTerm
                 PROVE  i <= LeaderLast'
      BY DEF OwnTermFromLeader
    <2>1. CASE q = p
      <3>1. i \in Held(log'[p])
        BY <2>1, ReplicationAssumption DEF Held
      <3> QED
        BY <1>1, <3>1
    <2>2. CASE q # p
      BY <1>1, <1>3, <2>2 DEF ReplicationInv, OwnTermFromLeader
    <2> QED
      BY <2>1, <2>2
  <1>8. ASSUME NEW n \in Nodes \ {p}, NEW i \in Held(log'[p]), i \in Held(log[n]),
               log'[p][i] = log[n][i], NEW j \in Held(log'[p]), j \in Held(log[n]), j <= i
        PROVE  log'[p][j] = log[n][j]
    <2>1. i <= LeaderLast /\ log[Leader][i] = log[n][i] /\ log'[p][j] = log[Leader][j]
      BY <1>8
    <2>2. i \in 1..LeaderLast /\ j \in 1..LeaderLast
      BY <1>8, <2>1, HeldFacts, LogFacts, LeaderFacts
    <2>3. i \in Held(log[Leader]) /\ j \in Held(log[Leader])
      BY <2>2, LeaderFacts
    <2>4. log[n][j] = log[Leader][j]
      BY <1>8, <2>1, <2>3, MatchingFacts, NodesFacts DEF ReplicationInv
    <2> QED
      BY <2>1, <2>4
  <1>9. LogMatching'
    <2> SUFFICES ASSUME NEW m \in Nodes, NEW n \in Nodes,
                        NEW i \in Held(log'[m]), i \in Held(log'[n]), log'[m][i] = log'[n][i],
                        NEW j \in Held(log'[m]), j \in Held(log'[n]), j <= i
                 PROVE  log'[m][j] = log'[n][j]
      BY DEF LogMatching, Matching
    <2>2. CASE m # p /\ n # p
      <3>1. log'[m] = log[m] /\ log'[n] = log[n]
        BY <2>2
      <3> QED
        BY <3>1, MatchingFacts DEF ReplicationInv
    <2>3. CASE m = p /\ n # p
      BY <1>8, <2>3
    <2>4. CASE m # p /\ n = p
      BY <1>8, <2>4
    <2>5. CASE m = p /\ n = p
      BY <2>5
    <2> QED
      BY <2>2, <2>3, <2>4, <2>5
  <1> QED
    BY <1>2, <1>5, <1>6, <1>7, <1>9 DEF ReplicationInv

\* A call that keeps its piece, outside the handler's loop, satisfies the invariant.
LEMMA AnswerKeeps ==
    ASSUME TypeOK, ReplicationInv, NEW c \in calls, NEW phase \in {"ok", "conflict", "error"},
           NEW hint, Answer(c, phase, hint)
    PROVE  /\ \A d \in calls' : IsLeaderPiece(d) /\ Aligned(d) /\ d.peer \in Peers
           /\ \A d \in calls' : d.phase \in {"truncate", "append"} => d.pos <= Len(d.entries)
  <1> DEFINE e == [c EXCEPT !.phase = phase, !.hint = hint, !.pos = 1]
  <1>1. c \in Call /\ \A d \in calls : IsLeaderPiece(d) /\ Aligned(d) /\ d.peer \in Peers
    BY CallFacts DEF ReplicationInv
  <1>2. /\ e.phase = phase /\ e.peer = c.peer /\ e.prev = c.prev /\ e.prev_term = c.prev_term
        /\ e.entries = c.entries
    BY <1>1 DEF Call
  <1> HIDE DEF e
  <1>3. IsLeaderPiece(e) /\ Aligned(e) /\ e.peer \in Peers
    BY <1>1, <1>2 DEF IsLeaderPiece, Aligned
  <1>4. calls' \subseteq (calls \cup {e})
    BY DEF Answer, Replace, e
  <1>5. \A d \in calls : d.phase \in {"truncate", "append"} => d.pos <= Len(d.entries)
    BY <1>1 DEF Aligned
  <1>6. ~(e.phase \in {"truncate", "append"})
    BY <1>2
  <1> QED
    BY <1>1, <1>3, <1>4, <1>5, <1>6

LEMMA InvInit == Init => ReplicationInv
  <1> SUFFICES ASSUME Init PROVE ReplicationInv
    OBVIOUS
  <1>1. TypeOK
    BY InitTypes
  <1>2. LogMatching
    BY DEF Init, LogMatching
  <1>3. IsLeaderPiece(draft)
    <2>1. draft.prev = 0 /\ draft.prev_term = 0 /\ draft.entries = <<>>
      BY DEF Init, NoDraft
    <2>2. Len(draft.entries) = 0
      BY <2>1, EmptySeq
    <2> QED
      BY <1>1, <2>1, <2>2, LeaderFacts DEF IsLeaderPiece, LeaderTermAt
  <1>4. SnapshotsAligned
    BY DEF Init, SnapshotsAligned, Agrees
  <1>5. OwnTermFromLeader
    <2> SUFFICES ASSUME NEW p \in Peers, NEW i \in DOMAIN log[p] PROVE log[p][i] # LeaderTerm
      BY DEF OwnTermFromLeader
    <2>1. log[p] \in Seq(0..(LeaderTerm - 1))
      BY ReplicationAssumption DEF Init
    <2>2. log[p][i] \in 0..(LeaderTerm - 1)
      BY <2>1, LenProperties, ElementOfSeq
    <2> QED
      BY <2>2, ReplicationAssumption
  <1> QED
    BY <1>2, <1>3, <1>4, <1>5 DEF Init, ReplicationInv

LEMMA InvReplicateRead ==
    ASSUME TypeOK, ReplicationInv, NEW p \in Peers, ReplicateRead(p) PROVE ReplicationInv'
  <1> DEFINE next == progress[p].next
             to == MinOf(LeaderLast, next + BatchMax - 1)
             piece == SubSeq(log[Leader], next, to)
  <1>1. next \in Nat \ {0} /\ next - 1 <= LeaderLast
    BY PeerFacts DEF Progress, ReplicateRead
  <1>2. \A j \in 1..Len(piece) :
            next - 1 + j <= LeaderLast /\ piece[j] = log[Leader][next - 1 + j]
    BY <1>1, PieceFacts
  <1>3. /\ draft'.prev = next - 1 /\ draft'.prev_term = LeaderTermAt(next - 1)
        /\ draft'.entries = piece
    BY DEF ReplicateRead
  <1> HIDE DEF next, piece
  <1>4. IsLeaderPiece(draft')
    BY <1>1, <1>2, <1>3 DEF IsLeaderPiece
  <1> QED
    BY <1>4, SameLogs DEF ReplicateRead, ReplicationInv

LEMMA InvReplicateSend == ASSUME TypeOK, ReplicationInv, ReplicateSend PROVE ReplicationInv'
  <1>1. PICK id \in 1..MaxCalls : calls' = calls \cup
            {[id |-> id, peer |-> draft.peer, prev |-> draft.prev, prev_term |-> draft.prev_term,
              entries |-> draft.entries, commit |-> draft.commit, phase |-> "sent",
              pos |-> 1, hint |-> 0, awaited |-> TRUE]}
    BY DEF ReplicateSend
  <1>2. \A d \in calls' : IsLeaderPiece(d) /\ Aligned(d)
    BY <1>1 DEF ReplicationInv, IsLeaderPiece, Aligned
  <1>3. IsLeaderPiece(NoDraft)
    <2>1. NoDraft.prev = 0 /\ NoDraft.prev_term = 0 /\ NoDraft.entries = <<>>
      BY DEF NoDraft
    <2> QED
      BY <2>1, EmptySeq, LeaderFacts DEF IsLeaderPiece, LeaderTermAt
  <1> QED
    BY <1>2, <1>3, SameLogs DEF ReplicateSend

LEMMA InvHandleCheck ==
    ASSUME TypeOK, ReplicationInv, NEW c \in calls, HandleCheck(c) PROVE ReplicationInv'
  <1> DEFINE p == c.peer
             conflict == Conflict(p, c.prev, c.prev_term)
             e == [c EXCEPT !.phase = "loop", !.pos = 1]
  <1>1. c \in Call /\ p \in Peers /\ c.prev \in Nat /\ IsLeaderPiece(c) /\ LogMatching
    BY CallFacts DEF ReplicationInv
  <1>2. CASE conflict # 0
    BY <1>2, ConflictFacts, <1>1, AnswerKeeps, SameLogs DEF HandleCheck, ReplicationInv
  <1>3. CASE conflict = 0
    <2>1. Agrees(p, c.prev)
      <3>1. /\ snapshot[p].index \in Nat /\ LastIndex(p) \in Nat /\ Len(log[p]) \in Nat
            /\ LastIndex(p) = Len(log[p]) \/ LastIndex(p) = snapshot[p].index
        BY <1>1, PeerFacts, LogFacts, NodesFacts
      <3>2. /\ c.prev <= LastIndex(p) /\ c.prev >= snapshot[p].index
            /\ c.prev = 0 \/ TermAt(p, c.prev) = c.prev_term
        <4>1. ASSUME c.prev <= LastIndex(p), c.prev > snapshot[p].index
              PROVE  RunStart(p, c.prev) > 0
          <5>1. c.prev \in (snapshot[p].index + 1)..Len(log[p])
            BY <1>1, <3>1, <4>1
          <5> QED
            BY <1>1, <3>1, <5>1, RunStartFacts
        <4> QED
          BY <1>1, <1>3, <3>1, <4>1 DEF Conflict
      <3>3. c.prev <= LeaderLast /\ (c.prev > 0 => c.prev_term = log[Leader][c.prev])
        BY <1>1 DEF IsLeaderPiece, LeaderTermAt
      <3>4. CASE c.prev = 0
        BY <3>4 DEF Agrees
      <3>5. CASE c.prev > 0 /\ c.prev = snapshot[p].index
        <4>1. snapshot[p].term = log[Leader][c.prev]
          BY <3>2, <3>3, <3>5 DEF TermAt
        <4>2. CASE Agrees(p, snapshot[p].index)
          BY <3>5, <4>2
        <4>3. CASE snapshot[p].index \in Held(log[p]) /\ log[p][snapshot[p].index] = snapshot[p].term
          <5>1. Shared(p, c.prev)
            BY <3>3, <3>5, <4>1, <4>3 DEF Shared
          <5> QED
            BY <1>1, <5>1, SharedEntryAgrees
        <4> QED
          BY <1>1, <4>2, <4>3 DEF ReplicationInv, SnapshotsAligned
      <3>6. CASE c.prev > snapshot[p].index
        <4>1. c.prev <= Len(log[p]) /\ log[p][c.prev] = log[Leader][c.prev]
          BY <1>1, <3>1, <3>2, <3>3, <3>6 DEF TermAt
        <4>2. c.prev \in 1..LeaderLast
          BY <1>1, <3>1, <3>3, <3>6, LeaderFacts
        <4>3. log[Leader][c.prev] # 0
          BY <4>2, LeaderFacts, ReplicationAssumption
        <4>4. c.prev \in Held(log[p])
          BY <1>1, <3>1, <3>6, <4>1, <4>3, HeldFacts, NodesFacts
        <4>5. Shared(p, c.prev)
          BY <3>3, <4>1, <4>4 DEF Shared
        <4> QED
          BY <1>1, <4>5, SharedEntryAgrees
      <3> QED
        BY <1>1, <3>1, <3>2, <3>4, <3>5, <3>6
    <2>2. calls' = (calls \ {c}) \cup {e}
      BY <1>3 DEF HandleCheck, Replace
    <2>3. /\ e.phase = "loop" /\ e.peer = p /\ e.prev = c.prev /\ e.prev_term = c.prev_term
          /\ e.entries = c.entries /\ e.pos = 1
      BY <1>1 DEF Call
    <2> HIDE DEF e
    <2>4. IsLeaderPiece(e)
      BY <1>1, <2>3 DEF IsLeaderPiece
    <2>5. Aligned(e)
      <3>1. e.prev + e.pos - 1 = c.prev
        BY <1>1, <2>3
      <3> QED
        BY <2>1, <2>3, <3>1 DEF Aligned
    <2> QED
      BY <2>2, <2>4, <2>5, SameLogs DEF HandleCheck, ReplicationInv
  <1> QED
    BY <1>2, <1>3

LEMMA InvHandleRead ==
    ASSUME TypeOK, ReplicationInv, NEW c \in calls, HandleRead(c) PROVE ReplicationInv'
  <1> DEFINE p == c.peer
             i == c.prev + c.pos
             same == i \in Held(log[p]) /\ log[p][i] = c.entries[c.pos]
             next == [c EXCEPT !.pos = c.pos + 1]
             cut == [c EXCEPT !.phase = "truncate"]
             add == [c EXCEPT !.phase = "append"]
  <1>1. /\ c \in Call /\ p \in Peers /\ c.prev \in Nat /\ c.pos \in Nat \ {0}
        /\ IsLeaderPiece(c) /\ Aligned(c) /\ LogMatching /\ c.phase = "loop"
        /\ c.pos <= Len(c.entries) /\ Len(c.entries) \in Nat
    BY CallFacts DEF ReplicationInv, HandleRead
  <1>2. /\ next.phase = "loop" /\ next.peer = p /\ next.prev = c.prev
        /\ next.prev_term = c.prev_term /\ next.entries = c.entries /\ next.pos = c.pos + 1
        /\ cut.phase = "truncate" /\ cut.peer = p /\ cut.prev = c.prev
        /\ cut.prev_term = c.prev_term /\ cut.entries = c.entries /\ cut.pos = c.pos
        /\ add.phase = "append" /\ add.peer = p /\ add.prev = c.prev
        /\ add.prev_term = c.prev_term /\ add.entries = c.entries /\ add.pos = c.pos
    BY <1>1 DEF Call
  <1>3. \E d \in {cut, add, next} : (d = next => same) /\ calls' = (calls \ {c}) \cup {d}
    <2>1. CASE same
      BY <2>1 DEF HandleRead, Replace
    <2>2. CASE ~same
      <3>1. next # cut /\ next # add
        BY <1>2
      <3> HIDE DEF next, cut, add
      <3>2. calls' = (calls \ {c}) \cup {cut} \/ calls' = (calls \ {c}) \cup {add}
        BY <2>2 DEF HandleRead, Replace, cut, add
      <3> QED
        BY <3>1, <3>2
    <2> QED
      BY <2>1, <2>2
  <1> HIDE DEF next, cut, add
  <1>4. IsLeaderPiece(next) /\ IsLeaderPiece(cut) /\ IsLeaderPiece(add)
    BY <1>1, <1>2 DEF IsLeaderPiece
  <1>5. Aligned(cut) /\ Aligned(add)
    BY <1>1, <1>2 DEF Aligned
  <1>6. same => Aligned(next)
    <2> SUFFICES ASSUME same PROVE Aligned(next)
      OBVIOUS
    <2>1. i \in Nat /\ Shared(p, i)
      BY <1>1 DEF IsLeaderPiece, Shared
    <2>2. Agrees(p, i)
      BY <1>1, <2>1, SharedEntryAgrees
    <2>3. next.prev + next.pos - 1 = i
      BY <1>1, <1>2
    <2> QED
      BY <1>2, <2>2, <2>3 DEF Aligned
  <1>7. \A d \in calls' : IsLeaderPiece(d) /\ Aligned(d)
    BY <1>3, <1>4, <1>5, <1>6 DEF ReplicationInv
  <1> QED
    BY <1>7, SameLogs DEF HandleRead, ReplicationInv

\* What a handler that truncates leaves of the log of its peer.
LEMMA TruncateForm ==
    ASSUME TypeOK, ReplicationInv, NEW c \in calls, HandleTruncate(c)
    PROVE  /\ c.peer \in Peers /\ \A n \in Nodes \ {c.peer} : log'[n] = log[n]
           /\ log'[c.peer] = TruncateSuffix(log[c.peer], c.prev + c.pos)
           /\ \A i \in Held(log'[c.peer]) : i <= LeaderLast /\ log'[c.peer][i] = log[Leader][i]
           /\ \E e \in Call : /\ calls' = (calls \ {c}) \cup {e} /\ e.phase = "append" /\ e.peer = c.peer
                              /\ e.prev = c.prev /\ e.prev_term = c.prev_term
                              /\ e.entries = c.entries /\ e.pos = c.pos
  <1> DEFINE p == c.peer
             k == c.prev + c.pos
             e == [c EXCEPT !.phase = "append"]
             l == log[p]
             t == TruncateSuffix(l, k)
  <1>1. /\ c \in Call /\ p \in Peers /\ p \in Nodes /\ k \in Nat \ {0} /\ l \in Logs
        /\ c.phase = "truncate" /\ Len(l) \in Nat
    BY CallFacts, LogFacts DEF HandleTruncate
  <1>2. Agrees(p, k - 1)
    <2>1. Agrees(p, c.prev + c.pos - 1)
      BY <1>1 DEF ReplicationInv, Aligned
    <2>2. c.prev + c.pos - 1 = k - 1
      BY CallFacts
    <2> HIDE DEF k
    <2> QED
      BY <2>1, <2>2
  <1>3. log' = [log EXCEPT ![p] = t] /\ calls' = (calls \ {c}) \cup {e}
    BY DEF HandleTruncate, Replace
  <1>4. \A i \in Held(l) : i \in 1..Len(l)
    BY <1>1, HeldFacts
  <1>5. \A i \in Held(t) : i \in Held(l) /\ i < k /\ t[i] = l[i]
    <2>1. /\ Held(l) = {} \/ k > Len(l) => t = l
          /\ \A i \in Held(t) : i \in Held(l) /\ i < k /\ t[i] = l[i]
      <3> HIDE DEF l, k
      <3> QED
        BY <1>1, TruncateFacts
    <2> QED
      BY <2>1
  <1> HIDE DEF t
  <1>6. log'[p] = t /\ \A n \in Nodes \ {p} : log'[n] = log[n]
    BY <1>1, <1>3 DEF TypeOK
  <1>7. ASSUME NEW i \in Held(t) PROVE i <= LeaderLast /\ t[i] = log[Leader][i]
    <2>1. i \in Held(l) /\ i < k /\ t[i] = l[i] /\ i \in 1..Len(l)
      BY <1>4, <1>5
    <2>2. i \in 1..(k - 1)
      BY <1>1, <2>1
    <2>3. Shared(p, i)
      BY <1>2, <2>1, <2>2 DEF Agrees
    <2> QED
      BY <2>1, <2>3 DEF Shared
  <1>8. e \in Call
    BY <1>1 DEF Call
  <1>9. /\ e.phase = "append" /\ e.peer = c.peer /\ e.prev = c.prev /\ e.prev_term = c.prev_term
        /\ e.entries = c.entries /\ e.pos = c.pos
    BY <1>1 DEF Call
  <1> HIDE DEF e
  <1> QED
    BY <1>1, <1>3, <1>6, <1>7, <1>8, <1>9 DEF t

LEMMA InvHandleTruncate ==
    ASSUME TypeOK, ReplicationInv, NEW c \in calls, HandleTruncate(c) PROVE ReplicationInv'
  <1> DEFINE p == c.peer
  <1>1. TypeOK'
    BY TypeHandleTruncate
  <1>2. /\ p \in Peers /\ \A n \in Nodes \ {p} : log'[n] = log[n]
        /\ \A i \in Held(log'[p]) : i <= LeaderLast /\ log'[p][i] = log[Leader][i]
    BY TruncateForm
  <1>3. PICK e \in Call : /\ calls' = (calls \ {c}) \cup {e} /\ e.phase = "append" /\ e.peer = c.peer
                          /\ e.prev = c.prev /\ e.prev_term = c.prev_term
                          /\ e.entries = c.entries /\ e.pos = c.pos
    BY TruncateForm
  <1>4. IsLeaderPiece(c) /\ c.phase = "truncate" /\ c.pos <= Len(c.entries)
    BY DEF ReplicationInv, HandleTruncate, Aligned
  <1>5. \A d \in calls' :
            /\ d.peer \in Peers /\ IsLeaderPiece(d) /\ (d.peer # p => Aligned(d))
            /\ d.phase \in {"truncate", "append"} => d.pos <= Len(d.entries)
    <2>1. IsLeaderPiece(e)
      BY <1>3, <1>4 DEF IsLeaderPiece
    <2> QED
      BY <1>2, <1>3, <1>4, <2>1, CallFacts DEF ReplicationInv, Aligned
  <1> QED
    BY <1>1, <1>2, <1>5, PeerBecomesPrefix DEF HandleTruncate

\* What a handler that appends leaves of it.
LEMMA AppendForm ==
    ASSUME TypeOK, ReplicationInv, NEW c \in calls, HandleAppend(c), CanAppend(log[c.peer], c.prev + c.pos)
    PROVE  /\ c.peer \in Peers /\ \A n \in Nodes \ {c.peer} : log'[n] = log[n]
           /\ Len(log'[c.peer]) = c.prev + c.pos /\ c.prev + c.pos \in Held(log'[c.peer])
           /\ \A i \in Held(log[c.peer]) : i \in Held(log'[c.peer]) /\ log'[c.peer][i] = log[c.peer][i]
           /\ \A i \in Held(log'[c.peer]) : i <= LeaderLast /\ log'[c.peer][i] = log[Leader][i]
           /\ \E e \in Call : /\ calls' = (calls \ {c}) \cup {e} /\ e.phase = "loop" /\ e.peer = c.peer
                              /\ e.prev = c.prev /\ e.prev_term = c.prev_term
                              /\ e.entries = c.entries /\ e.pos = c.pos + 1
  <1> DEFINE p == c.peer
             k == c.prev + c.pos
             v == c.entries[c.pos]
             e == [c EXCEPT !.phase = "loop", !.pos = c.pos + 1]
             l == log[p]
             t == Appended(l, k, v)
  <1>1. /\ c \in Call /\ p \in Peers /\ p \in Nodes /\ k \in Nat \ {0} /\ l \in Logs
        /\ c.phase = "append" /\ Len(l) \in Nat /\ c.pos \in Nat \ {0} /\ c.pos + 1 \in Nat \ {0}
    BY CallFacts, LogFacts DEF HandleAppend
  <1>2. Agrees(p, k - 1) /\ c.pos <= Len(c.entries) /\ IsLeaderPiece(c)
    <2>1. Agrees(p, c.prev + c.pos - 1) /\ c.pos <= Len(c.entries) /\ IsLeaderPiece(c)
      BY <1>1 DEF ReplicationInv, Aligned
    <2>2. c.prev + c.pos - 1 = k - 1
      BY CallFacts
    <2> HIDE DEF k
    <2> QED
      BY <2>1, <2>2
  <1>3. c.pos \in 1..Len(c.entries)
    BY <1>1, <1>2, CallFacts
  <1>4. v \in 1..LeaderTerm /\ k <= LeaderLast /\ v = log[Leader][k]
    BY <1>2, <1>3, CallFacts DEF IsLeaderPiece
  <1>5. log' = [log EXCEPT ![p] = t] /\ calls' = (calls \ {c}) \cup {e}
    BY DEF HandleAppend, Replace
  <1>6. \A i \in Held(l) : i \in 1..Len(l)
    BY <1>1, HeldFacts
  <1>7. /\ Len(t) = k /\ t[k] = v
        /\ \A i \in Held(t) : i = k \/ (i \in Held(l) /\ i < k /\ t[i] = l[i])
        /\ \A i \in Held(l) : i \in Held(t) /\ i < k /\ t[i] = l[i]
        /\ k \in Held(t)
    <2>1. CanAppend(l, k)
      OBVIOUS
    <2> HIDE DEF l, k, v
    <2> QED
      BY <1>1, <1>4, <2>1, AppendFacts
  <1> HIDE DEF t
  <1>8. log'[p] = t /\ \A n \in Nodes \ {p} : log'[n] = log[n]
    BY <1>1, <1>5 DEF TypeOK
  <1>9. ASSUME NEW i \in Held(t) PROVE i <= LeaderLast /\ t[i] = log[Leader][i]
    <2>1. CASE i = k
      BY <1>4, <1>7, <2>1
    <2>2. CASE i \in Held(l) /\ i < k /\ t[i] = l[i]
      <3>1. i \in 1..(k - 1)
        BY <1>1, <1>6, <2>2
      <3>2. Shared(p, i)
        BY <1>2, <2>2, <3>1 DEF Agrees
      <3> QED
        BY <2>2, <3>2 DEF Shared
    <2> QED
      BY <1>7, <2>1, <2>2
  <1>10. e \in Call
    BY <1>1, CallUpdates
  <1>11. /\ e.phase = "loop" /\ e.peer = c.peer /\ e.prev = c.prev /\ e.prev_term = c.prev_term
         /\ e.entries = c.entries /\ e.pos = c.pos + 1
    BY <1>1 DEF Call
  <1> HIDE DEF e
  <1> QED
    BY <1>1, <1>5, <1>7, <1>8, <1>9, <1>10, <1>11

LEMMA InvHandleAppend ==
    ASSUME TypeOK, ReplicationInv, NEW c \in calls, HandleAppend(c) PROVE ReplicationInv'
  <1> DEFINE p == c.peer
  <1>1. IsLeaderPiece(c) /\ c.phase = "append" /\ c.pos <= Len(c.entries)
    BY DEF ReplicationInv, HandleAppend, Aligned
  <1>2. TypeOK'
    BY <1>1, TypeHandleAppend
  <1>3. CASE ~CanAppend(log[p], c.prev + c.pos)
    <2>1. Answer(c, "error", 0) /\ UNCHANGED log
      BY <1>3 DEF HandleAppend
    <2> QED
      BY <2>1, AnswerKeeps, SameLogs DEF HandleAppend, ReplicationInv
  <1>4. CASE CanAppend(log[p], c.prev + c.pos)
    <2>1. /\ p \in Peers /\ \A n \in Nodes \ {p} : log'[n] = log[n]
          /\ \A i \in Held(log'[p]) : i <= LeaderLast /\ log'[p][i] = log[Leader][i]
      BY <1>4, AppendForm
    <2>2. PICK e \in Call : /\ calls' = (calls \ {c}) \cup {e} /\ e.phase = "loop" /\ e.peer = c.peer
                            /\ e.prev = c.prev /\ e.prev_term = c.prev_term
                            /\ e.entries = c.entries /\ e.pos = c.pos + 1
      BY <1>4, AppendForm
    <2>3. \A d \in calls' :
              /\ d.peer \in Peers /\ IsLeaderPiece(d) /\ (d.peer # p => Aligned(d))
              /\ d.phase \in {"truncate", "append"} => d.pos <= Len(d.entries)
      <3>1. IsLeaderPiece(e)
        BY <1>1, <2>2 DEF IsLeaderPiece
      <3> QED
        BY <2>1, <2>2, <3>1, CallFacts DEF ReplicationInv, Aligned
    <2> QED
      BY <1>2, <2>1, <2>3, PeerBecomesPrefix DEF HandleAppend
  <1> QED
    BY <1>3, <1>4

LEMMA InvHandleFinish ==
    ASSUME TypeOK, ReplicationInv, NEW c \in calls, HandleFinish(c) PROVE ReplicationInv'
  BY AnswerKeeps, SameLogs DEF HandleFinish, ReplicationInv

\* The callbacks drop a call, a timeout at most stops waiting for it.
LEMMA InvCallback ==
    ASSUME TypeOK, ReplicationInv, NEW c \in calls, Callback(c) \/ OnTimeout(c)
    PROVE  ReplicationInv'
  <1> DEFINE e == [c EXCEPT !.awaited = FALSE]
  <1>1. UNCHANGED <<log, snapshot, draft>> /\ calls' \subseteq (calls \cup {e})
    BY DEF Callback, OnSuccess, OnConflict, OnError, OnTimeout, Replace
  <1>2. c \in Call /\ IsLeaderPiece(c) /\ Aligned(c)
    BY CallFacts DEF ReplicationInv
  <1>3. /\ e.phase = c.phase /\ e.peer = c.peer /\ e.prev = c.prev /\ e.prev_term = c.prev_term
        /\ e.entries = c.entries /\ e.pos = c.pos
    BY <1>2 DEF Call
  <1> HIDE DEF e
  <1>4. IsLeaderPiece(e) /\ Aligned(e)
    BY <1>2, <1>3 DEF IsLeaderPiece, Aligned
  <1> QED
    BY <1>1, <1>4, SameLogs DEF ReplicationInv

LEMMA InvTakeSnapshot ==
    ASSUME TypeOK, ReplicationInv, NEW p \in Peers, TakeSnapshot(p) PROVE ReplicationInv'
  <1>1. PICK i \in (snapshot[p].index + 1)..MinOf(commit_index[p], Len(log[p])) :
            log[p][i] # 0 /\ snapshot' = [snapshot EXCEPT ![p] = [index |-> i, term |-> log[p][i]]]
    BY DEF TakeSnapshot
  <1>2. i \in Held(log[p])
    <2>1. snapshot[p].index \in Nat /\ commit_index[p] \in Nat /\ Len(log[p]) \in Nat
          /\ DOMAIN log[p] = 1..Len(log[p])
      BY PeerFacts, LogFacts, NodesFacts
    <2> QED
      BY <1>1, <2>1 DEF MinOf, Held
  <1>3. UNCHANGED <<log, draft, calls>>
    BY DEF TakeSnapshot
  <1>4. \A n, k : Agrees(n, k)' = Agrees(n, k)
    BY <1>3 DEF Agrees, Shared, LeaderLast
  <1>5. SnapshotsAligned'
    <2> SUFFICES ASSUME NEW q \in Peers
                 PROVE  \/ /\ snapshot'[q].index \in Held(log[q])
                           /\ log[q][snapshot'[q].index] = snapshot'[q].term
                        \/ Agrees(q, snapshot'[q].index)
      BY <1>3, <1>4 DEF SnapshotsAligned
    <2>1. CASE q = p
      BY <1>1, <1>2, <2>1 DEF TypeOK
    <2>2. CASE q # p
      BY <1>1, <2>2 DEF TypeOK, ReplicationInv, SnapshotsAligned
    <2> QED
      BY <2>1, <2>2
  <1> QED
    BY <1>3, <1>4, <1>5
       DEF ReplicationInv, LogMatching, OwnTermFromLeader, IsLeaderPiece, Aligned,
           LeaderLast, LeaderTermAt

(***************************************************************************)
(* The theorems.                                                           *)
(***************************************************************************)

LEMMA InductiveStep ==
    TypeOK /\ ReplicationInv /\ [Next]_vars => TypeOK' /\ ReplicationInv'
  <1> SUFFICES ASSUME TypeOK, ReplicationInv, [Next]_vars PROVE TypeOK' /\ ReplicationInv'
    OBVIOUS
  <1>1. CASE ProposeAppend
    BY <1>1, TypeProposeAppend, LeaderAppends
  <1>2. CASE ProposeFlush
    BY <1>2, TypeProposeFlush, SameLogs DEF ProposeFlush, ReplicationInv
  <1>3. CASE ReplicateSend
    BY <1>3, TypeReplicateSend, InvReplicateSend
  <1>4. ASSUME NEW p \in Peers, ReplicateRead(p) PROVE TypeOK' /\ ReplicationInv'
    BY <1>4, TypeReplicateRead, InvReplicateRead
  <1>5. ASSUME NEW p \in Peers, HeartbeatCommit(p) PROVE TypeOK' /\ ReplicationInv'
    BY <1>5, TypeHeartbeatCommit, SameLogs DEF HeartbeatCommit, ReplicationInv
  <1>6. ASSUME NEW p \in Peers, HeartbeatFails(p) PROVE TypeOK' /\ ReplicationInv'
    BY <1>6, TypeHeartbeatFails, SameLogs DEF HeartbeatFails, ReplicationInv
  <1>7. ASSUME NEW p \in Peers, TakeSnapshot(p) PROVE TypeOK' /\ ReplicationInv'
    BY <1>7, TypeTakeSnapshot, InvTakeSnapshot
  <1>8. ASSUME NEW c \in calls, Handle(c) PROVE TypeOK' /\ ReplicationInv'
    <2>1. CASE HandleCheck(c)
      BY <2>1, TypeHandleCheck, InvHandleCheck
    <2>2. CASE HandleRead(c)
      BY <2>2, TypeHandleRead, InvHandleRead
    <2>3. CASE HandleTruncate(c)
      BY <2>3, TypeHandleTruncate, InvHandleTruncate
    <2>4. CASE HandleAppend(c)
      <3>1. c.phase = "append" => c.pos <= Len(c.entries)
        BY DEF ReplicationInv, Aligned
      <3> QED
        BY <2>4, <3>1, TypeHandleAppend, InvHandleAppend
    <2>5. CASE HandleFinish(c)
      BY <2>5, TypeHandleFinish, InvHandleFinish
    <2> QED
      BY <1>8, <2>1, <2>2, <2>3, <2>4, <2>5 DEF Handle
  <1>9. ASSUME NEW c \in calls, Callback(c) \/ OnTimeout(c) PROVE TypeOK' /\ ReplicationInv'
    <2>1. TypeOK'
      BY <1>9, TypeOnSuccess, TypeOnConflict, TypeOnError, TypeOnTimeout DEF Callback
    <2> QED
      BY <1>9, <2>1, InvCallback
  <1>10. CASE UNCHANGED vars
    <2>1. TypeOK'
      BY <1>10 DEF TypeOK, vars
    <2> QED
      BY <1>10, <2>1, SameLogs DEF vars, ReplicationInv
  <1> QED
    BY <1>1, <1>2, <1>3, <1>4, <1>5, <1>6, <1>7, <1>8, <1>9, <1>10 DEF Next

\* ReplicationInv is inductive together with the types: requests are pieces of the
\* leader's log, handlers stand at the end of a common prefix, and snapshots vouch for
\* an entry only while it is there.
THEOREM ReplicationInvariant == Spec => [](TypeOK /\ ReplicationInv)
  <1>1. Init => TypeOK /\ ReplicationInv
    BY InitTypes, InvInit
  <1>2. TypeOK /\ ReplicationInv /\ [Next]_vars => (TypeOK /\ ReplicationInv)'
    BY InductiveStep
  <1> QED
    BY <1>1, <1>2, PTL DEF Spec

\* Every variable keeps its type in every state of the replication specification.
THEOREM ReplicationTypes == Spec => []TypeOK
  BY ReplicationInvariant, PTL

\* Log Matching holds whatever the number of peers, the window, the batch size, the
\* handlers that HandleAppendEntries runs concurrently, and the calls that are late or lost.
THEOREM LogsMatch == Spec => []LogMatching
  <1>1. ReplicationInv => LogMatching
    BY DEF ReplicationInv
  <1> QED
    BY <1>1, ReplicationInvariant, PTL

(***************************************************************************)
(* Acknowledgements.  They are not real in general (README, section 5);    *)
(* they are for every peer that is not misled.                             *)
(***************************************************************************)

Serving(c) == c.phase \in {"loop", "truncate", "append"}

\* The snapshot of p, where its log does not reach it, is not of the leader's log: a
\* request that ends there is refused.
SnapshotApart(p) ==
    \/ snapshot[p].index > LeaderLast /\ snapshot[p].term # LeaderTerm
    \/ snapshot[p].index <= LeaderLast /\ snapshot[p].term # log[Leader][snapshot[p].index]

PeerAck(p) ==
    /\ Held(log[p]) = 1..Len(log[p])
    /\ snapshot[p].index <= Len(log[p]) \/ SnapshotApart(p)
    /\ LeaderPrefix(p, progress[p].match)

CallAck(c) ==
    /\ Serving(c) => LeaderPrefix(c.peer, c.prev + c.pos - 1)
    /\ c.phase = "ok" => LeaderPrefix(c.peer, c.hint)

AckInv ==
    /\ \A p \in Peers \ misled : PeerAck(p)
    /\ \A c \in calls : c.peer \in misled \/ CallAck(c)

\* What the leader's callbacks other than that of a success leave alone.
LEMMA FailedKeepsMatch ==
    ASSUME TypeOK, NEW p \in Peers, NEW k \in Nat, Failed(p, k)
    PROVE  \A q \in Peers : progress'[q].match = progress[q].match
  <1> DEFINE g == progress[p]
             d == Decrement(g.in_flight)
             next == IF k > 0 THEN MinOf(g.next, k) ELSE g.next
             h == [g EXCEPT !.in_flight = d, !.next = next]
  <1>1. g \in Progress
    BY PeerFacts
  <1>2. progress' = [progress EXCEPT ![p] = h]
    BY DEF Failed, TypeOK
  <1> HIDE DEF next, d
  <1>3. h.match = g.match
    BY <1>1 DEF Progress
  <1> HIDE DEF h
  <1> QED
    BY <1>2, <1>3 DEF TypeOK

LEMMA MatchKept ==
    ASSUME TypeOK, \/ ReplicateSend
                   \/ \E p \in Peers : HeartbeatFails(p)
                   \/ \E c \in calls : OnConflict(c) \/ OnError(c) \/ OnTimeout(c)
    PROVE  \A q \in Peers : progress'[q].match = progress[q].match
  <1>1. CASE ReplicateSend
    <2> DEFINE p == draft.peer g == progress[p] f == g.in_flight + 1 n == g.next + Len(draft.entries)
               h == [g EXCEPT !.in_flight = f, !.next = n]
    <2>1. draft \in Draft
      BY <1>1 DEF TypeOK, ReplicateSend
    <2>2. p \in Peers /\ g \in Progress
      BY <2>1, PeerFacts DEF Draft
    <2>3. progress' = [progress EXCEPT ![p] = h]
      BY <1>1, <2>2 DEF ReplicateSend, TypeOK
    <2> HIDE DEF f, n
    <2>4. h.match = g.match
      BY <2>2 DEF Progress
    <2> HIDE DEF h
    <2> QED
      BY <2>2, <2>3, <2>4 DEF TypeOK
  <1>2. ASSUME NEW p \in Peers, HeartbeatFails(p) PROVE \A q \in Peers : progress'[q].match = progress[q].match
    BY <1>2, FailedKeepsMatch DEF HeartbeatFails
  <1>3. ASSUME NEW c \in calls, OnConflict(c) PROVE \A q \in Peers : progress'[q].match = progress[q].match
    <2> DEFINE g == progress[c.peer]
               h == IF c.hint > 0 /\ c.hint < c.prev + 1
                    THEN [next |-> c.hint, match |-> g.match, in_flight |-> 0, anchor |-> 0, failures |-> 0]
                    ELSE Rollback(g, c.prev + 1, c.hint)
    <2>1. progress' = [progress EXCEPT ![c.peer] = h]
      BY <1>3 DEF OnConflict
    <2>2. h.match = g.match
      BY DEF Rollback
    <2> HIDE DEF h
    <2> QED
      BY <2>1, <2>2, CallFacts DEF TypeOK
  <1>4. ASSUME NEW c \in calls, OnError(c) \/ OnTimeout(c) PROVE \A q \in Peers : progress'[q].match = progress[q].match
    <2>1. c.peer \in Peers /\ c.prev + 1 \in Nat /\ Failed(c.peer, c.prev + 1)
      BY <1>4, CallFacts DEF OnError, OnTimeout
    <2> QED
      BY <2>1, FailedKeepsMatch
  <1> QED
    BY <1>1, <1>2, <1>3, <1>4

\* An answer, as the rest of the calls sees it.
LEMMA AnswerForm ==
    ASSUME TypeOK, NEW c \in calls, NEW phase \in {"ok", "conflict", "error"}, NEW hint \in Nat, Answer(c, phase, hint)
    PROVE  \/ calls' = calls \ {c}
           \/ \E e \in Call : /\ calls' = (calls \ {c}) \cup {e} /\ e.phase = phase /\ e.peer = c.peer /\ e.hint = hint
                              /\ e.prev = c.prev /\ e.entries = c.entries
  <1> DEFINE e == [c EXCEPT !.phase = phase, !.hint = hint, !.pos = 1]
  <1>1. c \in Call
    BY CallFacts
  <1>2. e \in Call
    <2>1. [c EXCEPT !.phase = phase] \in Call
      BY <1>1 DEF Call
    <2>2. ASSUME NEW d \in Call PROVE [d EXCEPT !.hint = hint] \in Call
      BY DEF Call
    <2>3. ASSUME NEW d \in Call PROVE [d EXCEPT !.pos = 1] \in Call
      BY DEF Call
    <2>4. e = [[[c EXCEPT !.phase = phase] EXCEPT !.hint = hint] EXCEPT !.pos = 1]
      OBVIOUS
    <2> QED
      BY <2>1, <2>2, <2>3, <2>4
  <1>3. e.phase = phase /\ e.peer = c.peer /\ e.hint = hint /\ e.prev = c.prev /\ e.entries = c.entries
    BY <1>1 DEF Call
  <1>4. calls' = calls \ {c} \/ calls' = (calls \ {c}) \cup {e}
    BY DEF Answer, Replace
  <1> HIDE DEF e
  <1> QED
    BY <1>2, <1>3, <1>4

\* What the steps that change a log do to it.
LEMMA LeaderGrows ==
    ASSUME TypeOK, ProposeAppend
    PROVE  /\ LeaderLast \in Nat /\ LeaderLast' = LeaderLast + 1 /\ \A p \in Peers : log'[p] = log[p]
           /\ \A i \in 1..LeaderLast : log'[Leader][i] = log[Leader][i]
           /\ \A p \in Peers : \A i : Shared(p, i) => Shared(p, i)'
  <1>1. /\ LeaderLast \in Nat /\ LeaderLast' = LeaderLast + 1
        /\ \A i \in 1..LeaderLast : log'[Leader][i] = log[Leader][i]
    <2>1. log'[Leader] = Append(log[Leader], LeaderTerm) /\ log[Leader] \in Entries
      BY NodesFacts DEF ProposeAppend, TypeOK
    <2>2. LeaderTerm \in 1..LeaderTerm
      BY ReplicationAssumption
    <2> QED
      BY <2>1, <2>2, AppendProperties, LeaderFacts DEF LeaderLast, Entries
  <1>2. \A p \in Peers : log'[p] = log[p]
    BY ReplicationAssumption DEF ProposeAppend, TypeOK
  <1>3. ASSUME NEW p \in Peers, NEW i, Shared(p, i) PROVE Shared(p, i)'
    <2>1. i \in 1..LeaderLast /\ i \in Held(log[p]) /\ log[p][i] = log[Leader][i]
      BY <1>1, <1>3, HeldFacts, NodesFacts DEF Shared
    <2> QED
      BY <1>1, <1>2, <2>1 DEF Shared
  <1> QED
    BY <1>1, <1>2, <1>3

LEMMA CheckForm ==
    ASSUME TypeOK, NEW c \in calls, HandleCheck(c)
    PROVE  \/ calls' = calls \ {c}
           \/ \E e \in Call :
                /\ calls' = (calls \ {c}) \cup {e} /\ e.peer = c.peer /\ e.prev = c.prev /\ e.entries = c.entries
                /\ \/ e.phase = "conflict"
                   \/ /\ e.phase = "loop" /\ e.pos = 1
                      /\ Conflict(c.peer, c.prev, c.prev_term) = 0
  <1> DEFINE conflict == Conflict(c.peer, c.prev, c.prev_term)
             e == [c EXCEPT !.phase = "loop", !.pos = 1]
  <1>1. c \in Call /\ conflict \in Nat /\ 1 \in Nat \ {0}
    BY ConflictFacts, CallFacts
  <1>2. CASE conflict = 0
    <2>1. e \in Call /\ e.phase = "loop" /\ e.peer = c.peer /\ e.prev = c.prev /\ e.entries = c.entries /\ e.pos = 1
      <3>1. e \in Call
        BY <1>1, CallUpdates
      <3> QED
        BY <1>1, <3>1 DEF Call
    <2>2. calls' = (calls \ {c}) \cup {e}
      BY <1>2 DEF HandleCheck, Replace
    <2> HIDE DEF e
    <2> QED
      BY <1>2, <2>1, <2>2
  <1>3. CASE conflict # 0
    <2>1. Answer(c, "conflict", conflict)
      BY <1>3 DEF HandleCheck
    <2> HIDE DEF conflict
    <2> QED
      BY <1>1, <2>1, AnswerForm
  <1> QED
    BY <1>2, <1>3

LEMMA FinishForm ==
    ASSUME TypeOK, NEW c \in calls, HandleFinish(c)
    PROVE  \/ calls' = calls \ {c}
           \/ \E e \in Call : /\ calls' = (calls \ {c}) \cup {e} /\ e.phase = "ok" /\ e.peer = c.peer
                              /\ e.hint = LastIndex(c.peer) /\ e.prev = c.prev /\ e.entries = c.entries
  <1>1. Answer(c, "ok", LastIndex(c.peer)) /\ LastIndex(c.peer) \in Nat
    BY CallFacts, PeerFacts DEF HandleFinish, MatchIndex
  <1> QED
    BY <1>1, AnswerForm

LEMMA TimeoutForm ==
    ASSUME TypeOK, NEW c \in calls, OnTimeout(c)
    PROVE  \/ calls' = calls \ {c} /\ ~Serving(c)
           \/ \E e \in Call : /\ calls' = (calls \ {c}) \cup {e} /\ e.phase = c.phase /\ e.phase # "ok" /\ e.peer = c.peer
                              /\ e.prev = c.prev /\ e.entries = c.entries /\ e.pos = c.pos
  <1> DEFINE e == [c EXCEPT !.awaited = FALSE]
  <1>1. c \in Call
    BY CallFacts
  <1>2. e \in Call /\ e.phase = c.phase /\ e.peer = c.peer /\ e.prev = c.prev /\ e.entries = c.entries /\ e.pos = c.pos
    BY <1>1 DEF Call
  <1>3. CASE c.phase \in {"sent", "ok", "conflict", "error"} /\ calls' = calls \ {c}
    BY <1>3 DEF Serving
  <1>4. CASE c.phase \in {"sent", "loop", "truncate", "append"} /\ calls' = (calls \ {c}) \cup {e}
    <2> HIDE DEF e
    <2> QED
      BY <1>2, <1>4
  <1> QED
    BY <1>3, <1>4 DEF OnTimeout, Replace

\* The commit index that a peer stores is within what it has.
LEMMA RaiseForm ==
    ASSUME TypeOK, NEW p \in Peers, NEW k \in Nat, RaiseCommit(p, k)
    PROVE  /\ commit_index'[Leader] = commit_index[Leader]
           /\ \A q \in Peers : \/ commit_index'[q] = commit_index[q]
                               \/ q = p /\ commit_index'[q] <= LastIndex(q) /\ commit_index'[q] <= k
  <1>1. commit_index[p] \in Nat /\ LastIndex(p) \in Nat /\ Leader # p
    BY PeerFacts, LogFacts, NodesFacts, ReplicationAssumption
  <1> DEFINE m == MaxOf(commit_index[p], MinOf(k, LastIndex(p)))
  <1>2. commit_index' = [commit_index EXCEPT ![p] = m]
    BY DEF RaiseCommit
  <1>3. m = commit_index[p] \/ (m <= LastIndex(p) /\ m <= k)
    BY <1>1 DEF MaxOf, MinOf
  <1> HIDE DEF m
  <1> QED
    BY <1>1, <1>2, <1>3, NodesFacts DEF TypeOK

LEMMA SuccessForm ==
    ASSUME TypeOK, NEW c \in calls, OnSuccess(c)
    PROVE  /\ c.phase = "ok" /\ calls' = calls \ {c} /\ UNCHANGED <<log, snapshot, flushed_index, draft>>
           /\ \A q \in Peers : commit_index'[q] = commit_index[q]
           /\ \A q \in Peers : \/ progress'[q].match = progress[q].match
                               \/ q = c.peer /\ progress'[q].match = c.hint
  <1> DEFINE g == progress[c.peer]
             m == MaxOf(g.match, c.hint)
             h == [next |-> MaxOf(g.next, c.hint + 1), match |-> m,
                   in_flight |-> Decrement(g.in_flight), anchor |-> 0, failures |-> 0]
  <1>1. progress' = [progress EXCEPT ![c.peer] = h] /\ h.match = m
    BY DEF OnSuccess
  <1>2. m = g.match \/ m = c.hint
    BY DEF MaxOf
  <1>3. \A q \in Peers : commit_index'[q] = commit_index[q]
    BY NodesFacts, ReplicationAssumption DEF OnSuccess, TypeOK
  <1> HIDE DEF h, m
  <1>4. \A q \in Peers : \/ progress'[q].match = progress[q].match
                         \/ q = c.peer /\ progress'[q].match = c.hint
    BY <1>1, <1>2 DEF TypeOK
  <1> QED
    BY <1>3, <1>4 DEF OnSuccess

LEMMA SendForm ==
    ASSUME TypeOK, ReplicateSend
    PROVE  \E e \in Call : /\ calls' = calls \cup {e} /\ e.phase = "sent"
                           /\ e.prev = draft.prev /\ e.entries = draft.entries
  <1>1. draft \in Draft
    BY DEF TypeOK, ReplicateSend
  <1>2. PICK id \in 1..MaxCalls : calls' = calls \cup
            {[id |-> id, peer |-> draft.peer, prev |-> draft.prev, prev_term |-> draft.prev_term,
              entries |-> draft.entries, commit |-> draft.commit, phase |-> "sent",
              pos |-> 1, hint |-> 0, awaited |-> TRUE]}
    BY DEF ReplicateSend
  <1> DEFINE e == [id |-> id, peer |-> draft.peer, prev |-> draft.prev, prev_term |-> draft.prev_term,
                   entries |-> draft.entries, commit |-> draft.commit, phase |-> "sent",
                   pos |-> 1, hint |-> 0, awaited |-> TRUE]
  <1>3. e \in Call
    BY <1>1 DEF Draft, Call
  <1>4. e.phase = "sent" /\ e.prev = draft.prev /\ e.entries = draft.entries
    OBVIOUS
  <1> HIDE DEF e
  <1> QED
    BY <1>2, <1>3, <1>4 DEF e

LEMMA ReadForm ==
    ASSUME TypeOK, ReplicationInv, NEW c \in calls, HandleRead(c)
    PROVE  \E e \in Call :
             /\ calls' = (calls \ {c}) \cup {e} /\ e.peer = c.peer /\ e.prev = c.prev /\ e.entries = c.entries
             /\ \/ e.phase = "loop" /\ e.pos = c.pos + 1 /\ Shared(c.peer, c.prev + c.pos)
                \/ /\ e.phase = "truncate" /\ e.pos = c.pos /\ c.prev + c.pos \in Held(log[c.peer])
                   /\ ~Shared(c.peer, c.prev + c.pos)
                \/ e.phase = "append" /\ e.pos = c.pos
  <1> DEFINE p == c.peer
             i == c.prev + c.pos
             next == [c EXCEPT !.pos = c.pos + 1]
             cut == [c EXCEPT !.phase = "truncate"]
             add == [c EXCEPT !.phase = "append"]
  <1>1. /\ c \in Call /\ p \in Peers /\ c.prev \in Nat /\ c.pos \in Nat \ {0} /\ c.pos + 1 \in Nat \ {0}
        /\ IsLeaderPiece(c) /\ c.phase = "loop" /\ c.pos <= Len(c.entries) /\ Len(c.entries) \in Nat
    BY CallFacts DEF ReplicationInv, HandleRead
  <1>2. next \in Call /\ cut \in Call /\ add \in Call
    BY <1>1, CallUpdates
  <1>3. /\ next.phase = "loop" /\ next.peer = p /\ next.prev = c.prev /\ next.entries = c.entries /\ next.pos = c.pos + 1
        /\ cut.phase = "truncate" /\ cut.peer = p /\ cut.prev = c.prev /\ cut.entries = c.entries /\ cut.pos = c.pos
        /\ add.phase = "append" /\ add.peer = p /\ add.prev = c.prev /\ add.entries = c.entries /\ add.pos = c.pos
    BY <1>1 DEF Call
  <1>4. i <= LeaderLast /\ c.entries[c.pos] = log[Leader][i]
    BY <1>1 DEF IsLeaderPiece
  <1>5. CASE i \in Held(log[p]) /\ log[p][i] = c.entries[c.pos]
    <2>1. calls' = (calls \ {c}) \cup {next}
      BY <1>5 DEF HandleRead, Replace
    <2>2. Shared(p, i)
      BY <1>4, <1>5 DEF Shared
    <2> HIDE DEF next
    <2> QED
      BY <1>2, <1>3, <2>1, <2>2
  <1>6. CASE i \in Held(log[p]) /\ log[p][i] # c.entries[c.pos]
    <2>1. calls' = (calls \ {c}) \cup {cut}
      BY <1>6 DEF HandleRead, Replace
    <2>2. ~Shared(p, i)
      BY <1>4, <1>6 DEF Shared
    <2> HIDE DEF cut
    <2> QED
      BY <1>2, <1>3, <1>6, <2>1, <2>2
  <1>7. CASE i \notin Held(log[p])
    <2>1. calls' = (calls \ {c}) \cup {add}
      BY <1>7 DEF HandleRead, Replace
    <2> HIDE DEF add
    <2> QED
      BY <1>2, <1>3, <2>1
  <1> QED
    BY <1>5, <1>6, <1>7

\* What a request must fit to pass the consistency check.
LEMMA CheckPassed ==
    ASSUME TypeOK, NEW p \in Peers, NEW prev \in Nat, NEW t, Conflict(p, prev, t) = 0
    PROVE  /\ prev <= LastIndex(p) /\ prev >= snapshot[p].index
           /\ prev = 0 \/ TermAt(p, prev) = t
  <1>1. /\ snapshot[p].index \in Nat /\ LastIndex(p) \in Nat /\ Len(log[p]) \in Nat
        /\ LastIndex(p) = Len(log[p]) \/ LastIndex(p) = snapshot[p].index
    BY PeerFacts, LogFacts, NodesFacts
  <1>2. ASSUME prev <= LastIndex(p), prev > snapshot[p].index PROVE RunStart(p, prev) > 0
    <2>1. prev \in (snapshot[p].index + 1)..Len(log[p])
      BY <1>1, <1>2
    <2> QED
      BY <1>1, <2>1, RunStartFacts
  <1> QED
    BY <1>1, <1>2 DEF Conflict

\* The steps that change a log.
LEMMA LogStep ==
    ASSUME TypeOK, [Next]_vars
    PROVE  \/ log' = log \/ ProposeAppend \/ \E c \in calls : HandleTruncate(c)
           \/ \E c \in calls : HandleAppend(c) /\ CanAppend(log[c.peer], c.prev + c.pos)
  <1>1. ASSUME NEW c \in calls, HandleCheck(c) \/ HandleRead(c) \/ HandleFinish(c) \/ OnTimeout(c) PROVE log' = log
    BY <1>1 DEF HandleCheck, HandleRead, HandleFinish, OnTimeout
  <1>2. ASSUME NEW c \in calls, OnSuccess(c) \/ OnConflict(c) \/ OnError(c) PROVE log' = log
    BY <1>2 DEF OnSuccess, OnConflict, OnError
  <1>3. ASSUME NEW p \in Peers, ReplicateRead(p) \/ HeartbeatCommit(p) \/ HeartbeatFails(p) \/ TakeSnapshot(p)
        PROVE  log' = log
    BY <1>3 DEF ReplicateRead, HeartbeatCommit, HeartbeatFails, TakeSnapshot
  <1>4. CASE ProposeFlush \/ ReplicateSend \/ UNCHANGED vars
    BY <1>4 DEF ProposeFlush, ReplicateSend, vars
  <1>5. ASSUME NEW c \in calls, HandleAppend(c) PROVE log' = log \/ CanAppend(log[c.peer], c.prev + c.pos)
    BY <1>5 DEF HandleAppend
  <1> QED
    BY <1>1, <1>2, <1>3, <1>4, <1>5 DEF Next, Handle, Callback

LEMMA MisledGrows ==
    ASSUME [Next]_vars
    PROVE  misled \subseteq misled'
  <1>1. ASSUME NEW c \in calls, Handle(c) PROVE misled \subseteq misled'
    BY <1>1 DEF Handle, HandleCheck, HandleRead, HandleTruncate, HandleAppend, HandleFinish
  <1>2. ASSUME NEW c \in calls, Callback(c) \/ OnTimeout(c) PROVE misled' = misled
    BY <1>2 DEF Callback, OnSuccess, OnConflict, OnError, OnTimeout
  <1>3. ASSUME NEW p \in Peers, ReplicateRead(p) \/ HeartbeatCommit(p) \/ HeartbeatFails(p) \/ TakeSnapshot(p)
        PROVE  misled' = misled
    BY <1>3 DEF ReplicateRead, HeartbeatCommit, HeartbeatFails, TakeSnapshot
  <1>4. CASE ProposeAppend \/ ProposeFlush \/ ReplicateSend \/ UNCHANGED vars
    BY <1>4 DEF ProposeAppend, ProposeFlush, ReplicateSend, vars
  <1> QED
    BY <1>1, <1>2, <1>3, <1>4 DEF Next

LEMMA AckInit == Init => AckInv
  <1> SUFFICES ASSUME Init PROVE AckInv
    OBVIOUS
  <1>1. TypeOK /\ calls = {}
    BY InitTypes DEF Init
  <1>2. ASSUME NEW p \in Peers \ misled PROVE PeerAck(p)
    <2>1. Held(log[p]) = 1..Len(log[p])
      BY <1>1, LogFacts, NodesFacts DEF Init
    <2>2. snapshot[p].index = 0 /\ progress[p].match = 0
      BY DEF Init, FreshProgress
    <2>3. Len(log[p]) \in Nat
      BY <1>1, LogFacts, NodesFacts
    <2> QED
      BY <2>1, <2>2, <2>3 DEF PeerAck, LeaderPrefix
  <1> QED
    BY <1>1, <1>2 DEF AckInv

\* What a peer shares with the leader it keeps, as long as it is not misled: a handler that
\* cuts off an entry of the leader's misleads it.
LEMMA TruncateKeeps ==
    ASSUME TypeOK, ReplicationInv, AckInv, NEW c \in calls, HandleTruncate(c), c.peer \notin misled'
    PROVE  /\ \A i : Shared(c.peer, i) => i \in Held(log'[c.peer]) /\ log'[c.peer][i] = log[c.peer][i]
           /\ Held(log'[c.peer]) = 1..Len(log'[c.peer])
  <1> DEFINE p == c.peer
             k == c.prev + c.pos
             l == log[p]
             t == TruncateSuffix(l, k)
  <1>1. /\ p \in Peers /\ p \in Nodes /\ k \in Nat \ {0} /\ l \in Logs /\ log'[p] = t /\ Len(l) \in Nat
        /\ DOMAIN l = 1..Len(l) /\ c.pos \in Nat \ {0} /\ Len(c.entries) \in Nat /\ c.prev \in Nat
    BY TruncateForm, CallFacts, LogFacts
  <1>2. p \notin misled /\ ~(k \in Held(l) /\ l[k] = c.entries[c.pos])
    BY DEF HandleTruncate
  <1>3. Held(l) = 1..Len(l)
    BY <1>1, <1>2 DEF AckInv, PeerAck
  <1>4. k <= LeaderLast /\ c.entries[c.pos] = log[Leader][k]
    <2>1. IsLeaderPiece(c) /\ c.pos <= Len(c.entries)
      BY DEF ReplicationInv, HandleTruncate, Aligned
    <2>2. c.pos \in 1..Len(c.entries)
      BY <1>1, <2>1
    <2> QED
      BY <2>1, <2>2 DEF IsLeaderPiece
  <1>5. /\ t \in Logs /\ Len(t) \in Nat /\ Len(t) <= Len(l)
        /\ \A i \in 1..Len(t) : t[i] = l[i]
        /\ Held(l) = {} \/ k > Len(l) => t = l
        /\ ~(Held(l) = {} \/ k > Len(l)) => Len(t) = k - 1
    <2> HIDE DEF l, k
    <2> QED
      BY <1>1, TruncateFacts
  <1>6. DOMAIN t = 1..Len(t)
    BY <1>5, LenProperties DEF Logs
  <1> HIDE DEF t, l, k
  <1>7. ASSUME NEW i \in 1..Len(t) PROVE t[i] # 0
    <2>1. i \in Held(l)
      BY <1>1, <1>3, <1>5
    <2> QED
      BY <1>5, <2>1 DEF Held
  <1>8. Held(t) = 1..Len(t)
    BY <1>6, <1>7 DEF Held
  <1>9. ASSUME NEW i, Shared(p, i) PROVE i \in Held(t) /\ t[i] = l[i]
    <2>1. i \in 1..Len(l)
      BY <1>3, <1>9 DEF Shared, l
    <2>2. CASE t = l
      BY <1>3, <2>1, <2>2
    <2>3. CASE Len(t) = k - 1 /\ k <= Len(l)
      <3>1. k \in Held(l)
        BY <1>1, <1>3, <2>3
      <3>2. ~Shared(p, k)
        BY <1>2, <1>4, <3>1 DEF Shared, l
      <3>3. Agrees(p, i)
        BY <1>1, <1>9, <2>1, SharedEntryAgrees DEF ReplicationInv
      <3>4. ~(k \in 1..i)
        BY <3>1, <3>2, <3>3 DEF Agrees, l
      <3>5. i \in 1..Len(t)
        BY <1>1, <1>5, <2>1, <2>3, <3>4
      <3> QED
        BY <1>5, <1>8, <3>5
    <2> QED
      BY <1>1, <1>5, <2>1, <2>2, <2>3, <1>3
  <1> QED
    BY <1>1, <1>8, <1>9 DEF l

\* An append extends a log without holes by its next entry.
LEMMA AppendKeeps ==
    ASSUME TypeOK, ReplicationInv, AckInv, NEW c \in calls, HandleAppend(c), CanAppend(log[c.peer], c.prev + c.pos),
           c.peer \notin misled
    PROVE  /\ c.prev + c.pos = Len(log[c.peer]) + 1
           /\ Held(log'[c.peer]) = 1..Len(log'[c.peer]) /\ Len(log'[c.peer]) = Len(log[c.peer]) + 1
           /\ Len(log[c.peer]) \in Nat
  <1> DEFINE p == c.peer
             k == c.prev + c.pos
             l == log[p]
  <1>1. /\ p \in Peers /\ p \in Nodes /\ k \in Nat \ {0} /\ l \in Logs /\ Len(l) \in Nat
        /\ c.pos \in Nat \ {0} /\ c.prev \in Nat
    BY CallFacts, LogFacts
  <1>2. Held(l) = 1..Len(l) /\ LeaderPrefix(p, c.prev + c.pos - 1)
    <2>1. PeerAck(p) /\ CallAck(c) /\ Serving(c)
      BY <1>1 DEF AckInv, Serving, HandleAppend
    <2> QED
      BY <2>1 DEF PeerAck, CallAck
  <1>3. c.prev + c.pos - 1 = k - 1
    BY <1>1
  <1>4. k = Len(l) + 1
    <2>1. CASE Held(l) = {}
      <3>1. Len(l) = 0
        <4>1. ~(1 \in 1..Len(l))
          BY <1>2, <2>1
        <4> HIDE DEF l
        <4> QED
          BY <1>1, <4>1
      <3>2. ~(1 \in 1..(k - 1))
        BY <1>2, <1>3, <2>1 DEF LeaderPrefix, Shared
      <3> QED
        BY <1>1, <3>1, <3>2
    <2>2. CASE Held(l) # {}
      BY <2>2 DEF CanAppend
    <2> QED
      BY <2>1, <2>2
  <1>5. /\ Len(log'[p]) = k /\ k \in Held(log'[p])
        /\ \A i \in Held(l) : i \in Held(log'[p])
    BY AppendForm
  <1>6. Held(log'[p]) \subseteq 1..Len(log'[p])
    <2>1. TypeOK'
      BY TypeHandleAppend DEF ReplicationInv, Aligned
    <2>2. DOMAIN log'[p] = 1..Len(log'[p])
      BY <1>1, <2>1, LenProperties DEF TypeOK, Logs
    <2> QED
      BY <2>2 DEF Held
  <1>7. \A i \in 1..k : i = k \/ i \in Held(l)
    BY <1>1, <1>2, <1>4
  <1>8. Held(log'[p]) = 1..k
    BY <1>5, <1>6, <1>7
  <1> QED
    BY <1>1, <1>4, <1>5, <1>8

LEMMA SharedStep ==
    ASSUME TypeOK, ReplicationInv, AckInv, [Next]_vars, NEW p \in Peers, p \notin misled', NEW i, Shared(p, i)
    PROVE  Shared(p, i)'
  <1>0. p \notin misled /\ p # Leader /\ p \in Nodes /\ Leader \in Nodes
    BY MisledGrows, ReplicationAssumption, NodesFacts
  <1>1. CASE log' = log
    BY <1>1 DEF Shared, LeaderLast
  <1>2. CASE ProposeAppend
    BY <1>2, LeaderGrows
  <1>3. ASSUME NEW c \in calls, HandleTruncate(c) PROVE Shared(p, i)'
    <2>1. c.peer \in Peers /\ \A n \in Nodes \ {c.peer} : log'[n] = log[n]
      BY <1>3, TruncateForm
    <2>2. log'[Leader] = log[Leader]
      BY <1>0, <2>1, ReplicationAssumption
    <2>3. CASE p = c.peer
      BY <1>3, <2>2, <2>3, TruncateKeeps DEF Shared, LeaderLast
    <2>4. CASE p # c.peer
      BY <1>0, <2>1, <2>2, <2>4 DEF Shared, LeaderLast
    <2> QED
      BY <2>3, <2>4
  <1>4. ASSUME NEW c \in calls, HandleAppend(c), CanAppend(log[c.peer], c.prev + c.pos) PROVE Shared(p, i)'
    <2>1. /\ c.peer \in Peers /\ \A n \in Nodes \ {c.peer} : log'[n] = log[n]
          /\ \A j \in Held(log[c.peer]) : j \in Held(log'[c.peer]) /\ log'[c.peer][j] = log[c.peer][j]
      BY <1>4, AppendForm
    <2>2. log'[Leader] = log[Leader]
      BY <1>0, <2>1, ReplicationAssumption
    <2>3. CASE p = c.peer
      BY <2>1, <2>2, <2>3 DEF Shared, LeaderLast
    <2>4. CASE p # c.peer
      BY <1>0, <2>1, <2>2, <2>4 DEF Shared, LeaderLast
    <2> QED
      BY <2>3, <2>4
  <1> QED
    BY <1>1, <1>2, <1>3, <1>4, LogStep

LEMMA PrefixStep ==
    ASSUME TypeOK, ReplicationInv, AckInv, [Next]_vars, NEW p \in Peers, p \notin misled', NEW k, LeaderPrefix(p, k)
    PROVE  LeaderPrefix(p, k)'
  BY SharedStep DEF LeaderPrefix

LEMMA HoleStep ==
    ASSUME TypeOK, ReplicationInv, AckInv, [Next]_vars, NEW p \in Peers, p \notin misled'
    PROVE  Held(log'[p]) = 1..Len(log'[p])
  <1>0. p \notin misled /\ p \in Nodes /\ Held(log[p]) = 1..Len(log[p])
    BY MisledGrows, NodesFacts DEF AckInv, PeerAck
  <1>1. CASE log' = log
    BY <1>0, <1>1
  <1>2. CASE ProposeAppend
    BY <1>0, <1>2, LeaderGrows
  <1>3. ASSUME NEW c \in calls, HandleTruncate(c) PROVE Held(log'[p]) = 1..Len(log'[p])
    BY <1>0, <1>3, TruncateForm, TruncateKeeps
  <1>4. ASSUME NEW c \in calls, HandleAppend(c), CanAppend(log[c.peer], c.prev + c.pos)
        PROVE  Held(log'[p]) = 1..Len(log'[p])
    BY <1>0, <1>4, AppendForm, AppendKeeps
  <1> QED
    BY <1>1, <1>2, <1>3, <1>4, LogStep

LEMMA SnapshotStep ==
    ASSUME TypeOK, ReplicationInv, AckInv, [Next]_vars, NEW p \in Peers, p \notin misled'
    PROVE  (snapshot[p].index <= Len(log[p]) \/ SnapshotApart(p))'
  <1>0. /\ p \notin misled /\ p # Leader /\ p \in Nodes /\ Leader \in Nodes
        /\ Held(log[p]) = 1..Len(log[p]) /\ (snapshot[p].index <= Len(log[p]) \/ SnapshotApart(p))
        /\ snapshot[p].index \in Nat /\ Len(log[p]) \in Nat /\ LeaderLast \in Nat
    BY MisledGrows, ReplicationAssumption, NodesFacts, PeerFacts, LogFacts, LeaderFacts DEF AckInv, PeerAck
  <1>1. snapshot' = snapshot \/ \E q \in Peers : TakeSnapshot(q)
    <2>1. ASSUME NEW c \in calls, Handle(c) PROVE snapshot' = snapshot
      BY <2>1 DEF Handle, HandleCheck, HandleRead, HandleTruncate, HandleAppend, HandleFinish
    <2>2. ASSUME NEW c \in calls, Callback(c) \/ OnTimeout(c) PROVE snapshot' = snapshot
      BY <2>2 DEF Callback, OnSuccess, OnConflict, OnError, OnTimeout
    <2>3. ASSUME NEW q \in Peers, ReplicateRead(q) \/ HeartbeatCommit(q) \/ HeartbeatFails(q) PROVE snapshot' = snapshot
      BY <2>3 DEF ReplicateRead, HeartbeatCommit, HeartbeatFails
    <2>4. CASE ProposeAppend \/ ProposeFlush \/ ReplicateSend \/ UNCHANGED vars
      BY <2>4 DEF ProposeAppend, ProposeFlush, ReplicateSend, vars
    <2> QED
      BY <2>1, <2>2, <2>3, <2>4 DEF Next
  <1>2. ASSUME NEW q \in Peers, TakeSnapshot(q)
        PROVE  (snapshot[p].index <= Len(log[p]) \/ SnapshotApart(p))'
    <2>1. log' = log
      BY <1>2 DEF TakeSnapshot
    <2>2. PICK i \in (snapshot[q].index + 1)..MinOf(commit_index[q], Len(log[q])) :
              snapshot' = [snapshot EXCEPT ![q] = [index |-> i, term |-> log[q][i]]]
      BY <1>2 DEF TakeSnapshot
    <2>3. i <= Len(log[q])
      BY LogFacts, PeerFacts, NodesFacts DEF MinOf
    <2>4. CASE q = p
      <3>1. snapshot'[p].index = i
        BY <2>2, <2>4 DEF TypeOK
      <3> QED
        BY <2>1, <2>3, <2>4, <3>1
    <2>5. CASE q # p
      <3>1. snapshot'[p] = snapshot[p]
        BY <2>2, <2>5 DEF TypeOK
      <3> QED
        BY <1>0, <2>1, <3>1 DEF SnapshotApart, LeaderLast
    <2> QED
      BY <2>4, <2>5
  <1>3. ASSUME snapshot' = snapshot, log'[Leader] = log[Leader], Len(log'[p]) \in Nat, Len(log'[p]) >= Len(log[p])
        PROVE  (snapshot[p].index <= Len(log[p]) \/ SnapshotApart(p))'
    <2>1. CASE snapshot[p].index <= Len(log[p])
      <3>1. snapshot'[p].index <= Len(log'[p])
        BY <1>0, <1>3, <2>1
      <3> QED
        BY <3>1
    <2>2. CASE SnapshotApart(p)
      BY <1>3, <2>2 DEF SnapshotApart, LeaderLast
    <2> QED
      BY <1>0, <2>1, <2>2
  <1>4. ASSUME snapshot' = snapshot, ProposeAppend
        PROVE  (snapshot[p].index <= Len(log[p]) \/ SnapshotApart(p))'
    <2>1. /\ LeaderLast' = LeaderLast + 1 /\ log'[p] = log[p]
          /\ \A i \in 1..LeaderLast : log'[Leader][i] = log[Leader][i]
      BY <1>4, LeaderGrows
    <2>2. log'[Leader][LeaderLast + 1] = LeaderTerm
      <3>1. log'[Leader] = Append(log[Leader], LeaderTerm) /\ log[Leader] \in Seq(1..LeaderTerm)
        BY <1>0, <1>4 DEF ProposeAppend, TypeOK, Entries
      <3>2. LeaderTerm \in 1..LeaderTerm
        BY ReplicationAssumption
      <3> QED
        BY <3>1, <3>2, AppendProperties DEF LeaderLast
    <2> DEFINE s == snapshot[p].index
               last == LeaderLast'
    <2>3. CASE s <= Len(log[p])
      BY <1>4, <2>1, <2>3
    <2>4. CASE ~(s <= Len(log[p]))
      <3>1. s \in Nat \ {0} /\ last = LeaderLast + 1
        BY <1>0, <2>1, <2>4
      <3> HIDE DEF last
      <3>2. CASE s > LeaderLast /\ snapshot[p].term # LeaderTerm
        <4>1. s = LeaderLast + 1 \/ s > last
          BY <1>0, <3>1, <3>2
        <4>2. \/ s <= last /\ snapshot[p].term # log'[Leader][s]
              \/ s > last /\ snapshot[p].term # LeaderTerm
          BY <1>0, <2>2, <3>1, <3>2, <4>1
        <4> QED
          BY <1>4, <4>2 DEF SnapshotApart, last
      <3>3. CASE s <= LeaderLast /\ snapshot[p].term # log[Leader][s]
        <4>1. s <= last /\ snapshot[p].term # log'[Leader][s]
          BY <1>0, <2>1, <3>1, <3>3
        <4> QED
          BY <1>4, <4>1 DEF SnapshotApart, last
      <3> QED
        BY <1>0, <2>4, <3>2, <3>3 DEF SnapshotApart
    <2> QED
      BY <2>3, <2>4
  <1>5. ASSUME snapshot' = snapshot, NEW c \in calls, HandleTruncate(c), c.peer = p
        PROVE  (snapshot[p].index <= Len(log[p]) \/ SnapshotApart(p))'
    <2> DEFINE s == snapshot[p].index
               n == Len(log'[p])
    <2>1. log'[Leader] = log[Leader]
      BY <1>0, <1>5, TruncateForm
    <2>2. Held(log'[p]) = 1..n /\ \A i : Shared(p, i) => i \in Held(log'[p])
      BY <1>5, TruncateKeeps
    <2>3. CASE s <= n
      BY <1>5, <2>3
    <2>4. CASE SnapshotApart(p)
      BY <1>5, <2>1, <2>4 DEF SnapshotApart, LeaderLast
    <2>5. CASE ~(s <= n) /\ s <= Len(log[p])
      <3>1. n \in Nat
        <4>1. TypeOK'
          BY <1>5, TypeHandleTruncate
        <4> QED
          BY <1>0, <4>1, LenProperties DEF TypeOK, Logs
      <3>2. s \in 1..Len(log[p]) /\ ~(s \in 1..n)
        BY <1>0, <2>5, <3>1
      <3>3. ~Shared(p, s)
        BY <2>2, <3>2
      <3>4. s \in Held(log[p])
        BY <1>0, <3>2
      <3>5. log[p][s] = snapshot[p].term
        <4>1. ~Agrees(p, s)
          BY <1>0, <3>2, <3>3, <3>4 DEF Agrees
        <4> QED
          BY <4>1 DEF ReplicationInv, SnapshotsAligned
      <3>6. CASE s <= LeaderLast
        <4>1. snapshot[p].term # log[Leader][s]
          BY <3>3, <3>4, <3>5, <3>6 DEF Shared
        <4> QED
          BY <1>5, <2>1, <3>6, <4>1 DEF SnapshotApart, LeaderLast
      <3>7. CASE s > LeaderLast
        <4>1. s \in DOMAIN log[p]
          BY <3>4 DEF Held
        <4>2. snapshot[p].term # LeaderTerm
          BY <1>0, <3>5, <3>7, <4>1 DEF ReplicationInv, OwnTermFromLeader
        <4> QED
          BY <1>5, <2>1, <3>7, <4>2 DEF SnapshotApart, LeaderLast
      <3> QED
        BY <1>0, <3>6, <3>7
    <2> QED
      BY <1>0, <2>3, <2>4, <2>5
  <1>6. ASSUME snapshot' = snapshot, NEW c \in calls, HandleTruncate(c), c.peer # p
        PROVE  (snapshot[p].index <= Len(log[p]) \/ SnapshotApart(p))'
    <2>1. log'[Leader] = log[Leader] /\ log'[p] = log[p]
      BY <1>0, <1>6, TruncateForm, ReplicationAssumption
    <2>2. Len(log'[p]) \in Nat /\ Len(log'[p]) >= Len(log[p])
      BY <1>0, <2>1
    <2> QED
      BY <1>3, <1>6, <2>1, <2>2
  <1>7. ASSUME snapshot' = snapshot, NEW c \in calls, HandleAppend(c), CanAppend(log[c.peer], c.prev + c.pos)
        PROVE  (snapshot[p].index <= Len(log[p]) \/ SnapshotApart(p))'
    <2>1. c.peer \in Peers /\ \A n \in Nodes \ {c.peer} : log'[n] = log[n]
      BY <1>7, AppendForm
    <2>2. log'[Leader] = log[Leader]
      BY <1>0, <2>1, ReplicationAssumption
    <2>3. Len(log'[p]) \in Nat /\ Len(log'[p]) >= Len(log[p])
      <3>1. CASE p = c.peer
        <4>1. Len(log'[p]) = Len(log[p]) + 1
          BY <1>0, <1>7, <3>1, AppendKeeps
        <4> QED
          BY <1>0, <4>1
      <3>2. CASE p # c.peer
        BY <1>0, <2>1, <3>2
      <3> QED
        BY <3>1, <3>2
    <2> QED
      BY <1>3, <1>7, <2>2, <2>3
  <1>8. ASSUME snapshot' = snapshot, log' = log
        PROVE  (snapshot[p].index <= Len(log[p]) \/ SnapshotApart(p))'
    BY <1>0, <1>3, <1>8
  <1> QED
    BY <1>1, <1>2, <1>4, <1>5, <1>6, <1>7, <1>8, LogStep

\* Only the callback of a success changes what a peer is known to have matched.
LEMMA MatchStep ==
    ASSUME TypeOK, [Next]_vars
    PROVE  (\A q \in Peers : progress'[q].match = progress[q].match) \/ \E c \in calls : OnSuccess(c)
  <1>1. ASSUME NEW c \in calls, Handle(c) PROVE progress' = progress
    BY <1>1 DEF Handle, HandleCheck, HandleRead, HandleTruncate, HandleAppend, HandleFinish
  <1>2. ASSUME NEW p \in Peers, ReplicateRead(p) \/ HeartbeatCommit(p) \/ TakeSnapshot(p) PROVE progress' = progress
    BY <1>2 DEF ReplicateRead, HeartbeatCommit, TakeSnapshot
  <1>3. CASE ProposeAppend \/ ProposeFlush \/ UNCHANGED vars
    BY <1>3 DEF ProposeAppend, ProposeFlush, vars
  <1>4. CASE \/ ReplicateSend
             \/ \E p \in Peers : HeartbeatFails(p)
             \/ \E c \in calls : OnConflict(c) \/ OnError(c) \/ OnTimeout(c)
    BY <1>4, MatchKept
  <1> QED
    BY <1>1, <1>2, <1>3, <1>4 DEF Next, Callback

\* The calls there are after a step: old ones, and one with a new phase or position.
LEMMA CallStep ==
    ASSUME TypeOK, TypeOK', ReplicationInv, ReplicationInv', AckInv, [Next]_vars,
           NEW d \in calls', d.peer \notin misled'
    PROVE  CallAck(d)'
  <1>0. d.peer \in Peers /\ d.peer \notin misled
    BY MisledGrows DEF TypeOK, Call
  <1>1. ASSUME d \in calls PROVE CallAck(d)'
    <2>1. CallAck(d)
      BY <1>0, <1>1 DEF AckInv
    <2> QED
      BY <1>0, <2>1, PrefixStep DEF CallAck
  <1>2. ASSUME ~Serving(d), d.phase # "ok" PROVE CallAck(d)'
    BY <1>2 DEF CallAck, Serving
  <1>3. ASSUME NEW c \in calls, c.peer = d.peer, Serving(c), d.phase # "ok",
               d.prev = c.prev, d.pos = c.pos
        PROVE  CallAck(d)'
    <2>1. CallAck(c)
      BY <1>0, <1>3 DEF AckInv
    <2>2. LeaderPrefix(d.peer, d.prev + d.pos - 1)
      BY <1>3, <2>1 DEF CallAck
    <2> QED
      BY <1>0, <1>3, <2>2, PrefixStep DEF CallAck
  <1>4. ASSUME NEW c \in calls, HandleCheck(c) PROVE CallAck(d)'
    <2>1. CASE d \notin calls /\ Serving(d)
      <3> DEFINE p == c.peer
      <3>1. PICK e \in Call :
                /\ calls' = (calls \ {c}) \cup {e} /\ e.peer = c.peer /\ e.prev = c.prev
                /\ \/ e.phase = "conflict"
                   \/ e.phase = "loop" /\ e.pos = 1 /\ Conflict(c.peer, c.prev, c.prev_term) = 0
        BY <1>4, <2>1, CheckForm
      <3>2. d = e
        BY <2>1, <3>1
      <3>3. d.peer = p /\ d.prev = c.prev /\ d.phase = "loop" /\ d.pos = 1 /\ Conflict(p, c.prev, c.prev_term) = 0
        BY <2>1, <3>1, <3>2 DEF Serving
      <3>4. UNCHANGED <<log, snapshot>> /\ p \in Peers /\ p \in Nodes /\ c.prev \in Nat
        BY <1>4, CallFacts DEF HandleCheck
      <3>5. /\ c.prev <= LastIndex(p) /\ c.prev >= snapshot[p].index
            /\ c.prev = 0 \/ TermAt(p, c.prev) = c.prev_term
        BY <3>3, <3>4, CheckPassed
      <3>6. /\ snapshot[p].index \in Nat /\ LastIndex(p) \in Nat /\ Len(log[p]) \in Nat
            /\ LastIndex(p) = Len(log[p]) \/ LastIndex(p) = snapshot[p].index
        BY <3>4, PeerFacts, LogFacts
      <3>7. PeerAck(p)
        BY <1>0, <3>3 DEF AckInv
      <3>8. c.prev <= LeaderLast /\ (c.prev > 0 => c.prev_term = log[Leader][c.prev])
        BY <3>4 DEF ReplicationInv, IsLeaderPiece, LeaderTermAt
      <3>9. c.prev <= Len(log[p])
        <4>1. CASE c.prev > snapshot[p].index
          BY <3>4, <3>5, <3>6, <4>1
        <4>2. CASE c.prev = snapshot[p].index /\ c.prev > 0
          <5>1. snapshot[p].term = log[Leader][snapshot[p].index]
            BY <3>5, <3>8, <4>2 DEF TermAt
          <5>2. ~SnapshotApart(p)
            BY <3>4, <3>6, <3>8, <4>2, <5>1, LeaderFacts DEF SnapshotApart
          <5> QED
            BY <3>7, <4>2, <5>2 DEF PeerAck
        <4>3. CASE c.prev = 0
          BY <3>6, <4>3
        <4> QED
          BY <3>4, <3>5, <3>6, <4>1, <4>2, <4>3
      <3>10. Agrees(p, c.prev)
        <4>1. d.prev + d.pos - 1 = c.prev
          BY <3>3, <3>4
        <4>2. Agrees(d.peer, d.prev + d.pos - 1)'
          BY <3>3 DEF ReplicationInv, Aligned
        <4> QED
          BY <3>3, <3>4, <4>1, <4>2 DEF Agrees, Shared, LeaderLast
      <3>11. LeaderPrefix(p, c.prev)
        <4> SUFFICES ASSUME NEW i \in 1..c.prev PROVE Shared(p, i)
          BY DEF LeaderPrefix
        <4>1. i \in 1..Len(log[p])
          BY <3>4, <3>6, <3>9
        <4> QED
          BY <3>7, <3>10, <4>1 DEF PeerAck, Agrees
      <3>12. LeaderPrefix(p, c.prev)'
        BY <3>4, <3>11 DEF LeaderPrefix, Shared, LeaderLast
      <3>13. d.prev + d.pos - 1 = c.prev
        BY <3>3, <3>4
      <3> QED
        BY <3>3, <3>12, <3>13 DEF CallAck
    <2>2. d \in calls \/ d.phase # "ok"
      BY <1>4, CheckForm
    <2> QED
      BY <1>1, <1>2, <2>1, <2>2
  <1>5. ASSUME NEW c \in calls, HandleRead(c) PROVE CallAck(d)'
    <2>1. PICK e \in Call :
             /\ calls' = (calls \ {c}) \cup {e} /\ e.peer = c.peer /\ e.prev = c.prev
             /\ \/ e.phase = "loop" /\ e.pos = c.pos + 1 /\ Shared(c.peer, c.prev + c.pos)
                \/ e.phase = "truncate" /\ e.pos = c.pos
                \/ e.phase = "append" /\ e.pos = c.pos
      BY <1>5, ReadForm
    <2>2. Serving(c) /\ log' = log /\ c.prev \in Nat /\ c.pos \in Nat
      BY <1>5, CallFacts DEF HandleRead, Serving
    <2>3. CASE d = e /\ e.phase = "loop"
      <3>1. /\ d.peer = c.peer /\ d.prev = c.prev /\ d.phase = "loop" /\ d.pos = c.pos + 1
            /\ Shared(c.peer, c.prev + c.pos)
        BY <2>1, <2>3
      <3>2. LeaderPrefix(c.peer, c.prev + c.pos - 1)
        BY <1>0, <2>2, <3>1 DEF AckInv, CallAck
      <3>3. \A i \in 1..(c.prev + c.pos) : i = c.prev + c.pos \/ i \in 1..(c.prev + c.pos - 1)
        BY <2>2
      <3>4. LeaderPrefix(c.peer, c.prev + c.pos)
        BY <3>1, <3>2, <3>3 DEF LeaderPrefix
      <3>5. d.prev + d.pos - 1 = c.prev + c.pos
        BY <2>2, <3>1
      <3>6. LeaderPrefix(d.peer, d.prev + d.pos - 1)
        BY <3>1, <3>4, <3>5
      <3> QED
        BY <1>0, <3>1, <3>6, PrefixStep DEF CallAck
    <2>4. CASE d = e /\ e.phase # "loop"
      BY <1>3, <2>1, <2>2, <2>4
    <2> QED
      BY <1>1, <2>1, <2>3, <2>4
  <1>6. ASSUME NEW c \in calls, HandleTruncate(c) PROVE CallAck(d)'
    <2>1. PICK e \in Call : /\ calls' = (calls \ {c}) \cup {e} /\ e.phase = "append" /\ e.peer = c.peer
                           /\ e.prev = c.prev /\ e.pos = c.pos
      BY <1>6, TruncateForm
    <2>2. Serving(c)
      BY <1>6 DEF HandleTruncate, Serving
    <2> QED
      BY <1>1, <1>3, <2>1, <2>2
  <1>7. ASSUME NEW c \in calls, HandleAppend(c) PROVE CallAck(d)'
    <2>1. Serving(c) /\ c.prev \in Nat /\ c.pos \in Nat
      BY <1>7, CallFacts DEF HandleAppend, Serving
    <2>2. CASE CanAppend(log[c.peer], c.prev + c.pos)
      <3>1. PICK e \in Call : /\ calls' = (calls \ {c}) \cup {e} /\ e.phase = "loop" /\ e.peer = c.peer
                             /\ e.prev = c.prev /\ e.pos = c.pos + 1
        BY <1>7, <2>2, AppendForm
      <3>2. CASE d = e
        <4>1. LeaderPrefix(c.peer, c.prev + c.pos - 1)
          BY <1>0, <2>1, <3>1, <3>2 DEF AckInv, CallAck
        <4>2. LeaderPrefix(c.peer, c.prev + c.pos - 1)'
          BY <1>0, <3>1, <3>2, <4>1, PrefixStep
        <4>3. Shared(c.peer, c.prev + c.pos)'
          <5>1. /\ c.prev + c.pos \in Held(log'[c.peer]) /\ c.peer \in Peers
                /\ \A n \in Nodes \ {c.peer} : log'[n] = log[n]
                /\ \A i \in Held(log'[c.peer]) : i <= LeaderLast /\ log'[c.peer][i] = log[Leader][i]
            BY <1>7, <2>2, AppendForm
          <5>2. log'[Leader] = log[Leader]
            BY <5>1, NodesFacts, ReplicationAssumption
          <5> QED
            BY <5>1, <5>2 DEF Shared, LeaderLast
        <4>4. \A i \in 1..(c.prev + c.pos) : i = c.prev + c.pos \/ i \in 1..(c.prev + c.pos - 1)
          BY <2>1
        <4>5. \A i \in 1..(c.prev + c.pos) : Shared(c.peer, i)'
          BY <4>2, <4>3, <4>4 DEF LeaderPrefix
        <4>6. e.prev + e.pos - 1 = c.prev + c.pos
          BY <2>1, <3>1
        <4> QED
          BY <3>1, <3>2, <4>5, <4>6 DEF CallAck, LeaderPrefix
      <3> QED
        BY <1>1, <3>1, <3>2
    <2>3. CASE ~CanAppend(log[c.peer], c.prev + c.pos)
      <3>1. Answer(c, "error", 0)
        BY <1>7, <2>3 DEF HandleAppend
      <3>2. d \in calls \/ d.phase = "error"
        BY <3>1, AnswerForm
      <3> QED
        BY <1>1, <1>2, <3>2 DEF Serving
    <2> QED
      BY <2>2, <2>3
  <1>8. ASSUME NEW c \in calls, HandleFinish(c) PROVE CallAck(d)'
    <2>1. CASE d \notin calls
      <3>1. PICK e \in Call : /\ calls' = (calls \ {c}) \cup {e} /\ e.phase = "ok" /\ e.peer = c.peer
                             /\ e.hint = LastIndex(c.peer)
        BY <1>8, <2>1, FinishForm
      <3>2. d = e
        BY <2>1, <3>1
      <3>3. /\ Serving(c) /\ c.prev \in Nat /\ c.pos \in Nat /\ Len(c.entries) \in Nat /\ c.pos > Len(c.entries)
            /\ LastIndex(c.peer) \in Nat
        BY <1>8, CallFacts, PeerFacts DEF HandleFinish, Serving
      <3>4. LeaderPrefix(c.peer, c.prev + c.pos - 1)
        BY <1>0, <3>1, <3>2, <3>3 DEF AckInv, CallAck
      <3>5. ~CountsTail(c)
        BY <1>8, <3>1, <3>2 DEF HandleFinish
      <3>6. LeaderPrefix(c.peer, LastIndex(c.peer))
        <4> SUFFICES ASSUME NEW i \in 1..LastIndex(c.peer) PROVE Shared(c.peer, i)
          BY DEF LeaderPrefix
        <4>1. CASE i \in 1..(c.prev + c.pos - 1)
          BY <3>4, <4>1 DEF LeaderPrefix
        <4>2. CASE i \in (c.prev + Len(c.entries) + 1)..LastIndex(c.peer)
          BY <3>5, <4>2 DEF CountsTail, MatchIndex
        <4> QED
          BY <3>3, <4>1, <4>2
      <3>7. LeaderPrefix(d.peer, d.hint)
        BY <3>1, <3>2, <3>6
      <3> QED
        BY <1>0, <3>1, <3>2, <3>7, PrefixStep DEF CallAck, Serving
    <2> QED
      BY <1>1, <2>1
  <1>9. ASSUME NEW c \in calls, OnTimeout(c) PROVE CallAck(d)'
    <2>1. \/ d \in calls
          \/ d.phase = c.phase /\ d.phase # "ok" /\ d.peer = c.peer /\ d.prev = c.prev /\ d.pos = c.pos
      BY <1>9, TimeoutForm
    <2> QED
      BY <1>1, <1>2, <1>3, <2>1 DEF Serving
  <1>10. ASSUME NEW c \in calls, Callback(c) PROVE CallAck(d)'
    BY <1>1, <1>10 DEF Callback, OnSuccess, OnConflict, OnError
  <1>11. CASE ReplicateSend
    <2>1. d \in calls \/ d.phase = "sent"
      BY <1>11, SendForm
    <2> QED
      BY <1>1, <1>2, <2>1 DEF Serving
  <1>12. ASSUME NEW p \in Peers, ReplicateRead(p) \/ HeartbeatCommit(p) \/ HeartbeatFails(p) \/ TakeSnapshot(p)
         PROVE  CallAck(d)'
    BY <1>1, <1>12 DEF ReplicateRead, HeartbeatCommit, HeartbeatFails, TakeSnapshot
  <1>13. CASE ProposeAppend \/ ProposeFlush \/ UNCHANGED vars
    BY <1>1, <1>13 DEF ProposeAppend, ProposeFlush, vars
  <1> QED
    BY <1>4, <1>5, <1>6, <1>7, <1>8, <1>9, <1>10, <1>11, <1>12, <1>13 DEF Next, Handle

LEMMA AckStep ==
    ASSUME TypeOK, TypeOK', ReplicationInv, ReplicationInv', AckInv, [Next]_vars
    PROVE  AckInv'
  <1>1. ASSUME NEW p \in Peers, p \notin misled' PROVE LeaderPrefix(p, progress[p].match)'
    <2>1. p \notin misled /\ LeaderPrefix(p, progress[p].match)
      BY <1>1, MisledGrows DEF AckInv, PeerAck
    <2>2. CASE progress'[p].match = progress[p].match
      <3>1. LeaderPrefix(p, progress[p].match)
        BY <2>1
      <3> DEFINE k == progress[p].match
      <3>2. \A i \in 1..k : Shared(p, i)'
        BY <1>1, <3>1, SharedStep DEF LeaderPrefix
      <3> QED
        BY <2>2, <3>2 DEF LeaderPrefix
    <2>3. ASSUME NEW c \in calls, OnSuccess(c), progress'[p].match # progress[p].match
          PROVE  LeaderPrefix(p, progress[p].match)'
      <3>1. c.phase = "ok" /\ p = c.peer /\ progress'[p].match = c.hint
        BY <2>3, SuccessForm
      <3>2. LeaderPrefix(p, c.hint)
        BY <2>1, <3>1 DEF AckInv, CallAck
      <3>3. \A i \in 1..c.hint : Shared(p, i)'
        BY <1>1, <3>2, SharedStep DEF LeaderPrefix
      <3> QED
        BY <3>1, <3>3 DEF LeaderPrefix
    <2> QED
      BY <2>2, <2>3, MatchStep
  <1>2. \A p \in Peers \ misled' : PeerAck(p)'
    BY <1>1, HoleStep, SnapshotStep DEF PeerAck
  <1> QED
    BY <1>2, CallStep DEF AckInv

(***************************************************************************)
(* Commits.  What MaybeCommit counted stays counted.                       *)
(***************************************************************************)

\* The nodes that count for index k.
Counted(k) == {n \in Nodes : IF n = Leader THEN flushed_index >= k ELSE progress[n].match >= k}

CommitInv == Cardinality(Counted(commit_index[Leader])) >= QuorumSize

LEMMA NodesFinite == IsFiniteSet(Nodes) /\ Cardinality(Nodes) \in Nat \ {0} /\ QuorumSize \in Nat
  <1>1. IsFiniteSet(Nodes)
    BY ReplicationAssumption, FS_AddElement DEF Nodes
  <1>2. Cardinality(Nodes) \in Nat /\ Cardinality(Nodes) # 0
    BY <1>1, NodesFacts, FS_CardinalityType, FS_EmptySet
  <1> QED
    BY <1>1, <1>2 DEF QuorumSize

LEMMA MoreHolders ==
    ASSUME NEW S, NEW T, S \subseteq T, T \subseteq Nodes, Cardinality(S) >= QuorumSize
    PROVE  Cardinality(T) >= QuorumSize
  <1>1. IsFiniteSet(T) /\ IsFiniteSet(S) /\ Cardinality(S) <= Cardinality(T)
    BY NodesFinite, FS_Subset
  <1>2. Cardinality(S) \in Nat /\ Cardinality(T) \in Nat
    BY <1>1, FS_CardinalityType
  <1> QED
    BY <1>1, <1>2, NodesFinite

LEMMA CommitInit == Init => CommitInv
  <1> SUFFICES ASSUME Init PROVE CommitInv
    OBVIOUS
  <1>1. TypeOK
    BY InitTypes
  <1>2. commit_index[Leader] = 0 /\ flushed_index \in Nat /\ \A p \in Peers : progress[p].match \in Nat
    BY <1>1, NodesFacts, PeerFacts DEF Init, TypeOK, Progress
  <1>3. Counted(0) = Nodes
    BY <1>2 DEF Counted, Nodes
  <1>4. Cardinality(Nodes) >= QuorumSize
    BY NodesFinite DEF QuorumSize
  <1> QED
    BY <1>2, <1>3, <1>4 DEF CommitInv

LEMMA CommittableFacts ==
    ASSUME TypeOK, NEW match
    PROVE  LET i == Committable(match)
               H == {p \in Peers : match[p] >= i} \cup (IF flushed_index >= i THEN {Leader} ELSE {})
           IN  \/ i = commit_index[Leader]
               \/ i \in Nat /\ Cardinality(H) >= QuorumSize
  <1> DEFINE Holders(i) == {p \in Peers : match[p] >= i} \cup (IF flushed_index >= i THEN {Leader} ELSE {})
             S == {i \in (commit_index[Leader] + 1)..LeaderLast :
                       log[Leader][i] = LeaderTerm /\ Cardinality(Holders(i)) >= QuorumSize}
  <1>1. LeaderLast \in Nat /\ commit_index[Leader] \in Nat
    BY LeaderFacts, LogFacts, NodesFacts
  <1>2. CASE S = {}
    BY <1>2 DEF Committable
  <1>3. CASE S # {}
    <2> DEFINE m == CHOOSE i \in S : \A j \in S : j <= i
    <2>1. Committable(match) = m
      BY <1>3 DEF Committable
    <2>2. m \in S
      <3>1. S \subseteq 0..LeaderLast
        BY <1>1
      <3>2. \E i \in S : \A j \in S : j <= i
        <4> HIDE DEF S
        <4> QED
          BY <1>1, <1>3, <3>1, MaxExists
      <3> QED
        BY <3>2
    <2> HIDE DEF m
    <2>3. m \in 1..LeaderLast /\ Cardinality(Holders(m)) >= QuorumSize
      BY <1>1, <2>2
    <2> QED
      BY <1>1, <2>1, <2>3
  <1> QED
    BY <1>2, <1>3

\* Only the callback of a success moves the leader's commit index.
LEMMA LeaderCommitStep ==
    ASSUME TypeOK, [Next]_vars
    PROVE  commit_index'[Leader] = commit_index[Leader] \/ \E c \in calls : OnSuccess(c)
  <1>1. ASSUME NEW c \in calls, HandleFinish(c) PROVE commit_index'[Leader] = commit_index[Leader]
    BY <1>1, RaiseForm, CallFacts DEF HandleFinish
  <1>2. ASSUME NEW p \in Peers, HeartbeatCommit(p) PROVE commit_index'[Leader] = commit_index[Leader]
    <2>1. \E k \in Nat : RaiseCommit(p, k)
      BY <1>2, LogFacts, NodesFacts DEF HeartbeatCommit
    <2> QED
      BY <2>1, RaiseForm
  <1>3. ASSUME NEW c \in calls, HandleCheck(c) \/ HandleRead(c) \/ HandleTruncate(c) \/ HandleAppend(c)
        PROVE  commit_index' = commit_index
    BY <1>3 DEF HandleCheck, HandleRead, HandleTruncate, HandleAppend
  <1>4. ASSUME NEW c \in calls, OnConflict(c) \/ OnError(c) \/ OnTimeout(c) PROVE commit_index' = commit_index
    BY <1>4 DEF OnConflict, OnError, OnTimeout
  <1>5. ASSUME NEW p \in Peers, ReplicateRead(p) \/ HeartbeatFails(p) \/ TakeSnapshot(p)
        PROVE  commit_index' = commit_index
    BY <1>5 DEF ReplicateRead, HeartbeatFails, TakeSnapshot
  <1>6. CASE ProposeAppend \/ ProposeFlush \/ ReplicateSend \/ UNCHANGED vars
    BY <1>6 DEF ProposeAppend, ProposeFlush, ReplicateSend, vars
  <1> QED
    BY <1>1, <1>2, <1>3, <1>4, <1>5, <1>6 DEF Next, Handle, Callback

LEMMA FlushStep ==
    ASSUME TypeOK, [Next]_vars
    PROVE  flushed_index' = flushed_index \/ ProposeFlush
  <1>1. ASSUME NEW c \in calls, Handle(c) PROVE flushed_index' = flushed_index
    BY <1>1 DEF Handle, HandleCheck, HandleRead, HandleTruncate, HandleAppend, HandleFinish
  <1>2. ASSUME NEW c \in calls, Callback(c) \/ OnTimeout(c) PROVE flushed_index' = flushed_index
    BY <1>2 DEF Callback, OnSuccess, OnConflict, OnError, OnTimeout
  <1>3. ASSUME NEW p \in Peers, ReplicateRead(p) \/ HeartbeatCommit(p) \/ HeartbeatFails(p) \/ TakeSnapshot(p)
        PROVE  flushed_index' = flushed_index
    BY <1>3 DEF ReplicateRead, HeartbeatCommit, HeartbeatFails, TakeSnapshot
  <1>4. CASE ProposeAppend \/ ReplicateSend \/ UNCHANGED vars
    BY <1>4 DEF ProposeAppend, ReplicateSend, vars
  <1> QED
    BY <1>1, <1>2, <1>3, <1>4 DEF Next

LEMMA MatchGrows ==
    ASSUME TypeOK, [Next]_vars, NEW p \in Peers
    PROVE  progress'[p].match \in Nat /\ progress'[p].match >= progress[p].match
  <1>1. progress[p].match \in Nat
    BY PeerFacts DEF Progress
  <1>2. ASSUME NEW c \in calls, OnSuccess(c)
        PROVE  progress'[p].match \in Nat /\ progress'[p].match >= progress[p].match
    <2> DEFINE g == progress[c.peer]
               m == MaxOf(g.match, c.hint)
               h == [next |-> MaxOf(g.next, c.hint + 1), match |-> m,
                     in_flight |-> Decrement(g.in_flight), anchor |-> 0, failures |-> 0]
    <2>1. progress' = [progress EXCEPT ![c.peer] = h] /\ h.match = m /\ c.hint \in Nat
      BY <1>2, CallFacts DEF OnSuccess
    <2>2. p = c.peer => m \in Nat /\ m >= g.match
      BY <1>1, <2>1 DEF MaxOf
    <2> HIDE DEF h, m
    <2> QED
      BY <1>1, <2>1, <2>2 DEF TypeOK
  <1>3. CASE progress'[p].match = progress[p].match
    BY <1>1, <1>3
  <1> QED
    BY <1>2, <1>3, MatchStep

LEMMA CommitStep == ASSUME TypeOK, CommitInv, [Next]_vars PROVE CommitInv'
  <1>0. /\ commit_index[Leader] \in Nat /\ flushed_index \in Nat /\ LeaderLast \in Nat
        /\ Cardinality(Counted(commit_index[Leader])) >= QuorumSize
    BY LogFacts, LeaderFacts, NodesFacts DEF CommitInv, TypeOK
  <1>1. flushed_index' \in Nat /\ flushed_index' >= flushed_index
    BY <1>0, FlushStep DEF ProposeFlush
  <1>2. ASSUME NEW k \in Nat, commit_index'[Leader] = k,
               NEW S, S \subseteq Counted(k)', Cardinality(S) >= QuorumSize
        PROVE  CommitInv'
    <2>1. Counted(k)' \subseteq Nodes
      BY DEF Counted
    <2>2. Cardinality(Counted(k)') >= QuorumSize
      BY <1>2, <2>1, MoreHolders
    <2>3. Counted(commit_index[Leader])' = Counted(k)'
      BY <1>2 DEF Counted
    <2> QED
      BY <2>2, <2>3 DEF CommitInv
  <1>3. CASE commit_index'[Leader] = commit_index[Leader]
    <2>1. PICK k \in Nat : k = commit_index[Leader]
      BY <1>0
    <2>2. ASSUME NEW n \in Counted(k) PROVE n \in Counted(k)'
      <3>1. CASE n = Leader
        <4>1. flushed_index >= k
          BY <3>1 DEF Counted
        <4>2. flushed_index' >= k
          BY <1>0, <1>1, <4>1
        <4> QED
          BY <3>1, <4>2, NodesFacts DEF Counted
      <3>2. CASE n \in Peers
        <4>1. progress[n].match >= k /\ progress[n].match \in Nat
          BY <3>2, PeerFacts, ReplicationAssumption DEF Counted, Progress
        <4>2. progress'[n].match >= k
          BY <3>2, <4>1, MatchGrows
        <4> QED
          BY <3>2, <4>2, NodesFacts, ReplicationAssumption DEF Counted
      <3> QED
        BY <3>1, <3>2 DEF Counted, Nodes
    <2>3. Counted(k) \subseteq Counted(k)'
      BY <2>2
    <2> QED
      BY <1>0, <1>2, <1>3, <2>1, <2>3
  <1>4. ASSUME NEW c \in calls, OnSuccess(c) PROVE CommitInv'
    <2> DEFINE match == [p \in Peers |-> progress'[p].match]
    <2>1. commit_index'[Leader] = Committable(match)
      BY <1>4, NodesFacts DEF OnSuccess, TypeOK
    <2>2. \A p \in Peers : match[p] = progress'[p].match
      OBVIOUS
    <2> HIDE DEF match
    <2> DEFINE i == Committable(match)
               H == {p \in Peers : match[p] >= i} \cup (IF flushed_index >= i THEN {Leader} ELSE {})
    <2>3. i = commit_index[Leader] \/ (i \in Nat /\ Cardinality(H) >= QuorumSize)
      BY CommittableFacts
    <2>4. flushed_index' = flushed_index
      BY <1>4, SuccessForm
    <2> HIDE DEF i
    <2>5. ASSUME i \in Nat, Cardinality(H) >= QuorumSize PROVE CommitInv'
      <3>0. PICK k \in Nat : k = i
        BY <2>5
      <3>1. ASSUME NEW n \in H PROVE n \in Counted(k)'
        <4>1. CASE n \in Peers /\ match[n] >= k
          <5>1. progress'[n].match >= k /\ n # Leader
            BY <2>2, <4>1, ReplicationAssumption
          <5> QED
            BY <4>1, <5>1, NodesFacts DEF Counted
        <4>2. CASE n = Leader /\ flushed_index >= k
          BY <2>4, <4>2, NodesFacts DEF Counted
        <4> QED
          BY <3>0, <3>1, <4>1, <4>2
      <3>2. commit_index'[Leader] = k /\ H \subseteq Counted(k)'
        BY <2>1, <3>0, <3>1 DEF i
      <3> HIDE DEF H
      <3> QED
        BY <2>5, <3>0, <3>2, <1>2
    <2> QED
      BY <1>3, <2>1, <2>3, <2>5 DEF i
  <1> QED
    BY <1>3, <1>4, LeaderCommitStep

\* What the acknowledged indices say of the logs.
LEMMA CountedHold ==
    ASSUME TypeOK, AckInv, CommitInv
    PROVE  AcksAreReal /\ CommittedOnQuorum
  <1>1. AcksAreReal
    BY DEF AckInv, PeerAck, AcksAreReal
  <1> DEFINE k == commit_index[Leader]
             T == {n \in Nodes : IF n = Leader THEN flushed_index >= k
                                 ELSE IF n \in misled THEN progress[n].match >= k
                                 ELSE LeaderPrefix(n, k)}
  <1>2. ASSUME NEW n \in Counted(k) PROVE n \in T
    <2>1. CASE n = Leader \/ n \in misled
      BY <2>1 DEF Counted
    <2>2. CASE n # Leader /\ n \notin misled
      <3>1. n \in Peers /\ progress[n].match >= k /\ n \in Nodes
        BY <2>2 DEF Counted, Nodes
      <3>2. LeaderPrefix(n, progress[n].match) /\ progress[n].match \in Nat /\ k \in Nat
        BY <1>1, <2>2, <3>1, PeerFacts, LogFacts, NodesFacts DEF AcksAreReal, Progress
      <3>3. \A i \in 1..k : i \in 1..progress[n].match
        BY <3>1, <3>2
      <3>4. LeaderPrefix(n, k)
        BY <3>2, <3>3 DEF LeaderPrefix
      <3> QED
        BY <2>2, <3>1, <3>4
    <2> QED
      BY <2>1, <2>2
  <1>3. Counted(k) \subseteq T /\ T \subseteq Nodes /\ Cardinality(Counted(k)) >= QuorumSize
    BY <1>2 DEF CommitInv
  <1>4. Cardinality(T) >= QuorumSize
    <2> HIDE DEF T
    <2> QED
      BY <1>3, MoreHolders
  <1> QED
    BY <1>1, <1>4 DEF CommittedOnQuorum

\* What holds throughout, from any logs, with any number of handlers at a time: a peer that
\* is not misled has no hole, stands where each of its handlers takes it to stand and holds
\* what it has acknowledged, and a quorum has acknowledged what is committed.
AllAcks == TypeOK /\ ReplicationInv /\ AckInv /\ CommitInv

\* The acknowledgements of HandleAppendEntries and the commit rule of MaybeCommit keep it.
THEOREM AckInvariant == Spec => []AllAcks
  <1>1. Init => AllAcks
    BY InitTypes, InvInit, AckInit, CommitInit DEF AllAcks
  <1>2. AllAcks /\ [Next]_vars => AllAcks'
    <2> SUFFICES ASSUME TypeOK, ReplicationInv, AckInv, CommitInv, [Next]_vars PROVE AllAcks'
      BY DEF AllAcks
    <2>1. TypeOK' /\ ReplicationInv'
      BY InductiveStep
    <2> QED
      BY <2>1, AckStep, CommitStep DEF AllAcks
  <1> QED
    BY <1>1, <1>2, PTL DEF Spec

\* What a peer is known to have matched, it holds and keeps, unless it is misled: whatever
\* logs the peers begin with, however many handlers of HandleAppendEntries interleave, and
\* wherever their snapshots end.
THEOREM AcksReal == Spec => []AcksAreReal
  <1>1. AllAcks => AcksAreReal
    BY CountedHold DEF AllAcks
  <1> QED
    BY <1>1, AckInvariant, PTL

\* What MaybeCommit has committed stays on a quorum of logs, the leader's own counting only
\* as far as it is flushed, a misled peer's as far as it has acknowledged.
THEOREM CommitOnQuorum == Spec => []CommittedOnQuorum
  <1>1. AllAcks => CommittedOnQuorum
    BY CountedHold DEF AllAcks
  <1> QED
    BY <1>1, AckInvariant, PTL

(***************************************************************************)
(* Peers that trail the leader are never misled.                           *)
(***************************************************************************)

\* No peer has an entry that the leader lacks; its handlers may interleave.
PeersTrail ==
    \A l \in PeerLogs : Len(l) <= Len(LeaderLog) /\ \A i \in 1..Len(l) : l[i] = LeaderLog[i]

TrailInv ==
    /\ misled = {}
    /\ \A p \in Peers : /\ LeaderPrefix(p, Len(log[p]))
                        /\ snapshot[p].index <= Len(log[p]) /\ commit_index[p] <= Len(log[p])
    /\ \A c \in calls : c.phase # "truncate"

LEMMA TrailInit == PeersTrail /\ Init => TrailInv
  <1> SUFFICES ASSUME PeersTrail, Init PROVE TrailInv
    OBVIOUS
  <1>0. TypeOK /\ calls = {}
    BY InitTypes DEF Init
  <1>1. ASSUME NEW p \in Peers
        PROVE  /\ LeaderPrefix(p, Len(log[p])) /\ snapshot[p].index <= Len(log[p])
               /\ commit_index[p] <= Len(log[p]) /\ p \notin misled
    <2>1. log[p] \in PeerLogs /\ log[Leader] = Append(LeaderLog, LeaderTerm)
      BY DEF Init
    <2>2. LeaderLog \in Seq(1..LeaderTerm) /\ LeaderTerm \in 1..LeaderTerm
      BY ReplicationAssumption
    <2>3. /\ LeaderLast = Len(LeaderLog) + 1 /\ Len(LeaderLog) \in Nat
          /\ \A i \in 1..Len(LeaderLog) : log[Leader][i] = LeaderLog[i]
      BY <2>1, <2>2, AppendProperties, LenProperties DEF LeaderLast
    <2>4. Len(log[p]) <= Len(LeaderLog) /\ \A i \in 1..Len(log[p]) : log[p][i] = LeaderLog[i]
      BY <2>1 DEF PeersTrail
    <2>5. Len(log[p]) \in Nat /\ DOMAIN log[p] = 1..Len(log[p]) /\ p \in Nodes
      BY <1>0, LogFacts, NodesFacts
    <2>6. ASSUME NEW i \in 1..Len(log[p]) PROVE Shared(p, i)
      <3>1. i \in 1..LeaderLast /\ log[p][i] = log[Leader][i]
        BY <2>3, <2>4, <2>5
      <3>2. log[Leader][i] # 0
        BY <1>0, <3>1, LeaderFacts, ReplicationAssumption
      <3> QED
        BY <2>5, <3>1, <3>2 DEF Shared, Held
    <2>7. Held(log[p]) = DOMAIN log[p]
      BY <2>5, <2>6 DEF Shared, Held
    <2>8. snapshot[p].index = 0 /\ commit_index[p] = 0
      BY <2>5 DEF Init
    <2> QED
      BY <2>5, <2>6, <2>7, <2>8 DEF LeaderPrefix, Init
  <1> QED
    BY <1>0, <1>1 DEF TrailInv, TypeOK

\* Such a peer's log only grows, and so do the indices it vouches for.
LEMMA TrailLogs ==
    ASSUME TypeOK, ReplicationInv, AckInv, TrailInv, [Next]_vars, misled' = {}, NEW p \in Peers
    PROVE  /\ LeaderPrefix(p, Len(log[p]))' /\ Len(log'[p]) \in Nat /\ Len(log[p]) \in Nat
           /\ Len(log'[p]) >= Len(log[p])
  <1>0. p \in Nodes /\ Len(log[p]) \in Nat /\ LeaderPrefix(p, Len(log[p])) /\ p \notin misled'
    BY LogFacts, NodesFacts DEF TrailInv
  <1>1. CASE log'[p] = log[p]
    <2> DEFINE k == Len(log[p])
    <2>1. \A i \in 1..k : Shared(p, i)'
      BY <1>0, SharedStep DEF LeaderPrefix
    <2> QED
      BY <1>0, <1>1, <2>1 DEF LeaderPrefix
  <1>2. ASSUME NEW c \in calls, HandleAppend(c), CanAppend(log[c.peer], c.prev + c.pos), p = c.peer
        PROVE  LeaderPrefix(p, Len(log[p]))' /\ Len(log'[p]) = Len(log[p]) + 1
    <2>1. /\ \A n \in Nodes \ {p} : log'[n] = log[n]
          /\ \A i \in Held(log'[p]) : i <= LeaderLast /\ log'[p][i] = log[Leader][i]
      BY <1>2, AppendForm
    <2>2. log'[Leader] = log[Leader]
      BY <2>1, NodesFacts, ReplicationAssumption
    <2>3. Held(log'[p]) = 1..Len(log'[p]) /\ Len(log'[p]) = Len(log[p]) + 1
      BY <1>2, AppendKeeps DEF TrailInv
    <2> DEFINE k == Len(log'[p])
    <2>4. \A i \in 1..k : Shared(p, i)'
      BY <2>1, <2>2, <2>3 DEF Shared, LeaderLast
    <2> QED
      BY <2>3, <2>4 DEF LeaderPrefix
  <1>3. \/ log'[p] = log[p]
        \/ \E c \in calls : HandleAppend(c) /\ CanAppend(log[c.peer], c.prev + c.pos) /\ p = c.peer
    <2>1. ASSUME NEW c \in calls, HandleTruncate(c) PROVE FALSE
      BY <2>1 DEF HandleTruncate, TrailInv
    <2>2. ASSUME NEW c \in calls, HandleAppend(c), CanAppend(log[c.peer], c.prev + c.pos), p # c.peer
          PROVE  log'[p] = log[p]
      BY <1>0, <2>2, AppendForm
    <2> QED
      BY <2>1, <2>2, LogStep, LeaderGrows
  <1>4. CASE log'[p] # log[p]
    <2>1. LeaderPrefix(p, Len(log[p]))' /\ Len(log'[p]) = Len(log[p]) + 1
      BY <1>2, <1>3, <1>4
    <2> QED
      BY <1>0, <2>1
  <1>5. Len(log'[p]) \in Nat /\ Len(log'[p]) >= Len(log[p])
    BY <1>0, <1>2, <1>3
  <1> QED
    BY <1>0, <1>1, <1>4, <1>5

LEMMA TrailStep ==
    ASSUME TypeOK, ReplicationInv, AckInv, TrailInv, [Next]_vars
    PROVE  TrailInv'
  <1>0. /\ \A p \in Peers : /\ LeaderPrefix(p, Len(log[p])) /\ snapshot[p].index <= Len(log[p])
                            /\ commit_index[p] <= Len(log[p]) /\ LastIndex(p) = Len(log[p])
                            /\ snapshot[p].index \in Nat /\ commit_index[p] \in Nat /\ Len(log[p]) \in Nat
        /\ \A c \in calls : c.phase # "truncate"
        /\ misled = {}
    BY PeerFacts, LogFacts, NodesFacts DEF TrailInv
  <1>1. misled' = {}
    <2>1. ASSUME NEW c \in calls, HandleFinish(c) PROVE misled' = {}
      <3>1. ASSUME NEW i \in (c.prev + Len(c.entries) + 1)..MatchIndex(c) PROVE Shared(c.peer, i)
        <4>1. i \in 1..Len(log[c.peer])
          BY <1>0, CallFacts DEF MatchIndex
        <4> QED
          BY <1>0, <4>1, CallFacts DEF LeaderPrefix
      <3>2. ~CountsTail(c)
        BY <3>1 DEF CountsTail
      <3> QED
        BY <1>0, <2>1, <3>2 DEF HandleFinish
    <2>2. ASSUME NEW c \in calls, HandleTruncate(c) PROVE FALSE
      BY <1>0, <2>2 DEF HandleTruncate
    <2>3. ASSUME NEW c \in calls, HandleCheck(c) \/ HandleRead(c) \/ HandleAppend(c) PROVE misled' = misled
      BY <2>3 DEF HandleCheck, HandleRead, HandleAppend
    <2>4. ASSUME NEW c \in calls, Callback(c) \/ OnTimeout(c) PROVE misled' = misled
      BY <2>4 DEF Callback, OnSuccess, OnConflict, OnError, OnTimeout
    <2>5. ASSUME NEW p \in Peers, ReplicateRead(p) \/ HeartbeatCommit(p) \/ HeartbeatFails(p) \/ TakeSnapshot(p)
          PROVE  misled' = misled
      BY <2>5 DEF ReplicateRead, HeartbeatCommit, HeartbeatFails, TakeSnapshot
    <2>6. CASE ProposeAppend \/ ProposeFlush \/ ReplicateSend \/ UNCHANGED vars
      BY <1>0, <2>6 DEF ProposeAppend, ProposeFlush, ReplicateSend, vars
    <2> QED
      BY <1>0, <2>1, <2>2, <2>3, <2>4, <2>5, <2>6 DEF Next, Handle
  <1>2. ASSUME NEW p \in Peers
        PROVE  /\ LeaderPrefix(p, Len(log[p]))' /\ Len(log'[p]) \in Nat
               /\ Len(log'[p]) >= Len(log[p])
    BY <1>1, TrailLogs
  <1>3. ASSUME NEW p \in Peers PROVE snapshot'[p].index <= Len(log'[p])
    <2>1. ASSUME NEW q \in Peers, TakeSnapshot(q) PROVE snapshot'[p].index <= Len(log'[p])
      <3>1. log' = log
        BY <2>1 DEF TakeSnapshot
      <3>2. PICK i \in (snapshot[q].index + 1)..MinOf(commit_index[q], Len(log[q])) :
                snapshot' = [snapshot EXCEPT ![q] = [index |-> i, term |-> log[q][i]]]
        BY <2>1 DEF TakeSnapshot
      <3>3. i <= Len(log[q])
        BY <1>0 DEF MinOf
      <3> QED
        BY <1>0, <3>1, <3>2, <3>3 DEF TypeOK
    <2>2. CASE snapshot' = snapshot
      BY <1>0, <1>2, <2>2
    <2>3. ASSUME NEW c \in calls, Handle(c) PROVE snapshot' = snapshot
      BY <2>3 DEF Handle, HandleCheck, HandleRead, HandleTruncate, HandleAppend, HandleFinish
    <2>4. ASSUME NEW c \in calls, Callback(c) \/ OnTimeout(c) PROVE snapshot' = snapshot
      BY <2>4 DEF Callback, OnSuccess, OnConflict, OnError, OnTimeout
    <2>5. ASSUME NEW q \in Peers, ReplicateRead(q) \/ HeartbeatCommit(q) \/ HeartbeatFails(q) PROVE snapshot' = snapshot
      BY <2>5 DEF ReplicateRead, HeartbeatCommit, HeartbeatFails
    <2>6. CASE ProposeAppend \/ ProposeFlush \/ ReplicateSend \/ UNCHANGED vars
      BY <2>2, <2>6 DEF ProposeAppend, ProposeFlush, ReplicateSend, vars
    <2> QED
      BY <2>1, <2>2, <2>3, <2>4, <2>5, <2>6 DEF Next
  <1>4. ASSUME NEW p \in Peers PROVE commit_index'[p] <= Len(log'[p])
    <2>1. ASSUME NEW q \in Peers, NEW k \in Nat, RaiseCommit(q, k), log' = log PROVE commit_index'[p] <= Len(log'[p])
      BY <1>0, <2>1, RaiseForm
    <2>2. CASE commit_index'[p] = commit_index[p]
      BY <1>0, <1>2, <2>2
    <2>3. ASSUME NEW c \in calls, HandleFinish(c) PROVE commit_index'[p] <= Len(log'[p])
      BY <2>1, <2>3, CallFacts DEF HandleFinish
    <2>4. ASSUME NEW q \in Peers, HeartbeatCommit(q) PROVE commit_index'[p] <= Len(log'[p])
      <3>1. log' = log /\ \E k \in Nat : RaiseCommit(q, k)
        BY <2>4, LogFacts, NodesFacts DEF HeartbeatCommit
      <3> QED
        BY <2>1, <3>1
    <2>5. ASSUME NEW c \in calls, OnSuccess(c) PROVE commit_index'[p] = commit_index[p]
      BY <2>5, SuccessForm
    <2>6. ASSUME NEW c \in calls, HandleCheck(c) \/ HandleRead(c) \/ HandleTruncate(c) \/ HandleAppend(c)
          PROVE  commit_index' = commit_index
      BY <2>6 DEF HandleCheck, HandleRead, HandleTruncate, HandleAppend
    <2>7. ASSUME NEW c \in calls, OnConflict(c) \/ OnError(c) \/ OnTimeout(c) PROVE commit_index' = commit_index
      BY <2>7 DEF OnConflict, OnError, OnTimeout
    <2>8. ASSUME NEW q \in Peers, ReplicateRead(q) \/ HeartbeatFails(q) \/ TakeSnapshot(q) PROVE commit_index' = commit_index
      BY <2>8 DEF ReplicateRead, HeartbeatFails, TakeSnapshot
    <2>9. CASE ProposeAppend \/ ProposeFlush \/ ReplicateSend \/ UNCHANGED vars
      BY <2>2, <2>9 DEF ProposeAppend, ProposeFlush, ReplicateSend, vars
    <2> QED
      BY <2>2, <2>3, <2>4, <2>5, <2>6, <2>7, <2>8, <2>9 DEF Next, Handle, Callback
  <1>5. ASSUME NEW d \in calls' PROVE d.phase # "truncate"
    <2>0. CASE d \in calls
      BY <1>0, <2>0
    <2>1. ASSUME NEW c \in calls, HandleCheck(c) PROVE d.phase # "truncate"
      BY <2>0, <2>1, CheckForm
    <2>2. ASSUME NEW c \in calls, HandleRead(c) PROVE d.phase # "truncate"
      <3>1. c.prev + c.pos \in Held(log[c.peer]) => Shared(c.peer, c.prev + c.pos)
        <4> SUFFICES ASSUME c.prev + c.pos \in Held(log[c.peer]) PROVE Shared(c.peer, c.prev + c.pos)
          OBVIOUS
        <4>1. c.prev + c.pos \in 1..Len(log[c.peer])
          BY HeldFacts, CallFacts
        <4> QED
          BY <1>0, <4>1, CallFacts DEF LeaderPrefix
      <3> QED
        BY <2>0, <2>2, <3>1, ReadForm
    <2>3. ASSUME NEW c \in calls, HandleTruncate(c) PROVE FALSE
      BY <1>0, <2>3 DEF HandleTruncate
    <2>4. ASSUME NEW c \in calls, HandleAppend(c) PROVE d.phase # "truncate"
      <3>1. CASE CanAppend(log[c.peer], c.prev + c.pos)
        BY <2>0, <2>4, <3>1, AppendForm
      <3>2. CASE ~CanAppend(log[c.peer], c.prev + c.pos)
        <4>1. Answer(c, "error", 0)
          BY <2>4, <3>2 DEF HandleAppend
        <4> QED
          BY <2>0, <4>1, AnswerForm
      <3> QED
        BY <3>1, <3>2
    <2>5. ASSUME NEW c \in calls, HandleFinish(c) PROVE d.phase # "truncate"
      BY <2>0, <2>5, FinishForm
    <2>6. ASSUME NEW c \in calls, OnTimeout(c) PROVE d.phase # "truncate"
      BY <1>0, <2>0, <2>6, TimeoutForm
    <2>7. ASSUME NEW c \in calls, Callback(c) PROVE d \in calls
      BY <2>7 DEF Callback, OnSuccess, OnConflict, OnError
    <2>8. ASSUME NEW q \in Peers, ReplicateRead(q) \/ HeartbeatCommit(q) \/ HeartbeatFails(q) \/ TakeSnapshot(q)
          PROVE  d \in calls
      BY <2>8 DEF ReplicateRead, HeartbeatCommit, HeartbeatFails, TakeSnapshot
    <2>9. CASE ReplicateSend
      BY <2>0, <2>9, SendForm
    <2>10. CASE ProposeAppend \/ ProposeFlush \/ UNCHANGED vars
      BY <2>0, <2>10 DEF ProposeAppend, ProposeFlush, vars
    <2> QED
      BY <2>0, <2>1, <2>2, <2>3, <2>4, <2>5, <2>6, <2>7, <2>8, <2>9, <2>10 DEF Next, Handle
  <1> QED
    BY <1>1, <1>2, <1>3, <1>4, <1>5 DEF TrailInv

\* From logs that trail the leader's, no handler and no heartbeat makes a peer commit, and so
\* apply, anything but the leader's entries.
THEOREM PeersCommitLeaderEntries ==
    ASSUME PeersTrail
    PROVE  Spec => []PeerCommitsLeaderEntries
  <1> DEFINE Inv == TypeOK /\ ReplicationInv /\ AckInv /\ TrailInv
  <1>1. Init => Inv
    BY InitTypes, InvInit, AckInit, TrailInit
  <1>2. Inv /\ [Next]_vars => Inv'
    <2> SUFFICES ASSUME TypeOK, ReplicationInv, AckInv, TrailInv, [Next]_vars PROVE Inv'
      OBVIOUS
    <2>1. TypeOK' /\ ReplicationInv'
      BY InductiveStep
    <2> QED
      BY <2>1, AckStep, TrailStep
  <1>3. Inv => PeerCommitsLeaderEntries
    <2> SUFFICES ASSUME Inv, NEW p \in Peers PROVE LeaderPrefix(p, commit_index[p])
      BY DEF PeerCommitsLeaderEntries
    <2>1. LeaderPrefix(p, Len(log[p])) /\ commit_index[p] <= Len(log[p])
      BY DEF TrailInv
    <2>2. commit_index[p] \in Nat /\ Len(log[p]) \in Nat
      BY LogFacts, NodesFacts
    <2>3. \A i \in 1..commit_index[p] : i \in 1..Len(log[p])
      BY <2>1, <2>2
    <2> QED
      BY <2>1, <2>3 DEF LeaderPrefix
  <1> QED
    BY <1>1, <1>2, <1>3, PTL DEF Spec

=============================================================================
