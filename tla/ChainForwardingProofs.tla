----------------------- MODULE ChainForwardingProofs -----------------------
(***************************************************************************)
(* Forwarding along the chain: the count of forwards in flight, and the    *)
(* agreement of the follower with the leader, for any number of mentors,   *)
(* forwards, bindings, lost calls and terms.                               *)
(***************************************************************************)
EXTENDS ChainForwarding, SequenceTheorems, FiniteSetTheorems, WellFoundedInduction, TLAPS

(***************************************************************************)
(* Least and greatest elements.                                            *)
(***************************************************************************)

LEMMA MinFacts ==
    ASSUME NEW T, T \subseteq Nat, T # {}
    PROVE  Min(T) \in T /\ \A y \in T : Min(T) <= y
  <1>1. IsWellFoundedOn(OpToRel(<, Nat), Nat)
    BY NatLessThanWellFounded
  <1>2. PICK x \in T : \A y \in T : ~(<<y, x>> \in OpToRel(<, Nat))
    <2> HIDE DEF OpToRel
    <2> QED
      BY <1>1, WFMin
  <1>3. \A y \in T : ~(y < x)
    BY <1>2 DEF OpToRel
  <1>4. \A y \in T : x <= y
    BY <1>3, SMT
  <1> QED
    BY <1>4 DEF Min

\* A finite set of numbers has a greatest one: a smallest counterexample would have one
\* after the removal of any of its elements.
LEMMA MaxFacts ==
    ASSUME NEW T, T \subseteq Nat, T # {}, IsFiniteSet(T)
    PROVE  Max(T) \in T /\ \A y \in T : Max(T) >= y
  <1> DEFINE HasMax(U) == \E x \in U : \A y \in U : x >= y
             Bad == {U \in SUBSET T : U # {} /\ ~HasMax(U)}
             Sizes == {Cardinality(U) : U \in Bad}
  <1>1. \A U \in SUBSET T : IsFiniteSet(U) /\ Cardinality(U) \in Nat
    BY FS_Subset, FS_CardinalityType
  <1>2. Bad = {}
    <2>1. SUFFICES ASSUME Bad # {} PROVE FALSE
      OBVIOUS
    <2>2. Sizes \subseteq Nat /\ Sizes # {}
      BY <1>1, <2>1
    <2>3. Min(Sizes) \in Sizes /\ \A k \in Sizes : Min(Sizes) <= k
      <3> HIDE DEF Sizes
      <3> QED
        BY <2>2, MinFacts
    <2>4. PICK U \in Bad : Cardinality(U) = Min(Sizes)
      BY <2>3
    <2>5. U \in SUBSET T /\ U # {} /\ ~HasMax(U) /\ IsFiniteSet(U) /\ Cardinality(U) \in Nat
      BY <2>4, <1>1
    <2>6. PICK x \in U : TRUE
      BY <2>5
    <2> DEFINE V == U \ {x}
    <2>7. Cardinality(V) = Cardinality(U) - 1
      BY <2>5, <2>6, FS_RemoveElement
    <2>8. V \notin Bad
      <3>1. V \in Bad => Cardinality(V) \in Sizes
        OBVIOUS
      <3> HIDE DEF Sizes, V, Bad
      <3> QED
        BY <3>1, <2>3, <2>4, <2>5, <2>7
    <2>9. CASE V = {}
      <3>1. U = {x}
        BY <2>9, <2>6
      <3> QED
        BY <3>1, <2>5, <2>6
    <2>10. CASE V # {}
      <3>1. HasMax(V)
        BY <2>5, <2>8, <2>10
      <3>2. PICK y \in V : \A z \in V : y >= z
        BY <3>1
      <3>3. x \in Nat /\ y \in Nat /\ \A z \in U : z = x \/ z \in V
        BY <2>5, <2>6, <3>2
      <3>4. HasMax(U)
        <4>1. CASE x >= y
          <5>1. \A z \in U : x >= z
            BY <4>1, <3>2, <3>3, <2>5
          <5> QED
            BY <5>1, <2>6
        <4>2. CASE ~(x >= y)
          <5>1. \A z \in U : y >= z
            BY <4>2, <3>2, <3>3, <2>5
          <5> QED
            BY <5>1, <3>2
        <4> QED
          BY <4>1, <4>2
      <3> QED
        BY <3>4, <2>5
    <2> QED
      BY <2>9, <2>10
  <1>3. HasMax(T)
    BY <1>2
  <1> QED
    BY <1>3 DEF Max

(***************************************************************************)
(* Logs.                                                                   *)
(***************************************************************************)

Logs == Seq(Nat \ {0})

\* l is an initial part of k, entry by entry.
Initial(l, k) == Len(l) <= Len(k) /\ \A i \in 1 .. Len(l) : l[i] = k[i]

\* The entries are those of k from prev + 1 on.
Piece(k, prev, entries) ==
    \A i \in 1 .. Len(entries) : prev + i <= Len(k) /\ entries[i] = k[prev + i]

LEMMA SeqFacts ==
    ASSUME NEW l \in Logs
    PROVE  /\ Len(l) \in Nat /\ DOMAIN l = 1 .. Len(l)
           /\ \A i \in 1 .. Len(l) : l[i] \in Nat \ {0}
  BY LenProperties, ElementOfSeq DEF Logs

LEMMA CutFacts ==
    ASSUME NEW l \in Logs, NEW a \in Nat \ {0}, NEW b \in Nat, b <= Len(l)
    PROVE  /\ SubSeq(l, a, b) \in Logs
           /\ Len(SubSeq(l, a, b)) = IF a <= b THEN b - a + 1 ELSE 0
           /\ \A i \in 1 .. b - a + 1 : SubSeq(l, a, b)[i] = l[a + i - 1]
  <1>1. \A i \in a .. b : l[i] \in Nat \ {0}
    BY SeqFacts
  <1> QED
    BY <1>1, SubSeqProperties DEF Logs

LEMMA PrefixFacts ==
    ASSUME NEW l \in Logs, NEW k \in Logs
    PROVE  IsPrefix(l, k) <=> Initial(l, k)
  <1>1. Len(l) \in Nat /\ Len(k) \in Nat
    BY SeqFacts
  <1>2. SubSeq(l, 1, Len(l)) = l
    BY SubSeqFull DEF Logs
  <1>3. ASSUME Len(l) <= Len(k)
        PROVE  SubSeq(l, 1, Len(l)) = SubSeq(k, 1, Len(l)) <=> \A i \in 1 .. Len(l) : l[i] = k[i]
    <2> DEFINE t == SubSeq(k, 1, Len(l))
    <2>1. t \in Logs /\ Len(t) = Len(l) /\ \A i \in 1 .. Len(l) : t[i] = k[i]
      <3>1. /\ t \in Logs /\ Len(t) = IF 1 <= Len(l) THEN Len(l) - 1 + 1 ELSE 0
            /\ \A i \in 1 .. Len(l) - 1 + 1 : t[i] = k[1 + i - 1]
        BY <1>1, <1>3, CutFacts
      <3> HIDE DEF t
      <3> QED
        BY <3>1, <1>1
    <2> HIDE DEF t
    <2>2. (\A i \in 1 .. Len(l) : l[i] = k[i]) => l = t
      BY <2>1, SeqEqual DEF Logs
    <2>3. l = t => \A i \in 1 .. Len(l) : l[i] = k[i]
      BY <2>1
    <2> QED
      BY <1>2, <2>2, <2>3 DEF t
  <1> QED
    BY <1>3 DEF IsPrefix, Initial

LEMMA AppendFacts ==
    ASSUME NEW l \in Logs, NEW e \in Nat \ {0}
    PROVE  /\ Append(l, e) \in Logs /\ Len(Append(l, e)) = Len(l) + 1
           /\ Initial(l, Append(l, e))
  <1>1. /\ Append(l, e) \in Logs /\ Len(Append(l, e)) = Len(l) + 1
        /\ \A i \in 1 .. Len(l) : Append(l, e)[i] = l[i]
    BY AppendProperties DEF Logs
  <1> QED
    BY <1>1, SeqFacts DEF Initial

LEMMA PartFacts ==
    ASSUME NEW l \in Logs, NEW first \in Nat \ {0}
    PROVE  Part(l, first, Batch) \in Logs /\ Piece(l, first - 1, Part(l, first, Batch))
  <1> DEFINE b == Smaller(first + Batch - 1, Len(l))
             part == SubSeq(l, first, b)
  <1>1. b \in Nat /\ b <= Len(l)
    BY ChainAssumption, SeqFacts DEF Smaller
  <1>2. /\ part \in Logs
        /\ Len(part) = IF first <= b THEN b - first + 1 ELSE 0
        /\ \A i \in 1 .. b - first + 1 : part[i] = l[first + i - 1]
    <2> HIDE DEF b
    <2> QED
      BY <1>1, CutFacts
  <1>3. Part(l, first, Batch) = part
    BY DEF Part
  <1> HIDE DEF b, part
  <1>4. Len(l) \in Nat /\ Len(part) \in Nat
    BY <1>2, SeqFacts
  <1>5. ASSUME NEW i \in 1 .. Len(part)
        PROVE  (first - 1) + i <= Len(l) /\ part[i] = l[(first - 1) + i]
    <2>1. i \in 1 .. b - first + 1 /\ i \in Nat
      BY <1>1, <1>2, <1>4, <1>5
    <2>2. first + i - 1 = (first - 1) + i
      BY <2>1
    <2> QED
      BY <2>1, <2>2, <1>1, <1>2, <1>4
  <1> QED
    BY <1>2, <1>3, <1>5 DEF Piece

\* What is stored of a request: a log; and, if the log is an initial part of the leader's
\* and the entries are the leader's, a longer initial part of it.
LEMMA StoreFacts ==
    ASSUME NEW l \in Logs, NEW entries \in Logs, NEW prev \in Nat, prev <= Len(l)
    PROVE  /\ Store(l, prev, entries) \in Logs
           /\ \A k \in Logs : Initial(l, k) /\ Piece(k, prev, entries) =>
                 /\ Initial(Store(l, prev, entries), k)
                 /\ Len(Store(l, prev, entries)) >= Len(l)
  <1> DEFINE new == {i \in DOMAIN entries : prev + i > Len(l) \/ l[prev + i] # entries[i]}
  <1>1. CASE new = {}
    <2>1. Store(l, prev, entries) = l
      BY <1>1 DEF Store
    <2> QED
      BY <2>1, SeqFacts
  <1>2. CASE new # {}
    <2> DEFINE n == Min(new)
               head == SubSeq(l, 1, prev + n - 1)
               tail == SubSeq(entries, n, Len(entries))
    <2>1. /\ Len(l) \in Nat /\ Len(entries) \in Nat /\ DOMAIN entries = 1 .. Len(entries)
          /\ \A i \in 1 .. Len(l) : l[i] \in Nat \ {0}
      BY SeqFacts
    <2>2. n \in new /\ \A y \in new : n <= y
      <3>1. new \subseteq Nat
        BY <2>1
      <3> HIDE DEF new
      <3> QED
        BY <3>1, <1>2, MinFacts
    <2>3. n \in 1 .. Len(entries) /\ n \in Nat \ {0}
      <3> HIDE DEF n
      <3> QED
        BY <2>1, <2>2
    <2> HIDE DEF n
    <2>4. prev + n - 1 <= Len(l) /\ prev + n - 1 \in Nat
      <3>1. CASE n = 1
        BY <3>1, <2>1
      <3>2. CASE n # 1
        <4>1. n - 1 \in 1 .. Len(entries) /\ n - 1 \notin new
          <5>1. n - 1 \in new => n <= n - 1
            <6> HIDE DEF new
            <6> QED
              BY <2>2
          <5> QED
            BY <5>1, <3>2, <2>1, <2>3
        <4>2. ~(prev + (n - 1) > Len(l))
          BY <4>1, <2>1
        <4> QED
          BY <4>2, <2>1, <2>3
      <3> QED
        BY <3>1, <3>2
    <2>5. /\ head \in Logs /\ Len(head) = prev + n - 1
          /\ \A i \in 1 .. prev + n - 1 : head[i] = l[i]
      <3> DEFINE b == prev + n - 1
      <3>1. /\ SubSeq(l, 1, b) \in Logs /\ Len(SubSeq(l, 1, b)) = IF 1 <= b THEN b - 1 + 1 ELSE 0
            /\ \A i \in 1 .. b - 1 + 1 : SubSeq(l, 1, b)[i] = l[1 + i - 1]
        BY <2>4, CutFacts
      <3>2. b \in Nat
        BY <2>4
      <3> HIDE DEF b
      <3>3. /\ SubSeq(l, 1, b) \in Logs /\ Len(SubSeq(l, 1, b)) = b
            /\ \A i \in 1 .. b : SubSeq(l, 1, b)[i] = l[i]
        BY <3>1, <3>2
      <3> QED
        BY <3>3 DEF b
    <2>6. /\ tail \in Logs /\ Len(tail) = Len(entries) - n + 1
          /\ \A i \in 1 .. Len(entries) - n + 1 : tail[i] = entries[n + i - 1]
      BY <2>1, <2>3, CutFacts
    <2> HIDE DEF head, tail
    <2>7. /\ head \o tail \in Logs /\ Len(head \o tail) = Len(head) + Len(tail)
          /\ \A i \in 1 .. Len(head) + Len(tail) :
                (head \o tail)[i] = IF i <= Len(head) THEN head[i] ELSE tail[i - Len(head)]
      BY <2>5, <2>6, ConcatProperties DEF Logs
    <2>8. Store(l, prev, entries) = head \o tail
      BY <1>2 DEF Store, head, tail, n
    <2> DEFINE new2 == head \o tail
    <2>9. Len(new2) = prev + Len(entries)
      BY <2>1, <2>3, <2>4, <2>5, <2>6, <2>7
    <2>10. ASSUME NEW k \in Logs, Initial(l, k), Piece(k, prev, entries)
           PROVE  Initial(new2, k) /\ Len(new2) >= Len(l)
      <3>1. Len(k) \in Nat
        BY SeqFacts
      <3>2. prev + n > Len(l)
        <4>1. CASE prev + n <= Len(l)
          <5>1. prev + n \in 1 .. Len(l) /\ l[prev + n] = k[prev + n] /\ entries[n] = k[prev + n]
            BY <4>1, <2>1, <2>3, <2>10 DEF Initial, Piece
          <5> QED
            BY <5>1, <2>1, <2>2, <4>1
        <4> QED
          BY <4>1, <2>1, <2>3
      <3>3. Len(new2) >= Len(l)
        BY <3>2, <2>1, <2>3, <2>9
      <3>4. Len(new2) <= Len(k)
        <4>1. prev + Len(entries) <= Len(k)
          BY <2>1, <2>3, <2>10 DEF Piece
        <4> QED
          BY <4>1, <2>9
      <3>5. ASSUME NEW i \in 1 .. Len(new2) PROVE new2[i] = k[i]
        <4>1. CASE i <= prev + n - 1
          <5>1. new2[i] = l[i] /\ i \in 1 .. Len(l)
            BY <4>1, <2>1, <2>3, <2>4, <2>5, <2>6, <2>7, <2>9
          <5> QED
            BY <5>1, <2>10 DEF Initial
        <4>2. CASE ~(i <= prev + n - 1)
          <5> DEFINE j == i - Len(head)
          <5>1. j \in 1 .. Len(entries) - n + 1 /\ new2[i] = tail[j]
            BY <4>2, <2>1, <2>3, <2>4, <2>5, <2>6, <2>7, <2>9
          <5>2. tail[j] = entries[n + j - 1] /\ n + j - 1 \in 1 .. Len(entries)
            BY <5>1, <2>1, <2>3, <2>6
          <5>3. prev + (n + j - 1) = i
            BY <2>3, <2>4, <2>5, <2>9, <2>1
          <5>4. entries[n + j - 1] = k[prev + (n + j - 1)]
            <6> HIDE DEF j
            <6> QED
              BY <5>2, <2>10 DEF Piece
          <5> QED
            BY <5>1, <5>2, <5>3, <5>4
        <4> QED
          BY <4>1, <4>2
      <3> QED
        BY <3>3, <3>4, <3>5 DEF Initial
    <2> QED
      BY <2>7, <2>8, <2>10
  <1> QED
    BY <1>1, <1>2

(***************************************************************************)
(* Type correctness.                                                       *)
(***************************************************************************)

LEMMA NodeFacts ==
    /\ Leader \in Nodes /\ Follower \in Nodes /\ Mentors \subseteq Nodes
    /\ Mentors \subseteq Peers /\ Follower \in Peers /\ Leader \notin Peers
    /\ Peers \subseteq Nodes /\ IsFiniteSet(Peers)
    /\ Leader # Follower /\ Leader \notin Mentors /\ Follower \notin Mentors
    /\ IsFiniteSet(Nodes) /\ Cardinality(Nodes) \in Nat /\ QuorumSize \in Nat
  <1>1. IsFiniteSet({Leader}) /\ IsFiniteSet({Follower})
    BY FS_Singleton
  <1>2. IsFiniteSet(Peers)
    BY <1>1, FS_Union, ChainAssumption DEF Peers
  <1>3. IsFiniteSet(Nodes)
    BY <1>1, <1>2, FS_Union DEF Nodes
  <1>4. Cardinality(Nodes) \in Nat
    BY <1>3, FS_CardinalityType
  <1> QED
    BY <1>2, <1>3, <1>4, ChainAssumption DEF Nodes, Peers, QuorumSize

LEMMA StateFacts ==
    ASSUME TypeOK
    PROVE  /\ \A n \in Nodes : log[n] \in Logs /\ Len(log[n]) \in Nat /\ term[n] \in Nat
           /\ term[Leader] \in Nat \ {0}
           /\ commit[Leader] \in Nat /\ commit[Follower] \in Nat
           /\ \A p \in Peers : match[p] \in Nat
           /\ \A m \in Mentors : progress[m] \in Progress
           /\ \A s \in Slots : call[s] \in CallState
  BY NodeFacts, SeqFacts DEF TypeOK, Logs

LEMMA SlotFacts ==
    ASSUME TypeOK, NEW s \in Slots
    PROVE  LET c == call[s] IN
           /\ c \in CallState
           /\ c.prev \in Nat /\ c.prevTerm \in Nat /\ c.entries \in Logs /\ c.term \in Nat
           /\ c.commit \in Nat
           /\ c.answer \in [success: BOOLEAN, match: Nat, conflict: Nat, term: Nat]
           /\ c.pc # "none" => c.from \in Mentors
           /\ c.at \in {"net", "store", "done"} => c.pc # "none" /\ c.from \in Mentors
  BY DEF TypeOK, CallState, Logs

\* The shapes a slot may take.
LEMMA FreeFacts ==
    /\ Free \in CallState /\ Free.pc = "none" /\ Free.at = "none"
    /\ Free.entries = <<>> /\ Free.commit = 0
  <1>1. NoAnswer \in [success: BOOLEAN, match: Nat, conflict: Nat, term: Nat]
    BY DEF NoAnswer
  <1>2. <<>> \in Seq(Nat \ {0})
    OBVIOUS
  <1> QED
    BY <1>1, <1>2 DEF Free, CallState

LEMMA BriefFacts ==
    ASSUME TypeOK, NEW s \in Slots
    PROVE  LET c == Brief(call[s]) IN
           /\ c \in CallState /\ c.pc = call[s].pc /\ c.from = call[s].from /\ c.at = "none"
           /\ c.prev = call[s].prev /\ c.entries = <<>> /\ c.commit = 0
  BY FreeFacts, SlotFacts DEF Brief, CallState, Free

\* A step that changes one slot.
LEMMA OneSlot ==
    ASSUME TypeOK, NEW s \in Slots, NEW c \in CallState, call' = [call EXCEPT ![s] = c],
           c.pc # "none" => c.from \in Mentors,
           c.at \in {"net", "store", "done"} => c.pc # "none"
    PROVE  /\ call' \in [Slots -> CallState] /\ call'[s] = c
           /\ \A t \in Slots \ {s} : call'[t] = call[t]
           /\ \A t \in Slots : call'[t].pc # "none" => call'[t].from \in Mentors
           /\ \A t \in Slots : call'[t].at \in {"net", "store", "done"} => call'[t].pc # "none"
  <1>1. call \in [Slots -> CallState]
    BY DEF TypeOK
  <1>2. call' \in [Slots -> CallState] /\ \A t \in Slots : call'[t] = IF t = s THEN c ELSE call[t]
    BY <1>1
  <1> QED
    BY <1>2 DEF TypeOK

LEMMA EndFacts ==
    ASSUME TypeOK, NEW s \in Slots, End(s)
    PROVE  /\ call' \in [Slots -> CallState] /\ call'[s] = Free
           /\ \A t \in Slots \ {s} : call'[t] = call[t]
           /\ \A t \in Slots : call'[t].pc # "none" => call'[t].from \in Mentors
           /\ \A t \in Slots : call'[t].at \in {"net", "store", "done"} => call'[t].pc # "none"
  BY FreeFacts, OneSlot DEF End

LEMMA AnswerFacts ==
    ASSUME TypeOK, NEW s \in Slots, NEW success \in BOOLEAN, NEW matched \in Nat,
           NEW conflict \in Nat, NEW t \in Nat, call[s].pc # "none",
           Answer(s, success, matched, conflict, t)
    PROVE  /\ call' \in [Slots -> CallState]
           /\ call'[s].pc = (IF call[s].pc = "gone" THEN "none" ELSE call[s].pc)
           /\ call[s].pc # "gone" => call'[s].from = call[s].from
           /\ call'[s].at \in {"none", "done"}
           /\ call'[s].entries = <<>> /\ call'[s].commit = 0
           /\ \A u \in Slots \ {s} : call'[u] = call[u]
           /\ \A u \in Slots : call'[u].pc # "none" => call'[u].from \in Mentors
           /\ \A u \in Slots : call'[u].at \in {"net", "store", "done"} => call'[u].pc # "none"
  <1> DEFINE answer == [success |-> success, match |-> matched, conflict |-> conflict, term |-> t]
             b == Brief(call[s])
             c == [b EXCEPT !.at = "done", !.answer = answer]
  <1>1. CASE call[s].pc = "gone"
    <2>1. call' = [call EXCEPT ![s] = Free]
      BY <1>1 DEF Answer, TypeOK
    <2> QED
      BY <1>1, <2>1, FreeFacts, OneSlot
  <1>2. CASE call[s].pc # "gone"
    <2>1. call' = [call EXCEPT ![s] = c]
      BY <1>2 DEF Answer, TypeOK
    <2>2. /\ b \in CallState /\ b.pc = call[s].pc /\ b.from = call[s].from
          /\ b.entries = <<>> /\ b.commit = 0
      BY BriefFacts
    <2>3. answer \in [success: BOOLEAN, match: Nat, conflict: Nat, term: Nat]
      OBVIOUS
    <2> HIDE DEF b, answer
    <2>4. /\ c \in CallState /\ c.pc = call[s].pc /\ c.from = call[s].from /\ c.at = "done"
          /\ c.entries = <<>> /\ c.commit = 0
      BY <2>2, <2>3 DEF CallState
    <2>5. call[s].from \in Mentors
      BY SlotFacts
    <2> HIDE DEF c
    <2> QED
      BY <1>2, <2>1, <2>4, <2>5, OneSlot
  <1> QED
    BY <1>1, <1>2

LEMMA InitTypes == Init => TypeOK
  <1> SUFFICES ASSUME Init PROVE TypeOK
    OBVIOUS
  <1> USE ChainAssumption, NodeFacts
  <1>2. log \in [Nodes -> Seq(Nat \ {0})]
    BY DEF Init
  <1>3. clean \in BOOLEAN /\ astray \subseteq Mentors
    BY DEF Init, IsPrefix
  <1>4. term \in [Nodes -> Nat \ {0}]
    <2> DEFINE k == log[Leader]
    <2>1. k \in Seq(Nat \ {0})
      BY <1>2
    <2> HIDE DEF k
    <2>2. k # <<>> => Last(k) \in Nat \ {0}
      BY <2>1, LenProperties, ElementOfSeq, EmptySeq DEF Last
    <2> QED
      BY <2>2 DEF Init, k
  <1>5. progress \in [Mentors -> Progress]
    BY DEF Init, FreshProgress, Progress
  <1>6. call \in [Slots -> CallState] /\ \A s \in Slots : call[s] = Free
    BY FreeFacts DEF Init
  <1> QED
    BY <1>2, <1>3, <1>4, <1>5, <1>6, FreeFacts DEF Init, TypeOK

LEMMA TypePropose == TypeOK /\ Propose => TypeOK'
  <1> SUFFICES ASSUME TypeOK, Propose PROVE TypeOK'
    OBVIOUS
  <1>1. Append(log[Leader], term[Leader]) \in Logs
    BY StateFacts, NodeFacts, AppendFacts
  <1>2. log' \in [Nodes -> Seq(Nat \ {0})]
    BY <1>1, NodeFacts DEF Propose, TypeOK, Logs
  <1> QED
    BY <1>2 DEF TypeOK, Propose, leaderVars

\* What MaybeCommit commits: an index that enough nodes hold.
LEMMA CommitFacts ==
    ASSUME TypeOK, MaybeCommit
    PROVE  \E i \in commit[Leader] + 1 .. Len(log[Leader]) :
              /\ Cardinality(Holders(i)) >= QuorumSize
              /\ commit' = [commit EXCEPT ![Leader] = i]
  <1> DEFINE S == {i \in commit[Leader] + 1 .. Len(log[Leader]) :
                    log[Leader][i] = term[Leader] /\ Cardinality(Holders(i)) >= QuorumSize}
  <1>1. S # {} /\ commit' = [commit EXCEPT ![Leader] = Max(S)]
    BY DEF MaybeCommit
  <1>2. S \subseteq Nat /\ IsFiniteSet(S)
    <2>1. commit[Leader] + 1 \in Int /\ Len(log[Leader]) \in Int
      BY StateFacts, NodeFacts
    <2>2. IsFiniteSet(commit[Leader] + 1 .. Len(log[Leader]))
      BY <2>1, FS_Interval
    <2>3. S \subseteq commit[Leader] + 1 .. Len(log[Leader])
      OBVIOUS
    <2>4. commit[Leader] + 1 .. Len(log[Leader]) \subseteq Nat
      BY StateFacts, NodeFacts
    <2> HIDE DEF S
    <2> QED
      BY <2>2, <2>3, <2>4, FS_Subset
  <1>3. Max(S) \in S
    <2> HIDE DEF S
    <2> QED
      BY <1>1, <1>2, MaxFacts
  <1> QED
    BY <1>1, <1>3

LEMMA TypeMaybeCommit == TypeOK /\ MaybeCommit => TypeOK'
  <1> SUFFICES ASSUME TypeOK, MaybeCommit PROVE TypeOK'
    OBVIOUS
  <1>1. commit' \in [{Leader, Follower} -> Nat]
    <2>1. PICK i \in commit[Leader] + 1 .. Len(log[Leader]) : commit' = [commit EXCEPT ![Leader] = i]
      BY CommitFacts
    <2>2. i \in Nat
      BY StateFacts, NodeFacts
    <2> QED
      BY <2>1, <2>2 DEF TypeOK
  <1> QED
    BY <1>1 DEF TypeOK, MaybeCommit, leaderVars

\* What a mentor's or the follower's log becomes when it takes a part of the leader's.
LEMMA TakeFacts ==
    ASSUME TypeOK, NEW n \in Nodes, NEW prev \in Nat, prev <= Len(log[Leader]), NEW t,
           Matches(log[n], prev, t)
    PROVE  LET entries == Part(log[Leader], prev + 1, Batch)
               l == Store(log[n], prev, entries)
           IN  /\ l \in Logs /\ Len(l) \in Nat
               /\ Initial(log[n], log[Leader]) =>
                     Initial(l, log[Leader]) /\ Len(l) >= Len(log[n])
  <1> DEFINE entries == Part(log[Leader], prev + 1, Batch)
  <1>1. log[Leader] \in Logs /\ log[n] \in Logs /\ prev <= Len(log[n])
    BY StateFacts, NodeFacts DEF Matches
  <1>2. entries \in Logs /\ Piece(log[Leader], prev, entries)
    <2>1. prev + 1 \in Nat \ {0} /\ (prev + 1) - 1 = prev
      OBVIOUS
    <2> QED
      BY <2>1, <1>1, PartFacts
  <1> HIDE DEF entries
  <1>3. /\ Store(log[n], prev, entries) \in Logs
        /\ Initial(log[n], log[Leader]) =>
               /\ Initial(Store(log[n], prev, entries), log[Leader])
               /\ Len(Store(log[n], prev, entries)) >= Len(log[n])
    BY <1>1, <1>2, StoreFacts
  <1> QED
    BY <1>3, SeqFacts DEF entries

\* What a mentor forgets: nothing, or the progress of its follower, and then it is among
\* the reset ones if calls wait on.
LEMMA BecomeFollowerFacts ==
    ASSUME TypeOK, NEW m \in Mentors, NEW t \in Nat, NEW rest, BecomeFollower(m, t, rest)
    PROVE  /\ term' \in [Nodes -> Nat] /\ term'[Leader] # 0
           /\ progress' \in [Mentors -> Progress] /\ reset' \subseteq Mentors
           /\ \/ progress' = progress /\ reset' = reset
              \/ /\ progress' = [progress EXCEPT ![m] = FreshProgress]
                 /\ reset' = (IF rest = {} THEN reset \ {m} ELSE reset \union {m})
           /\ t > term[m] =>
                 /\ progress' = [progress EXCEPT ![m] = FreshProgress]
                 /\ reset' = (IF rest = {} THEN reset \ {m} ELSE reset \union {m})
  <1>1. term' \in [Nodes -> Nat] /\ term'[Leader] # 0
    BY NodeFacts DEF TypeOK, BecomeFollower
  <1>2. FreshProgress \in Progress
    BY DEF FreshProgress, Progress
  <1>3. term[m] \in Nat
    BY NodeFacts DEF TypeOK
  <1>4. CASE t > term[m]
    <2>1. progress' = [progress EXCEPT ![m] = FreshProgress]
      BY <1>4 DEF BecomeFollower
    <2>2. reset' = (IF rest = {} THEN reset \ {m} ELSE reset \union {m})
      BY <1>3, <1>4 DEF BecomeFollower
    <2>3. progress' \in [Mentors -> Progress] /\ reset' \subseteq Mentors
      BY <1>2, <2>1, <2>2 DEF TypeOK
    <2> QED
      BY <1>1, <2>1, <2>2, <2>3
  <1>5. CASE ~(t > term[m])
    <2>1. progress' = progress
      BY <1>5 DEF BecomeFollower
    <2>2. reset' = reset
      BY <1>3, <1>5 DEF BecomeFollower
    <2>3. progress' \in [Mentors -> Progress] /\ reset' \subseteq Mentors
      BY <2>1, <2>2 DEF TypeOK
    <2> QED
      BY <1>1, <1>5, <2>1, <2>2, <2>3
  <1> QED
    BY <1>4, <1>5

LEMMA TypeReceive ==
    ASSUME NEW m \in Mentors, NEW s \in Slots PROVE TypeOK /\ Receive(m, s) => TypeOK'
  <1> SUFFICES ASSUME TypeOK, Receive(m, s) PROVE TypeOK'
    OBVIOUS
  <1>1. PICK prev \in 0 .. Len(log[Leader]) - 1 :
            LET entries == Part(log[Leader], prev + 1, Batch)
                l == Store(log[m], prev, entries)
            IN  /\ Matches(log[m], prev, IF prev = 0 THEN 0 ELSE log[Leader][prev])
                /\ log' = [log EXCEPT ![m] = l]
                /\ match' = [match EXCEPT ![m] = Larger(@, Len(l))]
    BY DEF Receive
  <1>2. prev \in Nat /\ prev <= Len(log[Leader]) /\ m \in Nodes /\ m \in Peers
    BY StateFacts, NodeFacts
  <1> DEFINE l == Store(log[m], prev, Part(log[Leader], prev + 1, Batch))
  <1>21. l \in Logs /\ Len(l) \in Nat
    BY <1>1, <1>2, TakeFacts
  <1>22. log' = [log EXCEPT ![m] = l] /\ match' = [match EXCEPT ![m] = Larger(@, Len(l))]
    BY <1>1
  <1> HIDE DEF l
  <1>3. log' \in [Nodes -> Seq(Nat \ {0})] /\ match' \in [Peers -> Nat]
    <2>1. Larger(match[m], Len(l)) \in Nat
      BY <1>2, <1>21, StateFacts DEF Larger
    <2> QED
      BY <2>1, <1>21, <1>22 DEF TypeOK, Logs
  <1>4. /\ term' \in [Nodes -> Nat] /\ term'[Leader] # 0
        /\ progress' \in [Mentors -> Progress] /\ reset' \subseteq Mentors
    BY BecomeFollowerFacts, StateFacts DEF Receive
  <1> DEFINE c == [Free EXCEPT !.pc = "begin", !.at = "sender", !.from = m]
  <1>5. c \in CallState /\ c.pc = "begin" /\ c.at = "sender" /\ c.from = m
    BY FreeFacts DEF CallState
  <1>6. call' = [call EXCEPT ![s] = c]
    BY DEF Receive
  <1> HIDE DEF c
  <1>7. /\ call' \in [Slots -> CallState]
        /\ \A t \in Slots : call'[t].pc # "none" => call'[t].from \in Mentors
        /\ \A t \in Slots : call'[t].at \in {"net", "store", "done"} => call'[t].pc # "none"
    BY <1>5, <1>6, OneSlot
  <1> QED
    BY <1>3, <1>4, <1>7 DEF TypeOK, Receive

LEMMA TypeHeartbeats ==
    TypeOK /\ (HeartbeatFollower \/ \E m \in Mentors : HeartbeatMentor(m) \/ MentorRefuses(m))
        => TypeOK'
  <1>1. ASSUME TypeOK, NEW m \in Mentors, HeartbeatMentor(m) PROVE TypeOK'
    <2>1. /\ term' \in [Nodes -> Nat] /\ term'[Leader] # 0
          /\ progress' \in [Mentors -> Progress] /\ reset' \subseteq Mentors
      BY <1>1, BecomeFollowerFacts, StateFacts DEF HeartbeatMentor
    <2>2. serves' \subseteq Mentors
      BY <1>1 DEF TypeOK, HeartbeatMentor
    <2> QED
      BY <1>1, <2>1, <2>2 DEF TypeOK, HeartbeatMentor, leaderVars
  <1>2. ASSUME TypeOK, NEW m \in Mentors, MentorRefuses(m) PROVE TypeOK'
    <2>1. term' \in [Nodes -> Nat] /\ term'[Leader] # 0 /\ leading' = FALSE
      BY <1>2, StateFacts, NodeFacts DEF TypeOK, MentorRefuses
    <2> QED
      BY <1>2, <2>1 DEF TypeOK, MentorRefuses
  <1>3. ASSUME TypeOK, HeartbeatFollower PROVE TypeOK'
    <2>1. CASE term[Follower] > term[Leader]
      <3>1. term' \in [Nodes -> Nat] /\ term'[Leader] # 0 /\ leading' = FALSE /\ UNCHANGED commit
        BY <1>3, <2>1, StateFacts, NodeFacts DEF TypeOK, HeartbeatFollower
      <3> QED
        BY <1>3, <3>1 DEF TypeOK, HeartbeatFollower
    <2>2. CASE ~(term[Follower] > term[Leader])
      <3>1. term' \in [Nodes -> Nat] /\ term'[Leader] # 0 /\ UNCHANGED leading
        BY <1>3, <2>2, StateFacts, NodeFacts DEF TypeOK, HeartbeatFollower
      <3>2. Larger(commit[Follower], Smaller(commit[Leader], Len(log[Follower]))) \in Nat
        BY <1>3, StateFacts, NodeFacts DEF Larger, Smaller
      <3>3. commit' \in [{Leader, Follower} -> Nat]
        BY <1>3, <2>2, <3>2 DEF TypeOK, HeartbeatFollower
      <3> QED
        BY <1>3, <3>1, <3>3 DEF TypeOK, HeartbeatFollower
    <2> QED
      BY <2>1, <2>2
  <1> QED
    BY <1>1, <1>2, <1>3

LEMMA TypeReplicateDirectly == TypeOK /\ ReplicateDirectly => TypeOK'
  <1> SUFFICES ASSUME TypeOK, ReplicateDirectly PROVE TypeOK'
    OBVIOUS
  <1>1. PICK prev \in match[Follower] .. Len(log[Leader]) :
            LET entries == Part(log[Leader], prev + 1, Batch)
                l == Store(log[Follower], prev, entries)
            IN  /\ Matches(log[Follower], prev, IF prev = 0 THEN 0 ELSE log[Leader][prev])
                /\ log' = [log EXCEPT ![Follower] = l]
                /\ commit' = [commit EXCEPT ![Follower] = Larger(@, Smaller(commit[Leader], Len(l)))]
                /\ ack' = Len(l)
    BY DEF ReplicateDirectly
  <1> DEFINE l == Store(log[Follower], prev, Part(log[Leader], prev + 1, Batch))
  <1>2. l \in Logs /\ Len(l) \in Nat
    <2>1. prev \in Nat /\ prev <= Len(log[Leader])
      BY StateFacts, NodeFacts
    <2> QED
      BY <1>1, <2>1, TakeFacts, NodeFacts
  <1>3. /\ log' = [log EXCEPT ![Follower] = l] /\ ack' = Len(l)
        /\ commit' = [commit EXCEPT ![Follower] = Larger(@, Smaller(commit[Leader], Len(l)))]
    BY <1>1
  <1> HIDE DEF l
  <1>4. log' \in [Nodes -> Seq(Nat \ {0})] /\ ack' \in Nat
    BY <1>2, <1>3, NodeFacts DEF TypeOK, Logs
  <1>5. commit' \in [{Leader, Follower} -> Nat]
    <2>1. Larger(commit[Follower], Smaller(commit[Leader], Len(l))) \in Nat
      BY <1>2, StateFacts DEF Larger, Smaller
    <2> QED
      BY <1>3, <2>1 DEF TypeOK
  <1>6. term' \in [Nodes -> Nat] /\ term'[Leader] # 0 /\ direct' \in Nat
    BY StateFacts, NodeFacts DEF TypeOK, ReplicateDirectly
  <1> QED
    BY <1>4, <1>5, <1>6 DEF TypeOK, ReplicateDirectly

LEMMA TypeElections ==
    TypeOK /\ (DirectAnswer \/ Rebind \/ FollowerCampaigns \/ BecomeLeader) => TypeOK'
  <1>1. ASSUME TypeOK, DirectAnswer PROVE TypeOK'
    <2>1. match' \in [Peers -> Nat] /\ ack' = None
      <3>1. Larger(match[Follower], ack) \in Nat
        BY <1>1, StateFacts, NodeFacts DEF TypeOK, DirectAnswer, Larger
      <3> QED
        BY <1>1, <3>1 DEF TypeOK, DirectAnswer
    <2> QED
      BY <1>1, <2>1 DEF TypeOK, DirectAnswer
  <1>2. ASSUME TypeOK, Rebind PROVE TypeOK'
    <2>1. bind' \in Mentors \union {Leader} /\ faults' \in Nat
      BY <1>2 DEF TypeOK, Rebind
    <2> QED
      BY <1>2, <2>1 DEF TypeOK, Rebind
  <1>3. ASSUME TypeOK, FollowerCampaigns PROVE TypeOK'
    <2>1. term' \in [Nodes -> Nat] /\ term'[Leader] # 0 /\ faults' \in Nat
      BY <1>3, StateFacts, NodeFacts DEF TypeOK, FollowerCampaigns
    <2> QED
      BY <1>3, <2>1 DEF TypeOK, FollowerCampaigns, leaderVars
  <1>4. ASSUME TypeOK, BecomeLeader PROVE TypeOK'
    <2> DEFINE T == {term[n] : n \in Nodes}
               t == Max(T) + 1
    <2>1. T \subseteq Nat /\ T # {} /\ IsFiniteSet(T)
      <3>1. T \subseteq Nat /\ T # {}
        BY <1>4, StateFacts, NodeFacts
      <3> DEFINE f == [n \in Nodes |-> term[n]]
      <3>2. f \in Surjection(Nodes, T)
        BY DEF Surjection
      <3> HIDE DEF T, f
      <3> QED
        BY <3>1, <3>2, FS_Surjection, NodeFacts
    <2>2. t \in Nat \ {0}
      <3>1. Max(T) \in Nat
        <4> HIDE DEF T
        <4> QED
          BY <2>1, MaxFacts
      <3> QED
        BY <3>1
    <2>3. term' = [term EXCEPT ![Leader] = t] /\ log' = [log EXCEPT ![Leader] = Append(@, t)]
      BY <1>4 DEF BecomeLeader
    <2> HIDE DEF t
    <2>4. term' \in [Nodes -> Nat] /\ term'[Leader] # 0
      BY <1>4, <2>2, <2>3, NodeFacts DEF TypeOK
    <2>5. log' \in [Nodes -> Seq(Nat \ {0})]
      <3>1. Append(log[Leader], t) \in Logs
        BY <1>4, <2>2, StateFacts, NodeFacts, AppendFacts
      <3> QED
        BY <1>4, <2>3, <3>1, NodeFacts DEF TypeOK, Logs
    <2>6. match' \in [Peers -> Nat]
      BY <1>4 DEF BecomeLeader
    <2> QED
      BY <1>4, <2>4, <2>5, <2>6 DEF TypeOK, BecomeLeader
  <1> QED
    BY <1>1, <1>2, <1>3, <1>4

(***************************************************************************)
(* The steps of a forward.                                                 *)
(***************************************************************************)

\* What ForwardBegin does to the call: it ends, or takes a part of the mentor's log.
LEMMA BeginFacts ==
    ASSUME TypeOK, NEW s \in Slots, ForwardBegin(s)
    PROVE  \/ End(s)
           \/ \E prev \in Nat, entries \in Logs :
                /\ Piece(log[call[s].from], prev, entries)
                /\ call' = [call EXCEPT ![s] = [call[s] EXCEPT !.pc = "send", !.prev = prev,
                                                               !.entries = entries]]
  <1> DEFINE m == call[s].from
             next == IF progress[m].known THEN progress[m].next ELSE Len(log[m]) + 1
             entries == Part(log[m], next, Batch)
  <1>1. m \in Mentors /\ log[m] \in Logs /\ Len(log[m]) \in Nat
    BY SlotFacts, StateFacts, NodeFacts DEF ForwardBegin
  <1>2. next \in Nat \ {0}
    BY <1>1, StateFacts DEF Progress
  <1>3. \/ End(s)
        \/ call' = [call EXCEPT ![s] = [call[s] EXCEPT !.pc = "send", !.prev = next - 1,
                                                       !.entries = entries]]
    BY DEF ForwardBegin, TypeOK
  <1> HIDE DEF next, m
  <1>4. entries \in Logs /\ Piece(log[m], next - 1, entries) /\ next - 1 \in Nat
    BY <1>1, <1>2, PartFacts
  <1> HIDE DEF entries
  <1> QED
    BY <1>3, <1>4 DEF m

LEMMA TypeForwardBegin ==
    ASSUME NEW s \in Slots PROVE TypeOK /\ ForwardBegin(s) => TypeOK'
  <1> SUFFICES ASSUME TypeOK, ForwardBegin(s) PROVE TypeOK'
    OBVIOUS
  <1>1. /\ call' \in [Slots -> CallState]
        /\ \A t \in Slots : call'[t].pc # "none" => call'[t].from \in Mentors
        /\ \A t \in Slots : call'[t].at \in {"net", "store", "done"} => call'[t].pc # "none"
    <2>1. CASE End(s)
      BY <2>1, EndFacts
    <2>2. CASE ~End(s)
      <3>1. PICK prev \in Nat, entries \in Logs :
                call' = [call EXCEPT ![s] = [call[s] EXCEPT !.pc = "send", !.prev = prev,
                                                            !.entries = entries]]
        BY <2>2, BeginFacts
      <3> DEFINE c == [call[s] EXCEPT !.pc = "send", !.prev = prev, !.entries = entries]
      <3>2. c \in CallState /\ c.pc = "send" /\ c.from = call[s].from
        BY SlotFacts DEF CallState, Logs
      <3>3. c.from \in Mentors
        BY <3>2, SlotFacts DEF ForwardBegin
      <3>4. call' = [call EXCEPT ![s] = c]
        BY <3>1
      <3> HIDE DEF c
      <3> QED
        BY <3>2, <3>3, <3>4, OneSlot
    <2> QED
      BY <2>1, <2>2
  <1> QED
    BY <1>1 DEF TypeOK, ForwardBegin, leaderVars

\* What ForwardSend puts on the wire and counts.
LEMMA SendFacts ==
    ASSUME TypeOK, NEW s \in Slots, ForwardSend(s)
    PROVE  \/ End(s) /\ UNCHANGED progress
           \/ LET m == call[s].from IN
              \E i \in 0 .. Smaller(commit[Leader], Len(log[m])) :
                LET c == ForwardRequest(call[s], i) IN
                /\ c \in CallState /\ c.pc = "wait" /\ c.at = "net" /\ c.from = m
                /\ c.prev = call[s].prev /\ c.entries = call[s].entries /\ c.commit = i
                /\ call' = [call EXCEPT ![s] = c]
                /\ progress' = [progress EXCEPT ![m] =
                      [progress[m] EXCEPT !.known = TRUE, !.in_flight = progress[m].in_flight + 1,
                                          !.next = Larger(progress[m].next, call[s].prev + 1)]]
  <1> DEFINE m == call[s].from
  <1>1. /\ m \in Mentors /\ log[m] \in Logs /\ Len(log[m]) \in Nat /\ term[m] \in Nat
        /\ commit[Leader] \in Nat /\ call[s] \in CallState /\ call[s].prev \in Nat
    BY SlotFacts, StateFacts, NodeFacts DEF ForwardSend
  <1>2. CASE call[s].prev > Len(log[m])
    BY <1>2 DEF ForwardSend
  <1>3. CASE ~(call[s].prev > Len(log[m]))
    <2>1. PICK i \in 0 .. Smaller(commit[Leader], Len(log[m])) :
            call' = [call EXCEPT ![s] = ForwardRequest(call[s], i)]
      BY <1>3 DEF ForwardSend
    <2>2. i \in Nat
      BY <1>1 DEF Smaller
    <2> DEFINE pt == IF call[s].prev = 0 THEN 0 ELSE log[m][call[s].prev]
               src == IF m \in serves THEN m ELSE None
               c == ForwardRequest(call[s], i)
    <2>3. pt \in Nat
      BY <1>1, <1>3, SeqFacts
    <2>4. src \in Mentors \union {None}
      BY <1>1
    <2>5. c = [call[s] EXCEPT !.pc = "wait", !.at = "net", !.prevTerm = pt, !.term = term[m],
                              !.commit = i, !.src = src]
      BY DEF ForwardRequest
    <2> HIDE DEF pt, src, c
    <2>6. /\ c \in CallState /\ c.pc = "wait" /\ c.at = "net" /\ c.from = m
          /\ c.prev = call[s].prev /\ c.entries = call[s].entries /\ c.commit = i
      BY <1>1, <2>2, <2>3, <2>4, <2>5 DEF CallState
    <2>7. progress' = [progress EXCEPT ![m] =
                      [progress[m] EXCEPT !.known = TRUE, !.in_flight = progress[m].in_flight + 1,
                                          !.next = Larger(progress[m].next, call[s].prev + 1)]]
      BY <1>1, <1>3, StateFacts DEF ForwardSend, TypeOK, Progress
    <2> QED
      BY <2>1, <2>6, <2>7 DEF c
  <1> QED
    BY <1>2, <1>3

LEMMA TypeForwardSend ==
    ASSUME NEW s \in Slots PROVE TypeOK /\ ForwardSend(s) => TypeOK'
  <1> SUFFICES ASSUME TypeOK, ForwardSend(s) PROVE TypeOK'
    OBVIOUS
  <1>1. CASE End(s) /\ UNCHANGED progress
    BY <1>1, EndFacts DEF TypeOK, ForwardSend, leaderVars
  <1>2. CASE ~(End(s) /\ UNCHANGED progress)
    <2> DEFINE m == call[s].from
               q == [progress[m] EXCEPT !.known = TRUE, !.in_flight = progress[m].in_flight + 1,
                                        !.next = Larger(progress[m].next, call[s].prev + 1)]
    <2>1. PICK i \in 0 .. Smaller(commit[Leader], Len(log[m])) :
            LET c == ForwardRequest(call[s], i) IN
            /\ c \in CallState /\ c.pc = "wait" /\ c.at = "net" /\ c.from = m
            /\ call' = [call EXCEPT ![s] = c] /\ progress' = [progress EXCEPT ![m] = q]
      BY <1>2, SendFacts
    <2>2. m \in Mentors /\ progress[m] \in Progress /\ call[s].prev \in Nat
      BY SlotFacts, StateFacts DEF ForwardSend
    <2>3. /\ call' \in [Slots -> CallState]
          /\ \A t \in Slots : call'[t].pc # "none" => call'[t].from \in Mentors
          /\ \A t \in Slots : call'[t].at \in {"net", "store", "done"} => call'[t].pc # "none"
      BY <2>1, <2>2, OneSlot
    <2>4. q \in Progress
      <3> DEFINE next == Larger(progress[m].next, call[s].prev + 1)
                 n == progress[m].in_flight + 1
      <3>1. next \in Nat \ {0} /\ n \in Nat
        BY <2>2, SMTT(30) DEF Larger, Progress
      <3> HIDE DEF next, n
      <3>2. [progress[m] EXCEPT !.known = TRUE, !.in_flight = n, !.next = next] \in Progress
        BY <2>2, <3>1 DEF Progress
      <3> QED
        BY <3>2 DEF next, n
    <2> HIDE DEF q
    <2>5. progress' \in [Mentors -> Progress]
      BY <2>1, <2>2, <2>4 DEF TypeOK
    <2> QED
      BY <2>3, <2>5 DEF TypeOK, ForwardSend, leaderVars
  <1> QED
    BY <1>1, <1>2

\* What an acknowledgement, a refusal and a failure make of the progress: each counts
\* the call back.
LEMMA FailureFacts ==
    ASSUME NEW p \in Progress
    PROVE  UpdatePeerFailure(p) \in Progress /\ UpdatePeerFailure(p).in_flight = Decrement(p.in_flight)
  <1>1. Decrement(p.in_flight) \in Nat
    BY DEF Progress, Decrement
  <1> QED
    BY <1>1 DEF UpdatePeerFailure, Progress

LEMMA AckedFacts ==
    ASSUME NEW p \in Progress, NEW m \in Nat
    PROVE  Acked(p, m) \in Progress /\ Acked(p, m).in_flight = Decrement(p.in_flight)
  <1>1. /\ Larger(p.match, m) \in Nat /\ Larger(p.next, m + 1) \in Nat \ {0}
        /\ Decrement(p.in_flight) \in Nat
    BY DEF Progress, Larger, Decrement
  <1> QED
    BY <1>1 DEF Acked, Progress

LEMMA RolledBackFacts ==
    ASSUME NEW p \in Progress, NEW attempted \in Nat, NEW conflict \in Nat
    PROVE  /\ RolledBack(p, attempted, conflict) \in Progress
           /\ RolledBack(p, attempted, conflict).in_flight = p.in_flight
  <1> DEFINE start == IF p.anchor = 0 THEN attempted ELSE p.anchor
             anchor == IF conflict # 0 /\ conflict < start THEN conflict ELSE start
             failures == p.failures + 1
             retreat == IF failures > LinearThreshold
                        THEN LinearThreshold + 2 ^ Smaller(failures - LinearThreshold - 1, 20)
                        ELSE failures
             next == IF anchor > retreat THEN anchor - retreat ELSE 1
  <1>1. anchor \in Nat /\ failures \in Nat
    BY DEF Progress
  <1>2. LinearThreshold \in Nat
    BY ChainAssumption DEF LinearThreshold, Larger
  <1>3. RolledBack(p, attempted, conflict) =
            [p EXCEPT !.anchor = anchor, !.failures = failures, !.next = next]
    BY DEF RolledBack
  <1> HIDE DEF anchor, failures
  <1>4. retreat \in Int
    <2>1. CASE failures > LinearThreshold
      <3>1. Smaller(failures - LinearThreshold - 1, 20) \in Nat
        BY <1>1, <1>2, <2>1 DEF Smaller
      <3> QED
        BY <1>2, <2>1, <3>1
    <2>2. CASE ~(failures > LinearThreshold)
      BY <1>1, <2>2
    <2> QED
      BY <2>1, <2>2
  <1> HIDE DEF retreat
  <1>5. next \in Nat \ {0}
    BY <1>1, <1>4
  <1> HIDE DEF next
  <1> QED
    BY <1>1, <1>3, <1>5 DEF Progress

LEMMA RejectedFacts ==
    ASSUME NEW p \in Progress, NEW attempted \in Nat, NEW conflict \in Nat
    PROVE  /\ Rejected(p, attempted, conflict) \in Progress
           /\ Rejected(p, attempted, conflict).in_flight = Decrement(p.in_flight)
  <1> DEFINE q == [p EXCEPT !.known = TRUE, !.in_flight = Decrement(p.in_flight)]
  <1>0. Decrement(p.in_flight) \in Nat
    BY DEF Progress, Decrement
  <1>1. q \in Progress /\ q.in_flight = Decrement(p.in_flight)
    BY <1>0 DEF Progress
  <1>2. Rejected(p, attempted, conflict) =
            IF conflict > 0 /\ conflict < attempted
            THEN [q EXCEPT !.next = conflict, !.anchor = 0, !.failures = 0]
            ELSE RolledBack(q, attempted, conflict)
    BY DEF Rejected
  <1> HIDE DEF q
  <1>3. CASE conflict > 0 /\ conflict < attempted
    <2>1. conflict \in Nat \ {0}
      BY <1>3
    <2>2. LET r == [q EXCEPT !.next = conflict, !.anchor = 0, !.failures = 0]
          IN  r \in Progress /\ r.in_flight = q.in_flight
      BY <1>1, <2>1 DEF Progress
    <2> QED
      BY <1>1, <1>2, <1>3, <2>2
  <1>4. CASE ~(conflict > 0 /\ conflict < attempted)
    BY <1>1, <1>2, <1>4, RolledBackFacts
  <1> QED
    BY <1>3, <1>4

\* An answer of a higher term clears the progress; any other counts the call back.
LEMMA ForwardAnswerFacts ==
    ASSUME TypeOK, NEW s \in Slots, ForwardAnswer(s)
    PROVE  LET m == call[s].from IN
           /\ term' \in [Nodes -> Nat] /\ term'[Leader] # 0
           /\ reset' \subseteq Mentors
           /\ \/ /\ progress' = [progress EXCEPT ![m] = FreshProgress]
                 /\ reset' = (IF Waiting(m) \ {s} = {} THEN reset \ {m} ELSE reset \union {m})
              \/ /\ Drained(s)
                 /\ \E q \in Progress : /\ q.in_flight = Decrement(progress[m].in_flight)
                                        /\ progress' = [progress EXCEPT ![m] = q]
  <1> DEFINE m == call[s].from
             a == call[s].answer
             q == IF a.success THEN Acked(progress[m], a.match)
                  ELSE Rejected(progress[m], call[s].prev + 1, a.conflict)
  <1>1. /\ m \in Mentors /\ progress[m] \in Progress /\ a.match \in Nat /\ a.conflict \in Nat
        /\ a.term \in Nat /\ call[s].prev + 1 \in Nat
    <2>1. a \in [success: BOOLEAN, match: Nat, conflict: Nat, term: Nat]
      BY SlotFacts
    <2> HIDE DEF a
    <2> QED
      BY <2>1, SlotFacts, StateFacts DEF ForwardAnswer
  <1>2. CASE a.term > term[m]
    <2> DEFINE rest == Waiting(m) \ {s}
               t == a.term
    <2>1. BecomeFollower(m, t, rest) /\ t \in Nat /\ t > term[m]
      BY <1>1, <1>2 DEF ForwardAnswer
    <2> HIDE DEF rest, t, m
    <2>2. /\ term' \in [Nodes -> Nat] /\ term'[Leader] # 0 /\ reset' \subseteq Mentors
          /\ progress' = [progress EXCEPT ![m] = FreshProgress]
          /\ reset' = (IF rest = {} THEN reset \ {m} ELSE reset \union {m})
      BY <1>1, <2>1, BecomeFollowerFacts
    <2> QED
      BY <2>2 DEF rest, m
  <1>3. CASE ~(a.term > term[m])
    <2>1. q \in Progress /\ q.in_flight = Decrement(progress[m].in_flight)
      <3>1. CASE a.success
        BY <1>1, <3>1, AckedFacts
      <3>2. CASE ~a.success
        BY <1>1, <3>2, RejectedFacts
      <3> QED
        BY <3>1, <3>2
    <2>2. progress' = [progress EXCEPT ![m] = q] /\ UNCHANGED term /\ Drained(s)
      BY <1>1, <1>3 DEF ForwardAnswer, TypeOK
    <2>3. reset' \subseteq Mentors
      BY <2>2 DEF Drained, TypeOK
    <2>4. term' \in [Nodes -> Nat] /\ term'[Leader] # 0
      BY <2>2 DEF TypeOK
    <2> HIDE DEF q
    <2> QED
      BY <2>1, <2>2, <2>3, <2>4
  <1> QED
    BY <1>2, <1>3

LEMMA TypeForwardAnswer ==
    ASSUME NEW s \in Slots PROVE TypeOK /\ ForwardAnswer(s) => TypeOK'
  <1> SUFFICES ASSUME TypeOK, ForwardAnswer(s) PROVE TypeOK'
    OBVIOUS
  <1> DEFINE m == call[s].from
  <1>1. /\ call' \in [Slots -> CallState]
        /\ \A t \in Slots : call'[t].pc # "none" => call'[t].from \in Mentors
        /\ \A t \in Slots : call'[t].at \in {"net", "store", "done"} => call'[t].pc # "none"
    BY EndFacts DEF ForwardAnswer
  <1>2. term' \in [Nodes -> Nat] /\ term'[Leader] # 0 /\ reset' \subseteq Mentors
    BY ForwardAnswerFacts
  <1>3. progress' \in [Mentors -> Progress]
    <2>1. \E q \in Progress : progress' = [progress EXCEPT ![m] = q]
      <3>1. FreshProgress \in Progress
        BY DEF FreshProgress, Progress
      <3> QED
        BY <3>1, ForwardAnswerFacts
    <2> QED
      BY <2>1 DEF TypeOK
  <1> QED
    BY <1>1, <1>2, <1>3 DEF TypeOK, ForwardAnswer, leaderVars

\* The call after its deadline: over, or without a caller.
LEMMA DeadlineFacts ==
    ASSUME TypeOK, NEW s \in Slots, Deadline(s)
    PROVE  /\ call' \in [Slots -> CallState]
           /\ \A t \in Slots \ {s} : call'[t] = call[t]
           /\ \A t \in Slots : call'[t].pc # "none" => call'[t].from \in Mentors
           /\ \A t \in Slots : call'[t].at \in {"net", "store", "done"} => call'[t].pc # "none"
           /\ \/ call'[s] = Free
              \/ /\ call'[s].pc = "gone" /\ call'[s].at = call[s].at
                 /\ call'[s].from = call[s].from
                 /\ call'[s].prev = call[s].prev /\ call'[s].entries = call[s].entries
                 /\ call'[s].commit = call[s].commit
           /\ LET m == call[s].from IN
              \E q \in Progress : /\ q.in_flight = Decrement(progress[m].in_flight)
                                  /\ progress' = [progress EXCEPT ![m] = q]
  <1>1. call[s] \in CallState /\ call[s].from \in Mentors
    BY SlotFacts DEF Deadline
  <1>2. LET m == call[s].from IN
        \E q \in Progress : /\ q.in_flight = Decrement(progress[m].in_flight)
                            /\ progress' = [progress EXCEPT ![m] = q]
    <2> DEFINE m == call[s].from
    <2>1. progress' = [progress EXCEPT ![m] = UpdatePeerFailure(progress[m])]
      BY DEF Deadline, TypeOK
    <2>2. progress[m] \in Progress
      BY <1>1, StateFacts
    <2> QED
      BY <2>1, <2>2, FailureFacts
  <1>3. CASE End(s)
    BY <1>2, <1>3, EndFacts
  <1>4. CASE ~End(s)
    <2> DEFINE c == [call[s] EXCEPT !.pc = "gone"]
    <2>1. call' = [call EXCEPT ![s] = c]
      BY <1>4 DEF Deadline, TypeOK
    <2>2. /\ c \in CallState /\ c.pc = "gone" /\ c.at = call[s].at /\ c.from = call[s].from
          /\ c.prev = call[s].prev /\ c.entries = call[s].entries /\ c.commit = call[s].commit
      BY <1>1 DEF CallState
    <2> HIDE DEF c
    <2>3. /\ call' \in [Slots -> CallState] /\ call'[s] = c
          /\ \A t \in Slots \ {s} : call'[t] = call[t]
          /\ \A t \in Slots : call'[t].pc # "none" => call'[t].from \in Mentors
          /\ \A t \in Slots : call'[t].at \in {"net", "store", "done"} => call'[t].pc # "none"
      BY <1>1, <2>1, <2>2, OneSlot
    <2> QED
      BY <1>2, <2>2, <2>3
  <1> QED
    BY <1>3, <1>4

LEMMA TypeDeadline == ASSUME NEW s \in Slots PROVE TypeOK /\ Deadline(s) => TypeOK'
  <1> SUFFICES ASSUME TypeOK, Deadline(s) PROVE TypeOK'
    OBVIOUS
  <1>1. /\ call' \in [Slots -> CallState]
        /\ \A t \in Slots : call'[t].pc # "none" => call'[t].from \in Mentors
        /\ \A t \in Slots : call'[t].at \in {"net", "store", "done"} => call'[t].pc # "none"
    BY DeadlineFacts
  <1>2. progress' \in [Mentors -> Progress]
    BY DeadlineFacts, SlotFacts DEF TypeOK, Deadline
  <1>3. faults' \in Nat /\ reset' \subseteq Mentors
    BY DEF TypeOK, Deadline, Drained
  <1> QED
    BY <1>1, <1>2, <1>3 DEF TypeOK, Deadline, leaderVars

(***************************************************************************)
(* The follower's handler.                                                 *)
(***************************************************************************)

LEMMA RunStartFacts ==
    ASSUME NEW l \in Logs, NEW i \in 1 .. Len(l) PROVE RunStart(l, i) \in Nat
  <1> DEFINE T == {k \in 1 .. i : \A j \in k .. i : l[j] = l[i]}
  <1>1. i \in Nat \ {0}
    BY SeqFacts
  <1>2. i \in T /\ T \subseteq Nat
    BY <1>1
  <1>3. Min(T) \in T
    <2> HIDE DEF T
    <2> QED
      BY <1>2, MinFacts
  <1> HIDE DEF T
  <1>4. Min(T) \in Nat
    BY <1>2, <1>3
  <1> QED
    BY <1>4 DEF RunStart, T

\* The ways through the handler: the request is refused; or what it carries is stored and
\* the call is answered; or it is stored and the commit index is still to be.
LEMMA HandleFacts ==
    ASSUME TypeOK, NEW s \in Slots, Handle(s)
    PROVE  LET c == call[s]
               l == log[Follower]
               new == Store(l, c.prev, c.entries)
           IN  /\ UNCHANGED term \/ term' = [term EXCEPT ![Follower] = c.term]
               /\ \/ /\ UNCHANGED <<log, clean>>
                     /\ \E conflict \in Nat, t \in Nat : Answer(s, FALSE, 0, conflict, t)
                  \/ /\ log' = [log EXCEPT ![Follower] = new] /\ c.prev <= Len(l)
                     /\ new \in Logs /\ Len(new) \in Nat
                     /\ clean' = (clean /\ (new = l \/ c.from \notin astray))
                     /\ \/ Answer(s, TRUE, Len(new), 0, c.term)
                        \/ LET d == [Brief(c) EXCEPT !.at = "store", !.commit = BoundedCommit(c, new)]
                           IN  /\ d \in CallState /\ d.pc = c.pc /\ d.from = c.from /\ d.at = "store"
                               /\ d.entries = <<>>
                               /\ d.commit <= c.commit /\ d.commit <= Len(new)
                               /\ call' = [call EXCEPT ![s] = d]
  <1> DEFINE c == call[s]
             l == log[Follower]
             new == Store(l, c.prev, c.entries)
             b == BoundedCommit(c, new)
             d == [Brief(c) EXCEPT !.at = "store", !.commit = b]
  <1>1. /\ l \in Logs /\ Len(l) \in Nat /\ term[Follower] \in Nat /\ c.prev \in Nat
        /\ c.entries \in Logs /\ c.term \in Nat /\ c.commit \in Nat
    BY StateFacts, SlotFacts, NodeFacts
  <1>2. CASE c.term < term[Follower]
    <2>1. Answer(s, FALSE, 0, Len(l) + 1, term[Follower]) /\ UNCHANGED <<log, term, clean>>
      BY <1>2 DEF Handle
    <2>2. Len(l) + 1 \in Nat
      BY <1>1
    <2> QED
      BY <1>1, <2>1, <2>2
  <1>3. CASE ~(c.term < term[Follower])
    <2>1. term' = [term EXCEPT ![Follower] = c.term]
      BY <1>3 DEF Handle
    <2>2. CASE c.from # c.src
      <3>1. Answer(s, FALSE, 0, 0, c.term) /\ UNCHANGED <<log, clean>>
        BY <1>3, <2>2 DEF Handle
      <3> QED
        BY <1>1, <2>1, <3>1
    <2>3. CASE c.from = c.src /\ c.prev > Len(l)
      <3>1. Answer(s, FALSE, 0, Len(l) + 1, c.term) /\ UNCHANGED <<log, clean>>
        BY <1>3, <2>3 DEF Handle
      <3>2. Len(l) + 1 \in Nat
        BY <1>1
      <3> QED
        BY <1>1, <2>1, <3>1, <3>2
    <2>4. CASE c.from = c.src /\ ~(c.prev > Len(l)) /\ ~Matches(l, c.prev, c.prevTerm)
      <3>1. Answer(s, FALSE, 0, RunStart(l, c.prev), c.term) /\ UNCHANGED <<log, clean>>
        BY <1>3, <2>4 DEF Handle
      <3>2. RunStart(l, c.prev) \in Nat
        <4>1. c.prev \in 1 .. Len(l)
          BY <1>1, <2>4 DEF Matches
        <4> QED
          BY <1>1, <4>1, RunStartFacts
      <3> QED
        BY <1>1, <2>1, <3>1, <3>2
    <2>5. CASE c.from = c.src /\ ~(c.prev > Len(l)) /\ Matches(l, c.prev, c.prevTerm)
      <3>1. /\ log' = [log EXCEPT ![Follower] = new]
            /\ clean' = (clean /\ (new = l \/ c.from \notin astray))
            /\ IF b > commit[Follower] THEN call' = [call EXCEPT ![s] = d]
               ELSE Answer(s, TRUE, Len(new), 0, c.term)
        BY <1>3, <2>5 DEF Handle, TypeOK
      <3>2. c.prev <= Len(l) /\ new \in Logs
        BY <1>1, <2>5, StoreFacts
      <3>3. Len(new) \in Nat
        BY <3>2, SeqFacts
      <3>4. b \in Nat /\ b <= c.commit /\ b <= Len(new)
        BY <1>1, <3>3 DEF BoundedCommit, Smaller
      <3>5. /\ Brief(c) \in CallState /\ Brief(c).pc = c.pc /\ Brief(c).from = c.from
            /\ Brief(c).entries = <<>>
        BY BriefFacts
      <3> HIDE DEF b
      <3>6. /\ d \in CallState /\ d.pc = c.pc /\ d.from = c.from /\ d.at = "store"
            /\ d.commit = b /\ d.entries = <<>>
        BY <3>4, <3>5 DEF CallState
      <3> QED
        BY <2>1, <3>1, <3>2, <3>3, <3>4, <3>6 DEF b
    <2> QED
      BY <2>2, <2>3, <2>4, <2>5
  <1> QED
    BY <1>2, <1>3

LEMMA TypeHandle == ASSUME NEW s \in Slots PROVE TypeOK /\ Handle(s) => TypeOK'
  <1> SUFFICES ASSUME TypeOK, Handle(s) PROVE TypeOK'
    OBVIOUS
  <1> DEFINE c == call[s]
             new == Store(log[Follower], c.prev, c.entries)
  <1>1. c.pc # "none" /\ c.from \in Mentors /\ c.term \in Nat
    BY SlotFacts DEF Handle
  <1>2. term' \in [Nodes -> Nat] /\ term'[Leader] # 0
    BY <1>1, HandleFacts, NodeFacts DEF TypeOK
  <1>3. log' \in [Nodes -> Seq(Nat \ {0})] /\ clean' \in BOOLEAN
    <2>1. log' = log \/ (new \in Logs /\ log' = [log EXCEPT ![Follower] = new])
      BY HandleFacts
    <2>2. clean' = clean \/ clean' = (clean /\ (new = log[Follower] \/ c.from \notin astray))
      BY HandleFacts
    <2> HIDE DEF new
    <2>3. clean' \in BOOLEAN
      BY <2>2 DEF TypeOK
    <2>4. log' \in [Nodes -> Seq(Nat \ {0})]
      BY <2>1, NodeFacts DEF TypeOK, Logs
    <2> QED
      BY <2>3, <2>4
  <1>4. /\ call' \in [Slots -> CallState]
        /\ \A t \in Slots : call'[t].pc # "none" => call'[t].from \in Mentors
        /\ \A t \in Slots : call'[t].at \in {"net", "store", "done"} => call'[t].pc # "none"
    <2>1. \/ \E success \in BOOLEAN, matched \in Nat, conflict \in Nat, t \in Nat :
                Answer(s, success, matched, conflict, t)
          \/ \E d \in CallState : d.pc = c.pc /\ d.from = c.from /\ call' = [call EXCEPT ![s] = d]
      BY <1>1, HandleFacts
    <2>2. CASE \E success \in BOOLEAN, matched \in Nat, conflict \in Nat, t \in Nat :
                Answer(s, success, matched, conflict, t)
      BY <1>1, <2>2, AnswerFacts
    <2>3. CASE \E d \in CallState : d.pc = c.pc /\ d.from = c.from /\ call' = [call EXCEPT ![s] = d]
      BY <1>1, <2>3, OneSlot
    <2> QED
      BY <2>1, <2>2, <2>3
  <1> QED
    BY <1>2, <1>3, <1>4 DEF TypeOK, Handle, leaderVars

LEMMA TypeHandleStore == ASSUME NEW s \in Slots PROVE TypeOK /\ HandleStore(s) => TypeOK'
  <1> SUFFICES ASSUME TypeOK, HandleStore(s) PROVE TypeOK'
    OBVIOUS
  <1>1. commit' \in [{Leader, Follower} -> Nat]
    BY SlotFacts DEF TypeOK, HandleStore
  <1>2. /\ call' \in [Slots -> CallState]
        /\ \A t \in Slots : call'[t].pc # "none" => call'[t].from \in Mentors
        /\ \A t \in Slots : call'[t].at \in {"net", "store", "done"} => call'[t].pc # "none"
    BY AnswerFacts, SlotFacts, StateFacts, NodeFacts DEF HandleStore
  <1> QED
    BY <1>1, <1>2 DEF TypeOK, HandleStore, leaderVars

LEMMA TypeStep == TypeOK /\ [Next]_vars => TypeOK'
  <1> SUFFICES ASSUME TypeOK, [Next]_vars PROVE TypeOK'
    OBVIOUS
  <1>1. CASE UNCHANGED vars
    BY <1>1 DEF vars, TypeOK
  <1>2. CASE Propose \/ MaybeCommit \/ ReplicateDirectly
    BY <1>2, TypePropose, TypeMaybeCommit, TypeReplicateDirectly
  <1>3. CASE Rebind \/ FollowerCampaigns \/ BecomeLeader \/ DirectAnswer
    BY <1>3, TypeElections
  <1>4. CASE HeartbeatFollower \/ \E m \in Mentors : HeartbeatMentor(m) \/ MentorRefuses(m)
    BY <1>4, TypeHeartbeats
  <1>5. CASE \E m \in Mentors, s \in Slots : Receive(m, s)
    BY <1>5, TypeReceive
  <1>6. CASE \E s \in Slots : ForwardBegin(s) \/ ForwardSend(s) \/ ForwardAnswer(s)
    BY <1>6, TypeForwardBegin, TypeForwardSend, TypeForwardAnswer
  <1>7. CASE \E s \in Slots : Handle(s) \/ HandleStore(s) \/ Deadline(s)
    BY <1>7, TypeHandle, TypeHandleStore, TypeDeadline
  <1> QED
    BY <1>1, <1>2, <1>3, <1>4, <1>5, <1>6, <1>7 DEF Next

(***************************************************************************)
(* The count of forwards in flight.                                        *)
(***************************************************************************)

LEMMA WaitingFinite == \A m : IsFiniteSet(Waiting(m)) /\ Cardinality(Waiting(m)) \in Nat
  BY ChainAssumption, FS_Subset, FS_CardinalityType DEF Waiting

\* A step that lets no caller begin or cease to wait.
LEMMA SameWaiting ==
    ASSUME InFlightExact, UNCHANGED <<progress, reset>>,
           \A t \in Slots : \/ call'[t].pc = call[t].pc /\ call'[t].from = call[t].from
                            \/ call'[t].pc # "wait" /\ call[t].pc # "wait"
    PROVE  InFlightExact'
  <1>1. \A m \in Mentors : Waiting(m)' = Waiting(m)
    BY DEF Waiting
  <1> QED
    BY <1>1 DEF InFlightExact

\* A caller that began to wait was counted.
LEMMA OneMoreWaits ==
    ASSUME TypeOK, InFlightExact, UNCHANGED reset, NEW s \in Slots, NEW m \in Mentors,
           NEW q, progress' = [progress EXCEPT ![m] = q], q.in_flight = progress[m].in_flight + 1,
           call[s].pc # "wait", call'[s].pc = "wait", call'[s].from = m,
           \A t \in Slots \ {s} : call'[t] = call[t]
    PROVE  InFlightExact'
  <1>1. \A n \in Mentors : progress'[n] = IF n = m THEN q ELSE progress[n]
    BY DEF TypeOK
  <1>2. \A n \in Mentors \ {m} : Waiting(n)' = Waiting(n)
    BY DEF Waiting
  <1>3. Waiting(m)' = Waiting(m) \cup {s} /\ s \notin Waiting(m)
    BY DEF Waiting
  <1>4. Cardinality(Waiting(m) \cup {s}) = Cardinality(Waiting(m)) + 1
    BY <1>3, WaitingFinite, FS_AddElement
  <1>5. progress[m].in_flight \in Nat
    BY StateFacts DEF Progress
  <1>6. /\ progress'[m].in_flight <= Cardinality(Waiting(m)')
        /\ m \notin reset' => progress'[m].in_flight = Cardinality(Waiting(m)')
    BY <1>1, <1>3, <1>4, <1>5, WaitingFinite DEF InFlightExact
  <1>7. \A n \in Mentors \ {m} :
           /\ progress'[n].in_flight <= Cardinality(Waiting(n)')
           /\ n \notin reset' => progress'[n].in_flight = Cardinality(Waiting(n)')
    BY <1>1, <1>2 DEF InFlightExact
  <1> QED
    BY <1>6, <1>7 DEF InFlightExact

\* A caller that ceased to wait was counted back.
LEMMA OneLessWaits ==
    ASSUME TypeOK, InFlightExact, NEW s \in Slots, NEW m \in Mentors, Drained(s),
           NEW q, progress' = [progress EXCEPT ![m] = q],
           q.in_flight = Decrement(progress[m].in_flight),
           call[s].pc = "wait", call[s].from = m, call'[s].pc # "wait",
           \A t \in Slots \ {s} : call'[t] = call[t]
    PROVE  InFlightExact'
  <1>1. \A n \in Mentors \ {m} : Waiting(n)' = Waiting(n)
    BY DEF Waiting
  <1>2. Waiting(m)' = Waiting(m) \ {s} /\ s \in Waiting(m)
    BY DEF Waiting
  <1>3. Cardinality(Waiting(m) \ {s}) = Cardinality(Waiting(m)) - 1
    BY <1>2, WaitingFinite, FS_RemoveElement
  <1>4. Cardinality(Waiting(m) \ {s}) \in Nat
    BY WaitingFinite, FS_Subset, FS_CardinalityType
  <1> DEFINE w == Cardinality(Waiting(m))
             v == Cardinality(Waiting(m)')
             f == progress[m].in_flight
  <1>5. w \in Nat /\ v \in Nat /\ v = w - 1 /\ f \in Nat
    BY <1>2, <1>3, <1>4, WaitingFinite, StateFacts DEF Progress
  <1>6. f <= w /\ (m \notin reset => f = w)
    BY DEF InFlightExact
  <1>7. progress'[m] = q /\ \A n \in Mentors \ {m} : progress'[n] = progress[n]
    BY DEF TypeOK
  <1>8. reset' = IF Waiting(m) = {s} THEN reset \ {m} ELSE reset
    BY DEF Drained
  <1>9. Waiting(m) = {s} => v = 0
    BY <1>2, FS_EmptySet
  <1> HIDE DEF w, v, f
  <1>10. q.in_flight <= v /\ (m \notin reset' => q.in_flight = v)
    <2>1. q.in_flight = Decrement(f)
      BY DEF f
    <2>2. q.in_flight <= v /\ q.in_flight \in Nat
      BY <1>5, <1>6, <2>1 DEF Decrement
    <2>3. CASE m \notin reset
      BY <1>5, <1>6, <2>1, <2>2, <2>3 DEF Decrement
    <2>4. CASE m \in reset
      BY <1>5, <1>8, <1>9, <2>2, <2>4
    <2> QED
      BY <2>3, <2>4
  <1>11. \A n \in Mentors \ {m} : n \notin reset' <=> n \notin reset
    BY <1>8
  <1> QED
    BY <1>1, <1>7, <1>10, <1>11 DEF InFlightExact, v

\* A mentor that forgot its progress counts none of its callers.
LEMMA Forgotten ==
    ASSUME TypeOK, InFlightExact, NEW m \in Mentors,
           progress' = [progress EXCEPT ![m] = FreshProgress],
           m \notin reset' => Waiting(m)' = {},
           \A n \in Mentors \ {m} : n \in reset' <=> n \in reset,
           \A n \in Mentors \ {m} : Waiting(n)' = Waiting(n),
           IsFiniteSet(Waiting(m)')
    PROVE  InFlightExact'
  <1>1. progress'[m].in_flight = 0 /\ \A n \in Mentors \ {m} : progress'[n] = progress[n]
    BY DEF TypeOK, FreshProgress
  <1>2. /\ 0 <= Cardinality(Waiting(m)')
        /\ m \notin reset' => 0 = Cardinality(Waiting(m)')
    BY FS_CardinalityType, FS_EmptySet
  <1> QED
    BY <1>1, <1>2 DEF InFlightExact

\* BecomeFollower in a step that lets no caller begin or cease to wait.
LEMMA ForgetWaiting ==
    ASSUME TypeOK, InFlightExact, NEW m \in Mentors, NEW t \in Nat, BecomeFollower(m, t, Waiting(m)),
           \A u \in Slots : \/ call'[u].pc = call[u].pc /\ call'[u].from = call[u].from
                            \/ call'[u].pc # "wait" /\ call[u].pc # "wait"
    PROVE  InFlightExact'
  <1> DEFINE rest == Waiting(m)
  <1>1. \A n \in Mentors : Waiting(n)' = Waiting(n)
    BY DEF Waiting
  <1>2. BecomeFollower(m, t, rest)
    OBVIOUS
  <1>3. \/ progress' = progress /\ reset' = reset
        \/ /\ progress' = [progress EXCEPT ![m] = FreshProgress]
           /\ reset' = (IF rest = {} THEN reset \ {m} ELSE reset \union {m})
    <2> HIDE DEF rest
    <2> QED
      BY <1>2, BecomeFollowerFacts
  <1>4. CASE progress' = progress /\ reset' = reset
    BY <1>4, SameWaiting
  <1>5. CASE /\ progress' = [progress EXCEPT ![m] = FreshProgress]
             /\ reset' = (IF rest = {} THEN reset \ {m} ELSE reset \union {m})
    <2>1. m \notin reset' => rest = {}
      BY <1>5
    <2>2. \A n \in Mentors \ {m} : n \in reset' <=> n \in reset
      BY <1>5
    <2>3. m \notin reset' => Waiting(m)' = {}
      BY <1>1, <2>1
    <2>4. IsFiniteSet(Waiting(m)')
      BY <1>1, WaitingFinite
    <2>5. \A n \in Mentors \ {m} : Waiting(n)' = Waiting(n)
      BY <1>1
    <2> QED
      BY <1>5, <2>2, <2>3, <2>4, <2>5, Forgotten
  <1> QED
    BY <1>3, <1>4, <1>5

LEMMA ExactStep == TypeOK /\ InFlightExact /\ [Next]_vars => InFlightExact'
  <1> SUFFICES ASSUME TypeOK, InFlightExact, [Next]_vars PROVE InFlightExact'
    OBVIOUS
  <1>1. ASSUME UNCHANGED <<progress, reset, call>> PROVE InFlightExact'
    BY <1>1, SameWaiting
  <1>2. ASSUME NEW m \in Mentors, NEW s \in Slots, Receive(m, s) PROVE InFlightExact'
    <2> DEFINE c == [Free EXCEPT !.pc = "begin", !.at = "sender", !.from = m]
    <2>1. c.pc = "begin"
      BY DEF Free
    <2>2. call[s].pc # "wait" /\ call' = [call EXCEPT ![s] = c]
      BY <1>2, FreeFacts DEF Receive
    <2> HIDE DEF c
    <2>3. call'[s].pc # "wait" /\ \A t \in Slots \ {s} : call'[t] = call[t]
      BY <2>1, <2>2 DEF TypeOK
    <2>4. BecomeFollower(m, term[Leader], Waiting(m)) /\ term[Leader] \in Nat
      BY <1>2, StateFacts DEF Receive
    <2> DEFINE t == term[Leader]
    <2>5. \A u \in Slots : \/ call'[u].pc = call[u].pc /\ call'[u].from = call[u].from
                           \/ call'[u].pc # "wait" /\ call[u].pc # "wait"
      BY <2>2, <2>3
    <2> HIDE DEF t
    <2> QED
      BY <2>4, <2>5, ForgetWaiting DEF t
  <1>3. ASSUME NEW s \in Slots, ForwardBegin(s) PROVE InFlightExact'
    <2>1. call[s].pc # "wait" /\ UNCHANGED <<progress, reset>>
      BY <1>3 DEF ForwardBegin
    <2>2. call'[s].pc # "wait" /\ \A t \in Slots \ {s} : call'[t] = call[t]
      <3>1. CASE End(s)
        BY <3>1, EndFacts, FreeFacts
      <3>2. CASE ~End(s)
        <4>1. PICK prev \in Nat, entries \in Logs :
                call' = [call EXCEPT ![s] = [call[s] EXCEPT !.pc = "send", !.prev = prev,
                                                            !.entries = entries]]
          BY <1>3, <3>2, BeginFacts
        <4> DEFINE c == [call[s] EXCEPT !.pc = "send", !.prev = prev, !.entries = entries]
        <4>2. c.pc = "send"
          BY SlotFacts DEF CallState
        <4>3. call' = [call EXCEPT ![s] = c]
          BY <4>1
        <4> HIDE DEF c
        <4> QED
          BY <4>2, <4>3 DEF TypeOK
      <3> QED
        BY <3>1, <3>2
    <2> QED
      BY <2>1, <2>2, SameWaiting
  <1>4. ASSUME NEW s \in Slots, ForwardSend(s) PROVE InFlightExact'
    <2>1. CASE End(s) /\ UNCHANGED progress
      BY <1>4, <2>1, EndFacts, FreeFacts, SameWaiting DEF ForwardSend
    <2>2. CASE ~(End(s) /\ UNCHANGED progress)
      <3> DEFINE m == call[s].from
                 q == [progress[m] EXCEPT !.known = TRUE, !.in_flight = progress[m].in_flight + 1,
                                          !.next = Larger(progress[m].next, call[s].prev + 1)]
      <3>1. PICK i \in 0 .. Smaller(commit[Leader], Len(log[m])) :
              LET c == ForwardRequest(call[s], i) IN
              /\ c \in CallState /\ c.pc = "wait" /\ c.from = m
              /\ call' = [call EXCEPT ![s] = c] /\ progress' = [progress EXCEPT ![m] = q]
        BY <1>4, <2>2, SendFacts
      <3>2. m \in Mentors /\ call[s].pc # "wait" /\ UNCHANGED reset
        BY <1>4, SlotFacts DEF ForwardSend
      <3>3. q.in_flight = progress[m].in_flight + 1
        BY <3>2, StateFacts DEF Progress
      <3>4. /\ call'[s].pc = "wait" /\ call'[s].from = m
            /\ \A t \in Slots \ {s} : call'[t] = call[t]
        BY <3>1 DEF TypeOK
      <3> HIDE DEF q
      <3> QED
        BY <3>1, <3>2, <3>3, <3>4, OneMoreWaits
    <2> QED
      BY <2>1, <2>2
  <1>5. ASSUME NEW s \in Slots, ForwardAnswer(s) PROVE InFlightExact'
    <2>1. call[s].pc = "wait" /\ call[s].from \in Mentors
      BY <1>5, SlotFacts DEF ForwardAnswer
    <2>2. call'[s].pc # "wait" /\ \A t \in Slots \ {s} : call'[t] = call[t]
      BY <1>5, EndFacts, FreeFacts DEF ForwardAnswer
    <2> DEFINE m == call[s].from
    <2>3. \/ /\ progress' = [progress EXCEPT ![m] = FreshProgress]
             /\ reset' = (IF Waiting(m) \ {s} = {} THEN reset \ {m} ELSE reset \union {m})
          \/ /\ Drained(s)
             /\ \E q \in Progress : /\ q.in_flight = Decrement(progress[m].in_flight)
                                    /\ progress' = [progress EXCEPT ![m] = q]
      BY <1>5, ForwardAnswerFacts
    <2>4. CASE /\ progress' = [progress EXCEPT ![m] = FreshProgress]
               /\ reset' = (IF Waiting(m) \ {s} = {} THEN reset \ {m} ELSE reset \union {m})
      <3>1. PICK n \in Mentors : n = m
        BY <2>1
      <3>2. Waiting(n)' = Waiting(n) \ {s} /\ \A k \in Mentors \ {n} : Waiting(k)' = Waiting(k)
        <4> HIDE DEF m
        <4> QED
          BY <2>1, <2>2, <3>1 DEF Waiting, m
      <3> HIDE DEF m
      <3>3. /\ n \notin reset' => Waiting(n) \ {s} = {}
            /\ \A k \in Mentors \ {n} : k \in reset' <=> k \in reset
        BY <2>4, <3>1
      <3>4. IsFiniteSet(Waiting(n) \ {s})
        BY WaitingFinite, FS_Subset
      <3>5. progress' = [progress EXCEPT ![n] = FreshProgress]
        BY <2>4, <3>1
      <3>6. (n \notin reset' => Waiting(n)' = {}) /\ IsFiniteSet(Waiting(n)')
        BY <3>2, <3>3, <3>4
      <3> QED
        BY <3>2, <3>3, <3>5, <3>6, Forgotten
    <2>5. CASE /\ Drained(s)
               /\ \E q \in Progress : /\ q.in_flight = Decrement(progress[m].in_flight)
                                      /\ progress' = [progress EXCEPT ![m] = q]
      BY <2>1, <2>2, <2>5, OneLessWaits
    <2> QED
      BY <2>3, <2>4, <2>5
  <1>6. ASSUME NEW s \in Slots, Deadline(s) PROVE InFlightExact'
    <2>1. call[s].pc = "wait" /\ call[s].from \in Mentors /\ Drained(s)
      BY <1>6, SlotFacts DEF Deadline
    <2>2. call'[s].pc # "wait" /\ \A t \in Slots \ {s} : call'[t] = call[t]
      BY <1>6, DeadlineFacts, FreeFacts
    <2> QED
      BY <1>6, <2>1, <2>2, DeadlineFacts, OneLessWaits
  <1>7. ASSUME NEW s \in Slots, NEW success \in BOOLEAN, NEW matched \in Nat, NEW conflict \in Nat,
               NEW t \in Nat, call[s].pc # "none", Answer(s, success, matched, conflict, t),
               UNCHANGED <<progress, reset>>
        PROVE  InFlightExact'
    BY <1>7, AnswerFacts, SameWaiting
  <1>8. ASSUME NEW s \in Slots, Handle(s) PROVE InFlightExact'
    <2>1. call[s].pc # "none" /\ UNCHANGED <<progress, reset>> /\ call[s].term \in Nat
      BY <1>8, SlotFacts DEF Handle
    <2>2. \/ \E success \in BOOLEAN, matched \in Nat, conflict \in Nat, t \in Nat :
                Answer(s, success, matched, conflict, t)
          \/ \E d \in CallState : /\ d.pc = call[s].pc /\ d.from = call[s].from
                                  /\ call' = [call EXCEPT ![s] = d]
      BY <1>8, <2>1, HandleFacts
    <2>3. CASE \E success \in BOOLEAN, matched \in Nat, conflict \in Nat, t \in Nat :
                Answer(s, success, matched, conflict, t)
      BY <1>7, <2>1, <2>3
    <2>4. CASE \E d \in CallState : /\ d.pc = call[s].pc /\ d.from = call[s].from
                                    /\ call' = [call EXCEPT ![s] = d]
      <3>1. /\ call'[s].pc = call[s].pc /\ call'[s].from = call[s].from
            /\ \A t \in Slots \ {s} : call'[t] = call[t]
        BY <2>4 DEF TypeOK
      <3> QED
        BY <2>1, <3>1, SameWaiting
    <2> QED
      BY <2>2, <2>3, <2>4
  <1>9. ASSUME NEW s \in Slots, HandleStore(s) PROVE InFlightExact'
    <2>1. /\ call[s].pc # "none" /\ UNCHANGED <<progress, reset>>
          /\ Answer(s, TRUE, Len(log[Follower]), 0, term[Follower])
          /\ Len(log[Follower]) \in Nat /\ term[Follower] \in Nat
      BY <1>9, SlotFacts, StateFacts, NodeFacts DEF HandleStore
    <2> QED
      BY <1>7, <2>1
  <1>10. CASE Propose \/ MaybeCommit \/ ReplicateDirectly \/ Rebind
    BY <1>1, <1>10 DEF Propose, MaybeCommit, ReplicateDirectly, Rebind
  <1>11. CASE FollowerCampaigns \/ BecomeLeader \/ DirectAnswer \/ HeartbeatFollower
    BY <1>1, <1>11 DEF FollowerCampaigns, BecomeLeader, DirectAnswer, HeartbeatFollower
  <1>12. CASE UNCHANGED vars \/ \E m \in Mentors : MentorRefuses(m)
    BY <1>1, <1>12 DEF MentorRefuses, vars
  <1>13. ASSUME NEW m \in Mentors, HeartbeatMentor(m) PROVE InFlightExact'
    <2> DEFINE t == term[Leader]
    <2>1. BecomeFollower(m, t, Waiting(m)) /\ t \in Nat /\ UNCHANGED call
      BY <1>13, StateFacts DEF HeartbeatMentor
    <2> HIDE DEF t
    <2> QED
      BY <2>1, ForgetWaiting
  <1> QED
    BY <1>2, <1>3, <1>4, <1>5, <1>6, <1>8, <1>9, <1>10, <1>11, <1>12, <1>13 DEF Next

LEMMA ExactInit == Init => InFlightExact
  <1> SUFFICES ASSUME Init PROVE InFlightExact
    OBVIOUS
  <1>1. \A m \in Mentors : Waiting(m) = {}
    BY FreeFacts DEF Init, Waiting
  <1>2. InFlightExact
    <2>1. Cardinality({}) = 0
      BY FS_EmptySet
    <2>2. \A m \in Mentors : progress[m].in_flight = 0
      BY DEF Init, FreshProgress
    <2>3. ASSUME NEW m \in Mentors
          PROVE  /\ progress[m].in_flight <= Cardinality(Waiting(m))
                 /\ progress[m].in_flight = Cardinality(Waiting(m))
      <3>1. Cardinality(Waiting(m)) = 0
        BY <1>1, <2>1
      <3> QED
        BY <2>2, <3>1
    <2> QED
      BY <2>3 DEF InFlightExact
  <1> QED
    BY <1>2

\* Every behaviour of the chain keeps its types.
THEOREM ChainTypes == Spec => []TypeOK
  BY InitTypes, TypeStep, PTL DEF Spec

\* Whatever is lost, refused, answered late or ended by a higher term, the count of
\* forwards in flight of every mentor is the number of its callers that wait, except while
\* calls wait on that a higher term made the mentor forget; and it is never more, so that no
\* path through ForwardToFollower takes a place of the window for good.
THEOREM CountExact == Spec => []InFlightExact
  BY InitTypes, TypeStep, ExactInit, ExactStep, PTL DEF Spec

(***************************************************************************)
(* Agreement with the leader.  No term enters the argument: what a forward *)
(* carries is a piece of the leader's log because the mentor's log is an   *)
(* initial part of it, and stays one however long the forward takes, since *)
(* the leader's log only grows; a piece of the leader's log put into an    *)
(* initial part of it makes a longer initial part.                         *)
(***************************************************************************)

\* A mentor that did not begin astray has an initial part of the leader's log, and what it
\* has acknowledged.
MentorsAgree ==
    \A m \in Mentors \ astray : Initial(log[m], log[Leader]) /\ match[m] <= Len(log[m])

LeaderCommits == commit[Leader] <= Len(log[Leader])

\* The call carries entries of log k, unless it is of one of the mentors in far, and a
\* commit index of at most i, and no more than the follower has in its log of length f once
\* they are stored.
Carries(c, k, i, ok, f, far) ==
    /\ c.from \notin far => Piece(k, c.prev, c.entries)
    /\ c.commit <= i
    /\ ok /\ c.at = "store" => c.commit <= f

CallsCarryLog ==
    \A s \in Slots : Carries(call[s], log[Leader], commit[Leader], clean, Len(log[Follower]), astray)

FollowerInStep ==
    clean => /\ Initial(log[Follower], log[Leader])
             /\ commit[Follower] <= commit[Leader] /\ commit[Follower] <= Len(log[Follower])
             /\ match[Follower] <= Len(log[Follower])
             /\ ack # None => ack <= Len(log[Follower])

\* The nodes whose log in l reaches index i.
Reach(l, i) == {n \in Nodes : Len(l[n]) >= i}

QuorumHolds ==
    clean /\ astray = {} => \A i \in 1 .. commit[Leader] : Cardinality(Reach(log, i)) >= QuorumSize

ChainInv ==
    TypeOK /\ MentorsAgree /\ LeaderCommits /\ CallsCarryLog /\ FollowerInStep /\ QuorumHolds

LEMMA InitialTransitive ==
    ASSUME NEW a \in Logs, NEW b \in Logs, NEW c \in Logs, Initial(a, b), Initial(b, c)
    PROVE  Initial(a, c)
  BY SeqFacts DEF Initial

LEMMA InitialReflexive == ASSUME NEW a \in Logs PROVE Initial(a, a)
  BY SeqFacts DEF Initial

LEMMA PieceOfLonger ==
    ASSUME NEW a \in Logs, NEW b \in Logs, Initial(a, b), NEW prev \in Nat, NEW e \in Logs,
           Piece(a, prev, e)
    PROVE  Piece(b, prev, e)
  <1>1. Len(a) \in Nat /\ Len(b) \in Nat /\ Len(e) \in Nat
    BY SeqFacts
  <1>2. ASSUME NEW i \in 1 .. Len(e) PROVE prev + i <= Len(b) /\ e[i] = b[prev + i]
    <2>1. prev + i <= Len(a) /\ e[i] = a[prev + i]
      BY DEF Piece
    <2>2. prev + i \in 1 .. Len(a)
      BY <1>1, <2>1
    <2> QED
      BY <1>1, <2>1, <2>2 DEF Initial
  <1> QED
    BY <1>2 DEF Piece

LEMMA EmptyPiece == ASSUME NEW k, NEW prev PROVE Piece(k, prev, <<>>)
  <1>1. 1 .. Len(<<>>) = {}
    BY EmptySeq
  <1> QED
    BY <1>1 DEF Piece

LEMMA ReachFacts ==
    ASSUME TypeOK, NEW l, NEW i, NEW j, \A n \in Nodes : Len(log[n]) >= j => Len(l[n]) >= i
    PROVE  Cardinality(Reach(l, i)) >= Cardinality(Reach(log, j))
  <1>1. Reach(log, j) \subseteq Reach(l, i) /\ Reach(l, i) \subseteq Nodes
    BY DEF Reach
  <1>2. IsFiniteSet(Reach(l, i))
    BY <1>1, NodeFacts, FS_Subset
  <1>3. Cardinality(Reach(log, j)) <= Cardinality(Reach(l, i))
    BY <1>1, <1>2, FS_Subset
  <1>4. Cardinality(Reach(l, i)) \in Nat /\ Cardinality(Reach(log, j)) \in Nat
    BY <1>1, <1>2, FS_Subset, FS_CardinalityType
  <1> QED
    BY <1>3, <1>4

\* No step but MaybeCommit moves the leader's commit index, and no log of a node in
\* agreement becomes shorter: what was on a quorum stays there.
LEMMA Growth ==
    ASSUME ChainInv, TypeOK', UNCHANGED astray, clean' => clean, commit'[Leader] = commit[Leader],
           Initial(log[Leader], log'[Leader]),
           \A m \in Mentors \ astray : /\ Initial(log'[m], log'[Leader])
                                       /\ Len(log'[m]) >= Len(log[m]) /\ match'[m] <= Len(log'[m]),
           clean' => Initial(log'[Follower], log'[Leader]) /\ Len(log'[Follower]) >= Len(log[Follower])
    PROVE  /\ MentorsAgree' /\ LeaderCommits' /\ QuorumHolds'
           /\ \A s \in Slots :
                Carries(call[s], log'[Leader], commit'[Leader], clean', Len(log'[Follower]), astray')
  <1>1. /\ \A n \in Nodes : log[n] \in Logs /\ Len(log[n]) \in Nat
        /\ commit[Leader] \in Nat
        /\ TypeOK
    BY StateFacts DEF ChainInv
  <1>2. \A n \in Nodes : log'[n] \in Logs /\ Len(log'[n]) \in Nat
    BY SeqFacts DEF TypeOK, Logs
  <1>3. MentorsAgree'
    BY DEF MentorsAgree
  <1>4. Len(log'[Leader]) >= Len(log[Leader])
    BY <1>1, <1>2, NodeFacts DEF Initial
  <1>5. LeaderCommits'
    BY <1>1, <1>2, <1>4, NodeFacts DEF LeaderCommits, ChainInv
  <1>6. QuorumHolds'
    <2>1. SUFFICES ASSUME clean', astray = {}, NEW i \in 1 .. commit[Leader]
                   PROVE  Cardinality(Reach(log', i)) >= QuorumSize
      BY DEF QuorumHolds
    <2>2. \A n \in Nodes : Len(log'[n]) >= Len(log[n])
      BY <1>4, <2>1 DEF Nodes, Peers
    <2>3. i \in Nat /\ \A n \in Nodes : Len(log[n]) >= i => Len(log'[n]) >= i
      BY <1>1, <1>2, <2>2
    <2>4. Cardinality(Reach(log', i)) >= Cardinality(Reach(log, i))
      BY <1>1, <2>3, ReachFacts
    <2>5. Cardinality(Reach(log, i)) >= QuorumSize
      BY <2>1 DEF QuorumHolds, ChainInv
    <2>6. /\ Cardinality(Reach(log, i)) \in Nat /\ Cardinality(Reach(log', i)) \in Nat
          /\ QuorumSize \in Nat
      BY NodeFacts, FS_Subset, FS_CardinalityType DEF Reach
    <2> QED
      BY <2>4, <2>5, <2>6
  <1>7. ASSUME NEW s \in Slots
        PROVE  Carries(call[s], log'[Leader], commit'[Leader], clean', Len(log'[Follower]), astray')
    <2>1. Carries(call[s], log[Leader], commit[Leader], clean, Len(log[Follower]), astray)
      BY DEF CallsCarryLog, ChainInv
    <2>2. call[s].from \notin astray' => Piece(log'[Leader], call[s].prev, call[s].entries)
      BY <1>1, <1>2, <2>1, NodeFacts, SlotFacts, PieceOfLonger DEF Carries
    <2>3. call[s].commit \in Nat
      BY <1>1, SlotFacts
    <2>4. clean' => Len(log'[Follower]) >= Len(log[Follower])
      OBVIOUS
    <2>5. /\ Len(log[Follower]) \in Nat /\ Len(log'[Follower]) \in Nat
          /\ commit'[Leader] = commit[Leader] /\ (clean' => clean)
      BY <1>1, <1>2, NodeFacts
    <2> QED
      BY <2>1, <2>2, <2>3, <2>4, <2>5 DEF Carries
  <1> QED
    BY <1>3, <1>5, <1>6, <1>7

LEMMA AgreeAppend ==
    ASSUME ChainInv, TypeOK', NEW t \in Nat \ {0},
           log' = [log EXCEPT ![Leader] = Append(log[Leader], t)],
           UNCHANGED <<commit, call, clean, ack, astray>>,
           \A p \in Peers : match'[p] <= match[p]
    PROVE  ChainInv'
  <1>1. /\ \A n \in Nodes : log[n] \in Logs /\ Len(log[n]) \in Nat
        /\ TypeOK
    BY StateFacts DEF ChainInv
  <1>2. log'[Leader] = Append(log[Leader], t) /\ \A n \in Nodes \ {Leader} : log'[n] = log[n]
    BY <1>1, NodeFacts DEF TypeOK
  <1>3. Initial(log[Leader], log'[Leader]) /\ log'[Leader] \in Logs
    BY <1>1, <1>2, NodeFacts, AppendFacts
  <1>4. \A m \in Mentors \ astray : /\ Initial(log'[m], log'[Leader])
                                    /\ Len(log'[m]) >= Len(log[m]) /\ match'[m] <= Len(log'[m])
    <2> SUFFICES ASSUME NEW m \in Mentors \ astray
                 PROVE  /\ Initial(log'[m], log'[Leader])
                        /\ Len(log'[m]) >= Len(log[m]) /\ match'[m] <= Len(log'[m])
      OBVIOUS
    <2>1. log'[m] = log[m] /\ log[m] \in Logs /\ Initial(log[m], log[Leader]) /\ log[Leader] \in Logs
      BY <1>1, <1>2, NodeFacts DEF ChainInv, MentorsAgree
    <2>2. Initial(log[m], log'[Leader])
      BY <2>1, <1>3, InitialTransitive
    <2>3. /\ match[m] \in Nat /\ match'[m] \in Nat /\ match'[m] <= match[m]
          /\ match[m] <= Len(log[m])
      BY <1>1, NodeFacts DEF TypeOK, ChainInv, MentorsAgree
    <2> QED
      BY <2>1, <2>2, <2>3, SeqFacts
  <1>5. clean => Initial(log'[Follower], log'[Leader]) /\ Len(log'[Follower]) >= Len(log[Follower])
    <2> SUFFICES ASSUME clean
                 PROVE  Initial(log'[Follower], log'[Leader]) /\ Len(log'[Follower]) >= Len(log[Follower])
      OBVIOUS
    <2>1. /\ log'[Follower] = log[Follower] /\ log[Follower] \in Logs /\ log[Leader] \in Logs
          /\ Initial(log[Follower], log[Leader])
      BY <1>1, <1>2, NodeFacts DEF ChainInv, FollowerInStep
    <2>2. Initial(log[Follower], log'[Leader])
      BY <2>1, <1>3, InitialTransitive
    <2> QED
      BY <2>1, <2>2, SeqFacts
  <1>6. /\ MentorsAgree' /\ LeaderCommits' /\ QuorumHolds'
        /\ \A s \in Slots :
             Carries(call[s], log'[Leader], commit'[Leader], clean', Len(log'[Follower]), astray')
    BY <1>3, <1>4, <1>5, Growth
  <1>7. FollowerInStep'
    <2>1. /\ match[Follower] \in Nat /\ match'[Follower] \in Nat
          /\ match'[Follower] <= match[Follower] /\ Len(log[Follower]) \in Nat
          /\ log'[Follower] = log[Follower]
      BY <1>1, <1>2, NodeFacts DEF TypeOK
    <2>2. clean => /\ commit[Follower] <= commit[Leader] /\ commit[Follower] <= Len(log[Follower])
                   /\ match[Follower] <= Len(log[Follower])
                   /\ ack # None => ack <= Len(log[Follower])
      BY DEF FollowerInStep, ChainInv
    <2>3. clean => match'[Follower] <= Len(log[Follower])
      BY <2>1, <2>2
    <2> QED
      BY <1>5, <2>1, <2>2, <2>3 DEF FollowerInStep
  <1>8. CallsCarryLog'
    BY <1>6 DEF CallsCarryLog
  <1> QED
    BY <1>6, <1>7, <1>8 DEF ChainInv

LEMMA AgreeElections ==
    ASSUME ChainInv, TypeOK', Propose \/ BecomeLeader PROVE ChainInv'
  <1>1. CASE Propose
    <2>1. /\ term[Leader] \in Nat \ {0} /\ UNCHANGED <<commit, call, clean, ack, match, astray>>
          /\ log' = [log EXCEPT ![Leader] = Append(log[Leader], term[Leader])]
      BY <1>1, StateFacts DEF ChainInv, Propose, leaderVars
    <2>2. \A p \in Peers : match'[p] <= match[p]
      BY <2>1, StateFacts DEF ChainInv
    <2> QED
      BY <2>1, <2>2, AgreeAppend
  <1>2. CASE BecomeLeader
    <2>1. /\ UNCHANGED <<commit, call, clean, ack, astray>> /\ match' = [p \in Peers |-> 0]
          /\ log' = [log EXCEPT ![Leader] = Append(log[Leader], term'[Leader])]
      BY <1>2, NodeFacts DEF BecomeLeader, ChainInv, TypeOK
    <2>2. term'[Leader] \in Nat \ {0}
      BY NodeFacts DEF TypeOK
    <2>3. \A p \in Peers : match'[p] <= match[p]
      BY <2>1, StateFacts DEF ChainInv
    <2> QED
      BY <2>1, <2>2, <2>3, AgreeAppend
  <1> QED
    BY <1>1, <1>2

\* Steps that touch no log.
LEMMA SameLogs ==
    ASSUME ChainInv, TypeOK', UNCHANGED <<log, clean, astray>>, commit'[Leader] = commit[Leader],
           \A m \in Mentors : match'[m] = match[m]
    PROVE  /\ MentorsAgree' /\ LeaderCommits' /\ QuorumHolds'
           /\ \A s \in Slots :
                Carries(call[s], log'[Leader], commit'[Leader], clean', Len(log'[Follower]), astray')
  <1>1. \A n \in Nodes : log[n] \in Logs /\ Len(log[n]) \in Nat
    BY StateFacts DEF ChainInv
  <1>2. Initial(log[Leader], log'[Leader])
    BY <1>1, NodeFacts, InitialReflexive
  <1>3. \A m \in Mentors \ astray : /\ Initial(log'[m], log'[Leader])
                                    /\ Len(log'[m]) >= Len(log[m]) /\ match'[m] <= Len(log'[m])
    BY <1>1, NodeFacts DEF ChainInv, MentorsAgree
  <1>4. clean => Initial(log'[Follower], log'[Leader]) /\ Len(log'[Follower]) >= Len(log[Follower])
    BY <1>1, NodeFacts DEF ChainInv, FollowerInStep
  <1> QED
    BY <1>2, <1>3, <1>4, Growth

LEMMA AgreeQuiet ==
    ASSUME ChainInv, TypeOK', UNCHANGED <<log, commit, call, clean, match, ack, astray>>
    PROVE  ChainInv'
  <1>1. FollowerInStep'
    BY DEF ChainInv, FollowerInStep
  <1>2. CallsCarryLog'
    BY DEF ChainInv, CallsCarryLog
  <1> QED
    BY <1>1, <1>2, SameLogs DEF ChainInv

\* The leader counts the follower only for what it has acknowledged, which it keeps.
LEMMA AgreeMaybeCommit == ASSUME ChainInv, TypeOK', MaybeCommit PROVE ChainInv'
  <1>1. /\ \A n \in Nodes : log[n] \in Logs /\ Len(log[n]) \in Nat
        /\ commit[Leader] \in Nat /\ commit[Follower] \in Nat /\ TypeOK
        /\ \A p \in Peers : match[p] \in Nat
    BY StateFacts DEF ChainInv
  <1>2. PICK i \in commit[Leader] + 1 .. Len(log[Leader]) :
           Cardinality(Holders(i)) >= QuorumSize /\ commit' = [commit EXCEPT ![Leader] = i]
    BY <1>1, CommitFacts
  <1>3. i \in Nat \ {0} /\ commit[Leader] < i /\ i <= Len(log[Leader])
    BY <1>1, NodeFacts
  <1>4. commit'[Leader] = i /\ commit'[Follower] = commit[Follower]
    BY <1>1, <1>2, NodeFacts DEF TypeOK
  <1>5. UNCHANGED <<log, call, clean, match, ack, astray>>
    BY DEF MaybeCommit, leaderVars
  <1>6. LeaderCommits' /\ MentorsAgree'
    BY <1>3, <1>4, <1>5 DEF LeaderCommits, MentorsAgree, ChainInv
  <1>7. FollowerInStep'
    BY <1>1, <1>3, <1>4, <1>5 DEF FollowerInStep, ChainInv
  <1>8. CallsCarryLog'
    <2> SUFFICES ASSUME NEW s \in Slots
                 PROVE  Carries(call[s], log[Leader], i, clean, Len(log[Follower]), astray)
      BY <1>4, <1>5 DEF CallsCarryLog
    <2>1. Carries(call[s], log[Leader], commit[Leader], clean, Len(log[Follower]), astray)
      BY DEF CallsCarryLog, ChainInv
    <2>2. call[s].commit \in Nat
      BY <1>1, SlotFacts
    <2> QED
      BY <1>1, <1>3, <2>1, <2>2 DEF Carries
  <1>9. QuorumHolds'
    <2>1. SUFFICES ASSUME clean, astray = {}, NEW j \in 1 .. i
                   PROVE  Cardinality(Reach(log, j)) >= QuorumSize
      BY <1>4, <1>5 DEF QuorumHolds
    <2>2. j \in Nat /\ j <= i
      BY <1>3
    <2>3. Holders(i) \subseteq Reach(log, j)
      <3>1. Leader \in Reach(log, j)
        BY <1>1, <1>3, <2>2, NodeFacts DEF Reach
      <3>2. \A m \in Mentors : match[m] >= i => m \in Reach(log, j)
        BY <1>1, <1>3, <2>1, <2>2, NodeFacts DEF Reach, MentorsAgree, ChainInv
      <3>3. match[Follower] >= i => Follower \in Reach(log, j)
        BY <1>1, <1>3, <2>1, <2>2, NodeFacts DEF Reach, FollowerInStep, ChainInv
      <3> QED
        BY <3>1, <3>2, <3>3 DEF Holders, Peers
    <2>4. IsFiniteSet(Reach(log, j)) /\ Cardinality(Reach(log, j)) \in Nat
      BY NodeFacts, FS_Subset, FS_CardinalityType DEF Reach
    <2>5. Cardinality(Holders(i)) <= Cardinality(Reach(log, j)) /\ Cardinality(Holders(i)) \in Nat
      BY <2>3, <2>4, FS_Subset, FS_CardinalityType
    <2> QED
      BY <1>2, <2>4, <2>5, NodeFacts
  <1> QED
    BY <1>6, <1>7, <1>8, <1>9 DEF ChainInv

LEMMA AgreeReceive ==
    ASSUME ChainInv, TypeOK', NEW m \in Mentors, NEW s \in Slots, Receive(m, s) PROVE ChainInv'
  <1>1. /\ \A n \in Nodes : log[n] \in Logs /\ Len(log[n]) \in Nat
        /\ commit[Leader] \in Nat /\ TypeOK /\ m \in Nodes
    BY StateFacts, NodeFacts DEF ChainInv
  <1>2. PICK prev \in 0 .. Len(log[Leader]) - 1 :
            LET entries == Part(log[Leader], prev + 1, Batch)
                l == Store(log[m], prev, entries)
            IN  /\ Matches(log[m], prev, IF prev = 0 THEN 0 ELSE log[Leader][prev])
                /\ log' = [log EXCEPT ![m] = l]
                /\ match' = [match EXCEPT ![m] = Larger(@, Len(l))]
    BY DEF Receive
  <1> DEFINE l == Store(log[m], prev, Part(log[Leader], prev + 1, Batch))
  <1>3. /\ l \in Logs /\ Len(l) \in Nat
        /\ m \notin astray => Initial(l, log[Leader]) /\ Len(l) >= Len(log[m])
    <2>1. prev \in Nat /\ prev <= Len(log[Leader])
      BY <1>1, NodeFacts
    <2> QED
      BY <1>1, <1>2, <2>1, TakeFacts DEF ChainInv, MentorsAgree
  <1>4. log' = [log EXCEPT ![m] = l] /\ match' = [match EXCEPT ![m] = Larger(@, Len(l))]
    BY <1>2
  <1> HIDE DEF l
  <1>41. /\ match'[m] = Larger(match[m], Len(l)) /\ match[m] \in Nat
         /\ \A p \in Peers \ {m} : match'[p] = match[p]
    BY <1>1, <1>4, NodeFacts DEF TypeOK
  <1>5. log'[m] = l /\ \A n \in Nodes \ {m} : log'[n] = log[n]
    BY <1>1, <1>4 DEF TypeOK
  <1>6. UNCHANGED <<commit, ack, clean, astray>>
    BY DEF Receive
  <1>7. Initial(log[Leader], log'[Leader]) /\ log'[Leader] = log[Leader]
    BY <1>1, <1>5, NodeFacts, InitialReflexive
  <1>8. \A n \in Mentors \ astray : /\ Initial(log'[n], log'[Leader])
                                    /\ Len(log'[n]) >= Len(log[n]) /\ match'[n] <= Len(log'[n])
    <2> SUFFICES ASSUME NEW n \in Mentors \ astray
                 PROVE  /\ Initial(log'[n], log'[Leader])
                        /\ Len(log'[n]) >= Len(log[n]) /\ match'[n] <= Len(log'[n])
      OBVIOUS
    <2>1. /\ Initial(log[n], log[Leader]) /\ match[n] <= Len(log[n]) /\ match[n] \in Nat
          /\ Len(log[n]) \in Nat /\ n \in Nodes /\ n \in Peers
      BY <1>1, NodeFacts, StateFacts DEF ChainInv, MentorsAgree
    <2>2. CASE n = m
      <3>1. match'[m] <= Len(l)
        BY <1>3, <1>41, <2>1, <2>2 DEF Larger
      <3> QED
        BY <1>3, <1>5, <1>7, <2>2, <3>1
    <2>3. CASE n # m
      BY <1>5, <1>7, <1>41, <2>1, <2>3
    <2> QED
      BY <2>2, <2>3
  <1>9. log'[Follower] = log[Follower] /\ match'[Follower] = match[Follower]
    BY <1>5, <1>41, NodeFacts
  <1>10. clean => Initial(log'[Follower], log'[Leader]) /\ Len(log'[Follower]) >= Len(log[Follower])
    BY <1>1, <1>7, <1>9, NodeFacts DEF ChainInv, FollowerInStep
  <1>11. /\ MentorsAgree' /\ LeaderCommits' /\ QuorumHolds'
         /\ \A t \in Slots :
              Carries(call[t], log'[Leader], commit'[Leader], clean', Len(log'[Follower]), astray')
    BY <1>6, <1>7, <1>8, <1>10, Growth
  <1>12. FollowerInStep'
    BY <1>6, <1>7, <1>9 DEF FollowerInStep, ChainInv
  <1> DEFINE c == [Free EXCEPT !.pc = "begin", !.at = "sender", !.from = m]
  <1>13. c.entries = <<>> /\ c.commit = 0 /\ c.at = "sender"
    BY DEF Free
  <1>14. call' = [call EXCEPT ![s] = c]
    BY DEF Receive
  <1> HIDE DEF c
  <1>15. call'[s] = c /\ \A t \in Slots \ {s} : call'[t] = call[t]
    BY <1>1, <1>14 DEF TypeOK
  <1>16. Carries(c, log'[Leader], commit'[Leader], clean', Len(log'[Follower]), astray')
    BY <1>1, <1>6, <1>13, EmptyPiece DEF Carries
  <1>17. CallsCarryLog'
    BY <1>11, <1>15, <1>16 DEF CallsCarryLog
  <1> QED
    BY <1>11, <1>12, <1>17 DEF ChainInv

LEMMA AgreeHeartbeat == ASSUME ChainInv, TypeOK', HeartbeatFollower PROVE ChainInv'
  <1>1. UNCHANGED <<log, call, clean, match, ack, astray>>
    BY DEF HeartbeatFollower
  <1>2. CASE UNCHANGED commit
    BY <1>1, <1>2, AgreeQuiet
  <1>3. CASE ~UNCHANGED commit
    <2> DEFINE i == Larger(commit[Follower], Smaller(commit[Leader], Len(log[Follower])))
    <2>1. commit' = [commit EXCEPT ![Follower] = i]
      BY <1>3 DEF HeartbeatFollower, ChainInv, TypeOK
    <2>2. /\ commit[Leader] \in Nat /\ commit[Follower] \in Nat /\ Len(log[Follower]) \in Nat
          /\ TypeOK
      BY StateFacts, NodeFacts DEF ChainInv
    <2>3. clean => i <= commit[Leader] /\ i <= Len(log[Follower])
      BY <2>2 DEF Larger, Smaller, ChainInv, FollowerInStep
    <2> HIDE DEF i
    <2>4. commit'[Leader] = commit[Leader] /\ commit'[Follower] = i
      BY <2>1, <2>2, NodeFacts DEF TypeOK
    <2>5. FollowerInStep'
      BY <1>1, <2>3, <2>4 DEF ChainInv, FollowerInStep
    <2>6. CallsCarryLog'
      BY <1>1, <2>4 DEF ChainInv, CallsCarryLog
    <2> QED
      BY <1>1, <2>4, <2>5, <2>6, SameLogs DEF ChainInv
  <1> QED
    BY <1>2, <1>3

LEMMA AgreeReplicateDirectly == ASSUME ChainInv, TypeOK', ReplicateDirectly PROVE ChainInv'
  <1>1. /\ \A n \in Nodes : log[n] \in Logs /\ Len(log[n]) \in Nat
        /\ commit[Leader] \in Nat /\ commit[Follower] \in Nat /\ match[Follower] \in Nat /\ TypeOK
    BY StateFacts, NodeFacts DEF ChainInv
  <1>2. PICK prev \in match[Follower] .. Len(log[Leader]) :
            LET entries == Part(log[Leader], prev + 1, Batch)
                l == Store(log[Follower], prev, entries)
            IN  /\ Matches(log[Follower], prev, IF prev = 0 THEN 0 ELSE log[Leader][prev])
                /\ log' = [log EXCEPT ![Follower] = l]
                /\ commit' = [commit EXCEPT ![Follower] = Larger(@, Smaller(commit[Leader], Len(l)))]
                /\ ack' = Len(l)
    BY DEF ReplicateDirectly
  <1> DEFINE l == Store(log[Follower], prev, Part(log[Leader], prev + 1, Batch))
             i == Larger(commit[Follower], Smaller(commit[Leader], Len(l)))
  <1>3. /\ l \in Logs /\ Len(l) \in Nat
        /\ clean => Initial(l, log[Leader]) /\ Len(l) >= Len(log[Follower])
    <2>1. prev \in Nat /\ prev <= Len(log[Leader])
      BY <1>1, NodeFacts
    <2> QED
      BY <1>1, <1>2, <2>1, TakeFacts, NodeFacts DEF ChainInv, FollowerInStep
  <1>4. /\ log' = [log EXCEPT ![Follower] = l] /\ ack' = Len(l)
        /\ commit' = [commit EXCEPT ![Follower] = i]
    BY <1>1, <1>2, NodeFacts DEF TypeOK
  <1> HIDE DEF l
  <1>5. clean => i <= commit[Leader] /\ i <= Len(l)
    BY <1>1, <1>3, NodeFacts DEF Larger, Smaller, ChainInv, FollowerInStep
  <1> HIDE DEF i
  <1>6. /\ log'[Follower] = l /\ \A n \in Nodes \ {Follower} : log'[n] = log[n]
        /\ commit'[Leader] = commit[Leader] /\ commit'[Follower] = i
    BY <1>1, <1>4, NodeFacts DEF TypeOK
  <1>7. UNCHANGED <<match, clean, call, astray>>
    BY DEF ReplicateDirectly
  <1>8. log'[Leader] = log[Leader] /\ Initial(log[Leader], log'[Leader])
    BY <1>1, <1>6, NodeFacts, InitialReflexive
  <1>9. \A n \in Mentors \ astray : /\ Initial(log'[n], log'[Leader])
                                    /\ Len(log'[n]) >= Len(log[n]) /\ match'[n] <= Len(log'[n])
    BY <1>1, <1>6, <1>7, <1>8, NodeFacts DEF ChainInv, MentorsAgree
  <1>10. clean => Initial(log'[Follower], log'[Leader]) /\ Len(log'[Follower]) >= Len(log[Follower])
    BY <1>3, <1>6, <1>8
  <1>11. /\ MentorsAgree' /\ LeaderCommits' /\ QuorumHolds'
         /\ \A t \in Slots :
              Carries(call[t], log'[Leader], commit'[Leader], clean', Len(log'[Follower]), astray')
    BY <1>6, <1>7, <1>8, <1>9, <1>10, Growth
  <1>12. CallsCarryLog'
    BY <1>7, <1>11 DEF CallsCarryLog
  <1>13. FollowerInStep'
    <2>1. clean => match[Follower] <= Len(l)
      BY <1>1, <1>3, NodeFacts DEF ChainInv, FollowerInStep
    <2>2. Len(l) <= Len(l)
      BY <1>3
    <2> QED
      BY <1>4, <1>5, <1>6, <1>7, <1>10, <2>1, <2>2 DEF FollowerInStep
  <1> QED
    BY <1>11, <1>12, <1>13 DEF ChainInv

LEMMA AgreeDirectAnswer == ASSUME ChainInv, TypeOK', DirectAnswer PROVE ChainInv'
  <1>1. UNCHANGED <<log, commit, call, clean, astray>> /\ ack # None /\ ack' = None
    BY DEF DirectAnswer
  <1>0. /\ match'[Follower] = Larger(match[Follower], ack)
        /\ \A m \in Mentors : match'[m] = match[m]
    BY NodeFacts DEF DirectAnswer, ChainInv, TypeOK
  <1>2. clean => match'[Follower] <= Len(log[Follower])
    BY <1>0, <1>1 DEF Larger, ChainInv, FollowerInStep
  <1>3. FollowerInStep'
    BY <1>1, <1>2 DEF ChainInv, FollowerInStep
  <1>4. CallsCarryLog'
    BY <1>1 DEF ChainInv, CallsCarryLog
  <1> QED
    BY <1>0, <1>1, <1>3, <1>4, SameLogs DEF ChainInv

\* A step of one call that touches neither the logs nor a commit index.
LEMMA AgreeOneCall ==
    ASSUME ChainInv, TypeOK', NEW s \in Slots, UNCHANGED <<log, commit, clean, match, ack, astray>>,
           \A t \in Slots \ {s} : call'[t] = call[t],
           Carries(call'[s], log[Leader], commit[Leader], clean, Len(log[Follower]), astray)
    PROVE  ChainInv'
  <1>1. FollowerInStep'
    BY DEF ChainInv, FollowerInStep
  <1>2. CallsCarryLog'
    BY DEF ChainInv, CallsCarryLog
  <1> QED
    BY <1>1, <1>2, SameLogs DEF ChainInv

LEMMA CarriesNothing ==
    ASSUME TypeOK, NEW c, c.entries = <<>>, c.commit = 0
    PROVE  Carries(c, log[Leader], commit[Leader], clean, Len(log[Follower]), astray)
  BY StateFacts, NodeFacts, EmptyPiece DEF Carries

LEMMA AgreeForward ==
    ASSUME ChainInv, TypeOK', NEW s \in Slots,
           ForwardBegin(s) \/ ForwardSend(s) \/ ForwardAnswer(s) \/ Deadline(s)
    PROVE  ChainInv'
  <1>1. UNCHANGED <<log, commit, clean, match, ack, astray>>
    BY DEF ForwardBegin, ForwardSend, ForwardAnswer, Deadline, leaderVars
  <1>2. TypeOK /\ Carries(call[s], log[Leader], commit[Leader], clean, Len(log[Follower]), astray)
    BY DEF ChainInv, CallsCarryLog
  <1>3. ASSUME End(s) PROVE ChainInv'
    <2>1. call'[s] = Free /\ \A t \in Slots \ {s} : call'[t] = call[t]
      BY <1>2, <1>3, EndFacts
    <2>2. Carries(Free, log[Leader], commit[Leader], clean, Len(log[Follower]), astray)
      BY <1>2, FreeFacts, CarriesNothing
    <2> QED
      BY <1>1, <2>1, <2>2, AgreeOneCall
  <1>4. CASE ForwardBegin(s) /\ ~End(s)
    <2>1. PICK prev \in Nat, entries \in Logs :
            /\ Piece(log[call[s].from], prev, entries)
            /\ call' = [call EXCEPT ![s] = [call[s] EXCEPT !.pc = "send", !.prev = prev,
                                                           !.entries = entries]]
      BY <1>2, <1>4, BeginFacts
    <2> DEFINE c == [call[s] EXCEPT !.pc = "send", !.prev = prev, !.entries = entries]
    <2>2. /\ c.prev = prev /\ c.entries = entries /\ c.commit = call[s].commit
          /\ c.at = call[s].at /\ c.from = call[s].from
      BY <1>2, SlotFacts DEF CallState
    <2>3. call' = [call EXCEPT ![s] = c]
      BY <2>1
    <2> HIDE DEF c
    <2>4. call'[s] = c /\ \A t \in Slots \ {s} : call'[t] = call[t]
      BY <1>2, <2>3 DEF TypeOK
    <2>5. call[s].from \notin astray => Piece(log[Leader], prev, entries)
      <3> SUFFICES ASSUME call[s].from \notin astray PROVE Piece(log[Leader], prev, entries)
        OBVIOUS
      <3>1. call[s].from \in Mentors
        BY <1>2, <1>4, SlotFacts DEF ForwardBegin
      <3>2. /\ log[call[s].from] \in Logs /\ log[Leader] \in Logs
            /\ Initial(log[call[s].from], log[Leader])
        BY <1>2, <3>1, StateFacts, NodeFacts DEF ChainInv, MentorsAgree
      <3> QED
        BY <2>1, <3>2, PieceOfLonger
    <2>6. Carries(c, log[Leader], commit[Leader], clean, Len(log[Follower]), astray)
      BY <1>2, <2>2, <2>5 DEF Carries
    <2> QED
      BY <1>1, <2>4, <2>6, AgreeOneCall
  <1>5. CASE ForwardSend(s) /\ ~End(s)
    <2> DEFINE m == call[s].from
    <2>1. PICK i \in 0 .. Smaller(commit[Leader], Len(log[m])) :
            LET c == ForwardRequest(call[s], i) IN
            /\ c \in CallState /\ c.at = "net" /\ c.prev = call[s].prev /\ c.from = m
            /\ c.entries = call[s].entries /\ c.commit = i
            /\ call' = [call EXCEPT ![s] = c]
      BY <1>2, <1>5, SendFacts
    <2> DEFINE c == ForwardRequest(call[s], i)
    <2>2. call'[s] = c /\ \A t \in Slots \ {s} : call'[t] = call[t]
      BY <1>2, <2>1 DEF TypeOK
    <2>3. i <= commit[Leader]
      <3>1. m \in Mentors
        BY <1>2, <1>5, SlotFacts DEF ForwardSend
      <3>2. commit[Leader] \in Nat /\ Len(log[m]) \in Nat
        BY <1>2, <3>1, StateFacts, NodeFacts
      <3> HIDE DEF m
      <3> QED
        BY <3>2 DEF Smaller
    <2>4. Carries(c, log[Leader], commit[Leader], clean, Len(log[Follower]), astray)
      <3>1. /\ c.at = "net" /\ c.prev = call[s].prev /\ c.entries = call[s].entries
            /\ c.commit = i /\ c.from = call[s].from
        BY <2>1
      <3> HIDE DEF c
      <3> QED
        BY <1>2, <2>3, <3>1 DEF Carries
    <2> HIDE DEF c
    <2> QED
      BY <1>1, <2>2, <2>4, AgreeOneCall
  <1>6. CASE ForwardAnswer(s)
    BY <1>3, <1>6 DEF ForwardAnswer
  <1>7. CASE Deadline(s)
    <2>1. \A t \in Slots \ {s} : call'[t] = call[t]
      BY <1>2, <1>7, DeadlineFacts
    <2>2. CASE call'[s] = Free
      <3>1. Carries(Free, log[Leader], commit[Leader], clean, Len(log[Follower]), astray)
        BY <1>2, FreeFacts, CarriesNothing
      <3> QED
        BY <1>1, <2>1, <2>2, <3>1, AgreeOneCall
    <2>3. CASE call'[s] # Free
      <3>1. /\ call'[s].at = call[s].at /\ call'[s].prev = call[s].prev
            /\ call'[s].from = call[s].from
            /\ call'[s].entries = call[s].entries /\ call'[s].commit = call[s].commit
        BY <1>2, <1>7, <2>3, DeadlineFacts
      <3>2. Carries(call'[s], log[Leader], commit[Leader], clean, Len(log[Follower]), astray)
        BY <1>2, <3>1 DEF Carries
      <3> QED
        BY <1>1, <2>1, <3>2, AgreeOneCall
    <2> QED
      BY <2>2, <2>3
  <1> QED
    BY <1>3, <1>4, <1>5, <1>6, <1>7

LEMMA AgreeHandle ==
    ASSUME ChainInv, TypeOK', NEW s \in Slots, Handle(s) PROVE ChainInv'
  <1> DEFINE c == call[s]
             l == log[Follower]
             new == Store(l, c.prev, c.entries)
             d == [Brief(c) EXCEPT !.at = "store", !.commit = BoundedCommit(c, new)]
  <1>1. UNCHANGED <<commit, match, ack, astray>>
    BY DEF Handle, leaderVars
  <1>2. /\ TypeOK /\ Carries(c, log[Leader], commit[Leader], clean, Len(l), astray)
        /\ \A n \in Nodes : log[n] \in Logs /\ Len(log[n]) \in Nat
        /\ commit[Leader] \in Nat /\ commit[Follower] \in Nat
        /\ c.pc # "none" /\ c.prev \in Nat /\ c.entries \in Logs /\ c.term \in Nat /\ c.commit \in Nat
    BY StateFacts, SlotFacts DEF ChainInv, CallsCarryLog, Handle
  <1>3. CASE /\ UNCHANGED <<log, clean>>
             /\ \E conflict \in Nat, t \in Nat : Answer(s, FALSE, 0, conflict, t)
    <2>1. /\ call'[s].entries = <<>> /\ call'[s].commit = 0
          /\ \A t \in Slots \ {s} : call'[t] = call[t]
      BY <1>2, <1>3, AnswerFacts
    <2>2. Carries(call'[s], log[Leader], commit[Leader], clean, Len(l), astray)
      BY <1>2, <2>1, CarriesNothing
    <2> QED
      BY <1>1, <1>3, <2>1, <2>2, AgreeOneCall
  <1>4. CASE /\ log' = [log EXCEPT ![Follower] = new] /\ c.prev <= Len(l)
             /\ new \in Logs /\ Len(new) \in Nat
             /\ clean' = (clean /\ (new = l \/ c.from \notin astray))
             /\ \/ Answer(s, TRUE, Len(new), 0, c.term)
                \/ /\ d \in CallState /\ d.at = "store" /\ d.entries = <<>>
                   /\ d.commit <= c.commit /\ d.commit <= Len(new)
                   /\ call' = [call EXCEPT ![s] = d]
    <2>0. (clean' => clean) /\ (clean' => new = l \/ c.from \notin astray)
      BY <1>2, <1>4 DEF TypeOK
    <2>1. clean' => Initial(new, log[Leader]) /\ Len(new) >= Len(l)
      <3> SUFFICES ASSUME clean' PROVE Initial(new, log[Leader]) /\ Len(new) >= Len(l)
        OBVIOUS
      <3>1. l \in Logs /\ log[Leader] \in Logs /\ Len(l) \in Nat /\ Initial(l, log[Leader])
        BY <1>2, <2>0, NodeFacts DEF ChainInv, FollowerInStep
      <3>2. CASE new = l
        <4> HIDE DEF new, l
        <4> QED
          BY <3>1, <3>2
      <3>3. CASE c.from \notin astray
        <4>1. Piece(log[Leader], c.prev, c.entries)
          BY <1>2, <3>3 DEF Carries
        <4> QED
          BY <1>2, <1>4, <3>1, <4>1, StoreFacts
      <3> QED
        BY <2>0, <3>2, <3>3
    <2>2. /\ call'[s].entries = <<>>
          /\ \A t \in Slots \ {s} : call'[t] = call[t]
          /\ call'[s].commit <= c.commit /\ call'[s].commit <= Len(new) /\ call'[s].commit \in Nat
      <3>1. CASE Answer(s, TRUE, Len(new), 0, c.term)
        <4>1. /\ call'[s].entries = <<>> /\ call'[s].commit = 0
              /\ \A t \in Slots \ {s} : call'[t] = call[t]
          <5> HIDE DEF new
          <5> QED
            BY <1>2, <1>4, <3>1, AnswerFacts
        <4> HIDE DEF new
        <4> QED
          BY <1>2, <1>4, <4>1
      <3>2. CASE ~Answer(s, TRUE, Len(new), 0, c.term)
        <4>1. /\ d \in CallState /\ d.entries = <<>> /\ call' = [call EXCEPT ![s] = d]
              /\ d.commit <= c.commit /\ d.commit <= Len(new)
          BY <1>4, <3>2
        <4> HIDE DEF d, new
        <4>2. d.commit \in Nat
          BY <4>1 DEF CallState
        <4>3. call'[s] = d /\ \A t \in Slots \ {s} : call'[t] = call[t]
          BY <1>2, <4>1 DEF TypeOK
        <4> QED
          BY <4>1, <4>2, <4>3
      <3> QED
        BY <3>1, <3>2
    <2>3. log' = [log EXCEPT ![Follower] = new] /\ Len(new) \in Nat
      BY <1>4
    <2> HIDE DEF new
    <2>4. log'[Follower] = new /\ \A n \in Nodes \ {Follower} : log'[n] = log[n]
      BY <1>2, <2>3, NodeFacts DEF TypeOK
    <2>5. log'[Leader] = log[Leader] /\ Initial(log[Leader], log'[Leader])
      BY <1>2, <2>4, NodeFacts, InitialReflexive
    <2>6. \A n \in Mentors \ astray : /\ Initial(log'[n], log'[Leader])
                                      /\ Len(log'[n]) >= Len(log[n]) /\ match'[n] <= Len(log'[n])
      BY <1>1, <1>2, <2>4, <2>5, NodeFacts DEF ChainInv, MentorsAgree
    <2>7. clean' => Initial(log'[Follower], log'[Leader]) /\ Len(log'[Follower]) >= Len(log[Follower])
      BY <2>1, <2>4, <2>5
    <2>8. /\ MentorsAgree' /\ LeaderCommits' /\ QuorumHolds'
          /\ \A t \in Slots :
               Carries(call[t], log'[Leader], commit'[Leader], clean', Len(log'[Follower]), astray')
      BY <1>1, <2>0, <2>5, <2>6, <2>7, Growth
    <2>9. Carries(call'[s], log'[Leader], commit'[Leader], clean', Len(log'[Follower]), astray')
      <3>1. Piece(log'[Leader], call'[s].prev, call'[s].entries)
        BY <2>2, EmptyPiece
      <3>2. call'[s].commit <= commit'[Leader]
        BY <1>1, <1>2, <2>2 DEF Carries
      <3> QED
        BY <2>2, <2>4, <3>1, <3>2 DEF Carries
    <2>10. CallsCarryLog'
      BY <2>2, <2>8, <2>9 DEF CallsCarryLog
    <2>11. FollowerInStep'
      <3>1. SUFFICES ASSUME clean'
                     PROVE  /\ commit[Follower] <= commit[Leader] /\ commit[Follower] <= Len(new)
                            /\ match[Follower] <= Len(new)
                            /\ ack # None => ack <= Len(new)
        BY <1>1, <2>4, <2>7 DEF FollowerInStep
      <3>2. match[Follower] \in Nat /\ (ack # None => ack \in Nat)
        BY <1>2, StateFacts, NodeFacts DEF TypeOK
      <3> QED
        BY <1>2, <2>0, <2>1, <2>3, <3>1, <3>2, NodeFacts DEF ChainInv, FollowerInStep
    <2> QED
      BY <2>8, <2>10, <2>11 DEF ChainInv
  <1> QED
    BY <1>2, <1>3, <1>4, HandleFacts

\* The index that is stored was bounded by the log before, which has not become shorter.
LEMMA AgreeHandleStore ==
    ASSUME ChainInv, TypeOK', NEW s \in Slots, HandleStore(s) PROVE ChainInv'
  <1>1. UNCHANGED <<log, clean, match, ack, astray>>
    BY DEF HandleStore, leaderVars
  <1>2. /\ TypeOK /\ Len(log[Follower]) \in Nat /\ term[Follower] \in Nat
        /\ call[s].pc # "none" /\ call[s].at = "store"
    BY StateFacts, SlotFacts, NodeFacts DEF ChainInv, HandleStore
  <1>3. commit'[Leader] = commit[Leader] /\ commit'[Follower] = call[s].commit
    BY <1>2, NodeFacts DEF HandleStore, TypeOK
  <1>4. Carries(call[s], log[Leader], commit[Leader], clean, Len(log[Follower]), astray)
    BY DEF ChainInv, CallsCarryLog
  <1>5. FollowerInStep'
    BY <1>1, <1>2, <1>3, <1>4 DEF FollowerInStep, ChainInv, Carries
  <1>6. /\ call'[s].entries = <<>> /\ call'[s].commit = 0
        /\ \A t \in Slots \ {s} : call'[t] = call[t]
    BY <1>2, AnswerFacts DEF HandleStore
  <1>7. /\ MentorsAgree' /\ LeaderCommits' /\ QuorumHolds'
        /\ \A t \in Slots :
             Carries(call[t], log'[Leader], commit'[Leader], clean', Len(log'[Follower]), astray')
    BY <1>1, <1>3, SameLogs
  <1>8. Carries(call'[s], log[Leader], commit[Leader], clean, Len(log[Follower]), astray)
    BY <1>2, <1>6, CarriesNothing
  <1>9. CallsCarryLog'
    BY <1>1, <1>3, <1>6, <1>7, <1>8 DEF CallsCarryLog
  <1> QED
    BY <1>5, <1>7, <1>9 DEF ChainInv

LEMMA ChainStep == ChainInv /\ [Next]_vars => ChainInv'
  <1> SUFFICES ASSUME ChainInv, [Next]_vars PROVE ChainInv'
    OBVIOUS
  <1>1. TypeOK'
    BY TypeStep DEF ChainInv
  <1>2. CASE UNCHANGED vars
    BY <1>1, <1>2, AgreeQuiet DEF vars
  <1>3. CASE Propose \/ BecomeLeader
    BY <1>1, <1>3, AgreeElections
  <1>4. CASE MaybeCommit
    BY <1>1, <1>4, AgreeMaybeCommit
  <1>5. CASE Rebind \/ FollowerCampaigns
    BY <1>1, <1>5, AgreeQuiet DEF Rebind, FollowerCampaigns, leaderVars
  <1>6. CASE \E m \in Mentors : HeartbeatMentor(m) \/ MentorRefuses(m)
    BY <1>1, <1>6, AgreeQuiet DEF HeartbeatMentor, MentorRefuses, leaderVars
  <1>7. CASE \E m \in Mentors, s \in Slots : Receive(m, s)
    BY <1>1, <1>7, AgreeReceive
  <1>8. CASE HeartbeatFollower \/ ReplicateDirectly \/ DirectAnswer
    BY <1>1, <1>8, AgreeHeartbeat, AgreeReplicateDirectly, AgreeDirectAnswer
  <1>9. CASE \E s \in Slots : ForwardBegin(s) \/ ForwardSend(s) \/ ForwardAnswer(s) \/ Deadline(s)
    BY <1>1, <1>9, AgreeForward
  <1>10. CASE \E s \in Slots : Handle(s) \/ HandleStore(s)
    BY <1>1, <1>10, AgreeHandle, AgreeHandleStore
  <1> QED
    BY <1>2, <1>3, <1>4, <1>5, <1>6, <1>7, <1>8, <1>9, <1>10 DEF Next

LEMMA ChainInit == Init => ChainInv
  <1> SUFFICES ASSUME Init PROVE ChainInv
    OBVIOUS
  <1>1. TypeOK
    BY InitTypes
  <1>2. /\ clean = IsPrefix(log[Follower], log[Leader])
        /\ astray = {m \in Mentors : ~IsPrefix(log[m], log[Leader])}
    BY DEF Init
  <1>4. \A n \in Nodes : log[n] \in Logs /\ Len(log[n]) \in Nat
    BY <1>1, StateFacts
  <1>7. /\ commit[Leader] = 0 /\ commit[Follower] = 0 /\ ack = None
        /\ \A p \in Peers : match[p] = 0
    BY DEF Init
  <1>6. MentorsAgree
    <2> SUFFICES ASSUME NEW m \in Mentors \ astray
                 PROVE  Initial(log[m], log[Leader]) /\ match[m] <= Len(log[m])
      BY DEF MentorsAgree
    <2>1. IsPrefix(log[m], log[Leader])
      BY <1>2
    <2>2. Initial(log[m], log[Leader]) /\ Len(log[m]) \in Nat
      BY <1>4, <2>1, PrefixFacts, NodeFacts
    <2>3. match[m] = 0
      BY <1>7, NodeFacts
    <2> QED
      BY <2>2, <2>3
  <1>8. LeaderCommits
    BY <1>4, <1>7, NodeFacts DEF LeaderCommits
  <1>9. FollowerInStep
    <2>1. clean => Initial(log[Follower], log[Leader])
      BY <1>2, <1>4, PrefixFacts, NodeFacts
    <2>2. 0 <= Len(log[Follower])
      BY <1>4, NodeFacts
    <2> QED
      BY <1>7, <2>1, <2>2, NodeFacts DEF FollowerInStep
  <1>10. QuorumHolds
    BY <1>7 DEF QuorumHolds
  <1>11. CallsCarryLog
    <2>1. \A s \in Slots : call[s] = Free
      BY DEF Init
    <2>2. Carries(Free, log[Leader], commit[Leader], clean, Len(log[Follower]), astray)
      BY <1>1, FreeFacts, CarriesNothing
    <2> QED
      BY <2>1, <2>2 DEF CallsCarryLog
  <1> QED
    BY <1>1, <1>6, <1>8, <1>9, <1>10, <1>11 DEF ChainInv

LEMMA InvAgrees == ChainInv => FollowerAgrees
  <1> SUFFICES ASSUME ChainInv, clean PROVE IsPrefix(log[Follower], log[Leader])
    BY DEF FollowerAgrees
  <1>1. log[Follower] \in Logs /\ log[Leader] \in Logs
    BY StateFacts, NodeFacts DEF ChainInv
  <1> QED
    BY <1>1, PrefixFacts DEF ChainInv, FollowerInStep

LEMMA InvCommits == ChainInv => FollowerCommits
  <1> SUFFICES ASSUME ChainInv, clean
               PROVE  /\ commit[Follower] <= commit[Leader]
                      /\ commit[Follower] <= Len(log[Follower])
                      /\ IsPrefix(SubSeq(log[Follower], 1, commit[Follower]), log[Leader])
    BY DEF FollowerCommits
  <1> DEFINE b == commit[Follower]
             t == SubSeq(log[Follower], 1, b)
  <1>1. /\ log[Follower] \in Logs /\ log[Leader] \in Logs /\ b \in Nat
        /\ Len(log[Follower]) \in Nat /\ Len(log[Leader]) \in Nat
    BY StateFacts, NodeFacts DEF ChainInv
  <1>2. b <= commit[Leader] /\ b <= Len(log[Follower]) /\ Initial(log[Follower], log[Leader])
    BY DEF ChainInv, FollowerInStep
  <1> HIDE DEF b
  <1>3. /\ t \in Logs /\ Len(t) = IF 1 <= b THEN b - 1 + 1 ELSE 0
        /\ \A i \in 1 .. b - 1 + 1 : t[i] = log[Follower][1 + i - 1]
    BY <1>1, <1>2, CutFacts
  <1> HIDE DEF t
  <1>4. Len(t) = b /\ \A i \in 1 .. b : t[i] = log[Follower][i]
    BY <1>1, <1>3
  <1>5. Initial(t, log[Leader])
    BY <1>1, <1>2, <1>4 DEF Initial
  <1>6. IsPrefix(t, log[Leader])
    BY <1>1, <1>3, <1>5, PrefixFacts
  <1> QED
    BY <1>2, <1>6 DEF b, t

LEMMA InvQuorum == ChainInv => CommittedOnQuorum
  <1> SUFFICES ASSUME ChainInv, clean, astray = {}, NEW i \in 1 .. commit[Leader]
               PROVE  Cardinality({n \in Nodes : Len(log[n]) >= i /\ log[n][i] = log[Leader][i]})
                        >= QuorumSize
    BY DEF CommittedOnQuorum
  <1>1. Cardinality(Reach(log, i)) >= QuorumSize
    BY DEF ChainInv, QuorumHolds
  <1>2. \A n \in Nodes : Initial(log[n], log[Leader])
    <2>1. Initial(log[Leader], log[Leader])
      BY StateFacts, NodeFacts, InitialReflexive DEF ChainInv
    <2> QED
      BY <2>1 DEF ChainInv, MentorsAgree, FollowerInStep, Nodes, Peers
  <1>3. i \in Nat \ {0} /\ \A n \in Nodes : Len(log[n]) \in Nat
    BY StateFacts DEF ChainInv
  <1>4. Reach(log, i) = {n \in Nodes : Len(log[n]) >= i /\ log[n][i] = log[Leader][i]}
    BY <1>2, <1>3 DEF Reach, Initial
  <1> QED
    BY <1>1, <1>4

\* The invariant behind the theorems below: mentors that began in agreement with the
\* leader stay so and forward pieces of its log; a follower that took nothing from any other
\* has an initial part of the leader's log.
THEOREM ChainInvariant == Spec => []ChainInv
  BY ChainInit, ChainStep, PTL DEF Spec

\* Forwards of mentors that lag behind, arrive late, twice or out of order, next to direct
\* sends, elections and new bindings, never make the follower's log anything but an
\* initial part of the leader's, until it stores an entry forwarded by a mentor whose own
\* log had diverged.
THEOREM FollowerInAgreement == Spec => []FollowerAgrees
  BY ChainInvariant, InvAgrees, PTL

\* Until then, the follower takes for committed only what the leader has committed and it
\* has itself, although the index is computed in one step of the handler and stored in
\* another.
THEOREM FollowerCommitsReal == Spec => []FollowerCommits
  BY ChainInvariant, InvCommits, PTL

\* If no log had diverged, what the leader has committed is in the logs of a quorum of
\* leader, mentors and follower, and stays there through later forwards and elections of
\* the same leader.
THEOREM CommitsOnQuorum == Spec => []CommittedOnQuorum
  BY ChainInvariant, InvQuorum, PTL
=============================================================================
