------------------------- MODULE RaftElectionProofs -------------------------
(***************************************************************************)
(* Proofs about RaftElection, for any cluster and any bounds.              *)
(***************************************************************************)
EXTENDS RaftElection, FiniteSetTheorems, TLAPS

NodeTypes ==
    /\ current_term \in [Server -> Term]
    /\ voted_for \in [Server -> Server \cup {Nil}]
    /\ state \in [Server -> {"follower", "candidate", "leader"}]
    /\ meta \in [Server -> [term: Term, voted_for: Server \cup {Nil}]]
    /\ forgotten \subseteq (Server \X Term)
    /\ late \subseteq Server

RoundTypes ==
    /\ election \in [Server -> [pc: {"idle", "prepare", "wait", "won"}, term: Term,
                                votes: SUBSET Server, highest: Term]]
    /\ heartbeat \in [Server -> [pc: {"idle", "term", "wait"}, term: Term, highest: Term]]

BoundTypes == restarts \in 0..MaxRestarts /\ lost \in 0..MaxLost /\ rounds \in 0..MaxRounds

\* BecomeFollower, called with a term of the model, keeps the types of the node state.
LEMMA BecomeFollowerType ==
    ASSUME NodeTypes, NEW n \in Server, NEW t \in Term, BecomeFollower(n, t)
    PROVE  NodeTypes'
  BY DEF NodeTypes, BecomeFollower, PersistMeta, nodeVars

\* BecomeCandidate below the term bound keeps the types of the node state.
LEMMA BecomeCandidateType ==
    ASSUME NodeTypes, votes_cast \subseteq (Server \X Server \X Term),
           NEW n \in Server, current_term[n] < MaxTerm, BecomeCandidate(n)
    PROVE  NodeTypes' /\ votes_cast' \subseteq (Server \X Server \X Term)
  <1> DEFINE next_term == current_term[n] + 1
  <1>1. next_term \in Term
    BY BoundAssumption DEF NodeTypes, Term
  <1>2. current_term' = [current_term EXCEPT ![n] = next_term]
        /\ meta' = [meta EXCEPT ![n] = [term |-> next_term, voted_for |-> n]]
        /\ voted_for' = [voted_for EXCEPT ![n] = n]
        /\ state' = [state EXCEPT ![n] = "candidate"]
        /\ votes_cast' = votes_cast \cup {<<n, n, next_term>>}
        /\ UNCHANGED <<forgotten, late>>
    BY DEF BecomeCandidate, PersistMeta
  <1> HIDE DEF next_term
  <1>3. QED
    BY <1>1, <1>2 DEF NodeTypes

\* Advancing a handler keeps the set of RPCs well typed.
LEMMA AdvanceType ==
    ASSUME requests \subseteq Request, NEW r \in requests,
           NEW phase \in {"sent", "locking", "role", "demote", "vote"}, Advance(r, phase)
    PROVE  requests' \subseteq Request
  BY DEF Advance, Request

\* Sending a round keeps the set of RPCs well typed.
LEMMA SendType ==
    ASSUME requests \subseteq Request, NEW kind \in {"vote", "heartbeat"},
           NEW n \in Server, NEW t \in Term, Send(kind, n, t)
    PROVE  requests' \subseteq Request
  <1> DEFINE Call(p) == [kind |-> kind, from |-> n, to |-> p, term |-> t,
                         phase |-> "sent", awaited |-> TRUE]
  <1>1. \A p \in Server : Call(p) \in Request
    BY DEF Request
  <1>2. requests' = requests \cup {Call(p) : p \in Server \ {n}}
    BY DEF Send
  <1>3. QED
    BY <1>1, <1>2

\* A response keeps the types of the rounds, whether it is delivered or lost.
LEMMA RespondType ==
    ASSUME RoundTypes, BoundTypes, requests \subseteq Request, NEW r \in requests,
           NEW t \in Term, NEW granted \in BOOLEAN, Respond(r, t, granted)
    PROVE  RoundTypes' /\ BoundTypes' /\ requests' \subseteq Request
  <1>1. r.from \in Server /\ r.to \in Server
    BY DEF Request
  <1>2. requests' \subseteq Request
    BY DEF Respond
  <1>3. BoundTypes'
    BY BoundAssumption DEF Respond, BoundTypes
  <1>4. RoundTypes'
    <2>1. CASE UNCHANGED <<election, heartbeat>>
      BY <2>1 DEF RoundTypes
    <2>2. CASE /\ election' = [election EXCEPT ![r.from] =
                      [pc |-> @.pc, term |-> @.term, highest |-> MaxOf(@.highest, t),
                       votes |-> IF granted THEN @.votes \cup {r.to} ELSE @.votes]]
               /\ UNCHANGED heartbeat
      BY <1>1, <2>2 DEF RoundTypes, MaxOf
    <2>3. CASE /\ heartbeat' = [heartbeat EXCEPT ![r.from].highest = MaxOf(@, t)]
               /\ UNCHANGED election
      BY <1>1, <2>3 DEF RoundTypes, MaxOf
    <2>4. QED
      BY <2>1, <2>2, <2>3 DEF Respond
  <1>5. QED
    BY <1>2, <1>3, <1>4

\* TypeOK, regrouped as the lemmas need it.
LEMMA TypeParts ==
    TypeOK <=> /\ NodeTypes
               /\ RoundTypes
               /\ BoundTypes
               /\ requests \subseteq Request
               /\ votes_cast \subseteq (Server \X Server \X Term)
  BY DEF TypeOK, NodeTypes, RoundTypes, BoundTypes

\* The records of a round that is over are well typed.
LEMMA IdleType ==
    /\ IdleElection \in [pc: {"idle", "prepare", "wait", "won"}, term: Term,
                         votes: SUBSET Server, highest: Term]
    /\ IdleHeartbeat \in [pc: {"idle", "term", "wait"}, term: Term, highest: Term]
  BY BoundAssumption DEF IdleElection, IdleHeartbeat, Term

\* Every step of the specification keeps the types.
LEMMA TypeStep == TypeOK /\ [Next]_vars => TypeOK'
  <1> SUFFICES ASSUME TypeOK, [Next]_vars PROVE TypeOK'
    OBVIOUS
  <1> USE TypeParts, IdleType, BoundAssumption
  <1>1. ASSUME NEW n \in Server, ElectionTimeout(n) PROVE TypeOK'
    <2>1. NodeTypes' /\ votes_cast' \subseteq (Server \X Server \X Term)
      BY <1>1, BecomeCandidateType DEF ElectionTimeout
    <2>2. RoundTypes' /\ BoundTypes' /\ requests' \subseteq Request
      BY <1>1 DEF ElectionTimeout, RoundTypes, BoundTypes, bounds
    <2>3. QED
      BY <2>1, <2>2 DEF TypeOK, NodeTypes, RoundTypes, BoundTypes
  <1>2. ASSUME NEW n \in Server, SendRequestVotes(n) PROVE TypeOK'
    <2>1. current_term[n] \in Term
      BY DEF NodeTypes
    <2>2. requests' \subseteq Request
      BY <1>2, <2>1, SendType DEF SendRequestVotes
    <2>3. RoundTypes'
      BY <1>2, <2>1 DEF SendRequestVotes, RoundTypes
    <2>4. QED
      BY <1>2, <2>2, <2>3 DEF SendRequestVotes, TypeOK, RoundTypes, nodeVars, bounds
  <1>3. ASSUME NEW n \in Server, ElectionStepDown(n) PROVE TypeOK'
    <2>1. election[n].highest \in Term
      BY DEF RoundTypes
    <2>2. NodeTypes'
      BY <1>3, <2>1, BecomeFollowerType DEF ElectionStepDown
    <2>3. QED
      BY <1>3, <2>2 DEF ElectionStepDown, TypeOK, NodeTypes, bounds
  <1>4. ASSUME NEW n \in Server, CountVotes(n) PROVE TypeOK'
    <2>1. [election[n] EXCEPT !.pc = "won"] \in
              [pc: {"idle", "prepare", "wait", "won"}, term: Term,
               votes: SUBSET Server, highest: Term]
      BY DEF RoundTypes
    <2>2. QED
      BY <1>4, <2>1 DEF CountVotes, TypeOK, nodeVars, bounds
  <1>5. ASSUME NEW n \in Server, BecomeLeader(n) PROVE TypeOK'
    BY <1>5 DEF BecomeLeader, TypeOK, bounds
  <1>6. ASSUME NEW n \in Server, HeartbeatThread(n) PROVE TypeOK'
    <2>1. CASE HeartbeatStart(n)
      <3>1. BoundTypes'
        BY <2>1 DEF HeartbeatStart, BoundTypes
      <3>2. RoundTypes'
        BY <2>1 DEF HeartbeatStart, RoundTypes
      <3>3. QED
        BY <2>1, <3>1, <3>2 DEF HeartbeatStart, TypeOK, RoundTypes, BoundTypes, nodeVars
    <2>2. CASE HeartbeatSend(n)
      <3>1. current_term[n] \in Term
        BY DEF NodeTypes
      <3>2. requests' \subseteq Request
        BY <2>2, <3>1, SendType DEF HeartbeatSend
      <3>3. RoundTypes'
        BY <2>2, <3>1 DEF HeartbeatSend, RoundTypes
      <3>4. QED
        BY <2>2, <3>2, <3>3 DEF HeartbeatSend, TypeOK, RoundTypes, nodeVars, bounds
    <2>3. CASE HeartbeatFinish(n)
      <3>1. heartbeat[n].highest \in Term
        BY DEF RoundTypes
      <3>2. NodeTypes'
        <4>1. CASE BecomeFollower(n, heartbeat[n].highest)
          BY <4>1, <3>1, BecomeFollowerType
        <4>2. CASE UNCHANGED nodeVars
          BY <4>2 DEF NodeTypes, nodeVars
        <4>3. QED
          BY <2>3, <4>1, <4>2 DEF HeartbeatFinish
      <3>3. QED
        BY <2>3, <3>2 DEF HeartbeatFinish, TypeOK, NodeTypes, bounds
    <2>4. QED
      BY <1>6, <2>1, <2>2, <2>3 DEF HeartbeatThread
  <1>7. ASSUME NEW n \in Server, Restart(n) PROVE TypeOK'
    <2>1. requests' \subseteq Request
      <3>1. \A r \in requests : r \in Request /\ [r EXCEPT !.awaited = FALSE] \in Request
        <4>1. requests \subseteq Request
          BY DEF TypeOK
        <4>2. \A r \in Request : [r EXCEPT !.awaited = FALSE] \in Request
          BY DEF Request
        <4> QED
          BY <4>1, <4>2
      <3> QED
        BY <1>7, <3>1 DEF Restart
    <2>2. QED
      BY <1>7, <2>1 DEF Restart, TypeOK
  <1>8. ASSUME NEW r \in requests, Handler(r) PROVE TypeOK'
    <2>1. r.to \in Server /\ r.from \in Server /\ r.term \in Term
          /\ current_term[r.to] \in Term
      BY DEF Request, NodeTypes
    <2>2. CASE RequestVoteEnter(r)
      <3>1. NodeTypes' /\ votes_cast' \subseteq (Server \X Server \X Term)
        BY <2>2 DEF RequestVoteEnter, nodeVars, NodeTypes
      <3>2. RoundTypes' /\ BoundTypes' /\ requests' \subseteq Request
        <4>1. CASE Respond(r, current_term[r.to], FALSE)
          BY <2>1, <4>1, RespondType
        <4>2. CASE \E phase \in {"demote", "vote"} : Advance(r, phase)
                       /\ UNCHANGED <<election, heartbeat, bounds>>
          BY <4>2, AdvanceType DEF RoundTypes, BoundTypes, bounds
        <4>3. QED
          BY <2>2, <4>1, <4>2 DEF RequestVoteEnter
      <3>3. QED
        BY <3>1, <3>2 DEF TypeOK, NodeTypes, RoundTypes, BoundTypes
    <2>3. CASE RequestVoteDemote(r)
      <3>1. NodeTypes'
        BY <2>1, <2>3, BecomeFollowerType DEF RequestVoteDemote
      <3>2. requests' \subseteq Request
        BY <2>3, AdvanceType DEF RequestVoteDemote
      <3>3. QED
        BY <2>3, <3>1, <3>2 DEF RequestVoteDemote, TypeOK, NodeTypes, bounds
    <2>4. CASE RequestVoteDecide(r)
      <3>1. RoundTypes' /\ BoundTypes' /\ requests' \subseteq Request
        BY <2>1, <2>4, RespondType DEF RequestVoteDecide
      <3>2. NodeTypes' /\ votes_cast' \subseteq (Server \X Server \X Term)
        <4>1. CASE UNCHANGED <<nodeVars, votes_cast>>
          BY <4>1 DEF NodeTypes, nodeVars
        <4>2. CASE /\ PersistMeta(r.to, r.term, r.from)
                   /\ voted_for' = [voted_for EXCEPT ![r.to] = r.from]
                   /\ state' = [state EXCEPT ![r.to] = "follower"]
                   /\ votes_cast' = votes_cast \cup {<<r.to, r.from, r.term>>}
                   /\ forgotten' = IF r.term < current_term[r.to]
                          THEN forgotten \cup ({r.to} \X (r.term..current_term[r.to]))
                          ELSE forgotten
                   /\ UNCHANGED <<current_term, late>>
          <5>1. r.term..current_term[r.to] \subseteq Term
            BY <2>1 DEF Term
          <5>2. forgotten' \subseteq (Server \X Term)
            BY <2>1, <4>2, <5>1 DEF NodeTypes
          <5>3. QED
            BY <2>1, <4>2, <5>2 DEF PersistMeta, NodeTypes
        <4>3. QED
          BY <2>4, <4>1, <4>2 DEF RequestVoteDecide
      <3>3. QED
        BY <3>1, <3>2 DEF TypeOK, NodeTypes, RoundTypes, BoundTypes
    <2>5. CASE HeartbeatEnter(r) \/ HeartbeatLocked(r) \/ HeartbeatRole(r)
      <3>1. NodeTypes' /\ votes_cast' \subseteq (Server \X Server \X Term)
        BY <2>5 DEF HeartbeatEnter, HeartbeatLocked, HeartbeatRole, nodeVars, NodeTypes
      <3>2. RoundTypes' /\ BoundTypes' /\ requests' \subseteq Request
        <4>1. CASE Respond(r, current_term[r.to], FALSE)
          BY <2>1, <4>1, RespondType
        <4>2. CASE \E phase \in {"demote", "locking", "role"} : Advance(r, phase)
                       /\ UNCHANGED <<election, heartbeat, bounds>>
          BY <4>2, AdvanceType DEF RoundTypes, BoundTypes, bounds
        <4>3. QED
          BY <2>5, <4>1, <4>2 DEF HeartbeatEnter, HeartbeatLocked, HeartbeatRole
      <3>3. QED
        BY <3>1, <3>2 DEF TypeOK, NodeTypes, RoundTypes, BoundTypes
    <2>6. CASE HeartbeatDemote(r)
      <3>1. NodeTypes'
        BY <2>1, <2>6, BecomeFollowerType DEF HeartbeatDemote
      <3>2. RoundTypes' /\ BoundTypes' /\ requests' \subseteq Request
        <4>1. CASE Respond(r, r.term, FALSE)
          BY <2>1, <4>1, RespondType
        <4>2. CASE requests' = requests \ {r} /\ UNCHANGED <<election, heartbeat, bounds>>
          BY <4>2 DEF RoundTypes, BoundTypes, bounds
        <4>3. QED
          BY <2>6, <4>1, <4>2 DEF HeartbeatDemote
      <3>3. QED
        BY <2>6, <3>1, <3>2 DEF HeartbeatDemote, TypeOK, NodeTypes, RoundTypes, BoundTypes
    <2>7. QED
      BY <1>8, <2>2, <2>3, <2>4, <2>5, <2>6 DEF Handler
  <1>9. ASSUME NEW r \in requests, RpcTimeout(r) PROVE TypeOK'
    <2>1. requests' \subseteq Request
      BY <1>9 DEF RpcTimeout, Request
    <2>2. BoundTypes'
      BY <1>9 DEF RpcTimeout, BoundTypes
    <2>3. QED
      BY <1>9, <2>1, <2>2 DEF RpcTimeout, TypeOK, BoundTypes, nodeVars
  <1>10. CASE UNCHANGED vars
    BY <1>10 DEF vars, nodeVars, bounds, TypeOK
  <1>11. QED
    BY <1>1, <1>2, <1>3, <1>4, <1>5, <1>6, <1>7, <1>8, <1>9, <1>10
       DEF Next, ElectionThread

\* Every behaviour of the election keeps the types of its state: terms stay within the
\* model, votes name nodes, and a restart reads back a well-typed meta file.
THEOREM TypeCorrect == Spec => []TypeOK
  <1>1. Init => TypeOK
    BY IdleType, BoundAssumption DEF Init, TypeOK, Term
  <1>2. QED
    BY <1>1, TypeStep, PTL DEF Spec

-----------------------------------------------------------------------------
(* The votes behind a leader.                                              *)

\* What BecomeFollower may do to terms and roles.
LEMMA BecomeFollowerFacts ==
    ASSUME NodeTypes, NEW n \in Server, NEW t \in Term, BecomeFollower(n, t)
    PROVE  /\ \A m \in Server : current_term'[m] >= current_term[m]
           /\ \A m \in Server : state'[m] = "candidate" =>
                  state[m] = "candidate" /\ current_term'[m] = current_term[m]
           /\ \A m \in Server : state'[m] = "leader" =>
                  state[m] = "leader" /\ current_term'[m] = current_term[m]
           /\ late' = late
           /\ t <= current_term'[n]
  <1>1. \A m \in Server : current_term[m] \in Nat
    BY DEF NodeTypes, Term
  <1>2. t \in Nat
    BY DEF Term
  <1>3. CASE t < current_term[n]
    BY <1>1, <1>2, <1>3 DEF BecomeFollower, nodeVars
  <1>4. CASE ~(t < current_term[n])
    BY <1>1, <1>2, <1>4 DEF BecomeFollower, NodeTypes
  <1>5. QED
    BY <1>3, <1>4

\* What a response may do to a round: at most record a vote that the handler granted, in
\* the round that waits for it.
LEMMA RespondFacts ==
    ASSUME RoundTypes, requests \subseteq Request, NEW r \in requests,
           NEW t \in Term, NEW granted \in BOOLEAN, Respond(r, t, granted)
    PROVE  /\ requests' = requests \ {r}
           /\ \A n \in Server :
                  /\ election'[n].pc = election[n].pc
                  /\ election'[n].term = election[n].term
                  /\ \/ election'[n].votes = election[n].votes
                     \/ /\ granted /\ n = r.from /\ r.kind = "vote" /\ r.awaited
                        /\ election'[n].votes = election[n].votes \cup {r.to}
  <1>1. r.from \in Server /\ r.to \in Server
    BY DEF Request
  <1>2. requests' = requests \ {r}
    BY DEF Respond
  <1>3. CASE UNCHANGED election
    BY <1>2, <1>3
  <1>4. CASE /\ r.awaited /\ r.kind = "vote"
             /\ election' = [election EXCEPT ![r.from] =
                    [pc |-> @.pc, term |-> @.term, highest |-> MaxOf(@.highest, t),
                     votes |-> IF granted THEN @.votes \cup {r.to} ELSE @.votes]]
    <2>1. \A n \in Server : n # r.from => election'[n] = election[n]
      BY <1>1, <1>4 DEF RoundTypes
    <2>2. /\ election'[r.from].pc = election[r.from].pc
          /\ election'[r.from].term = election[r.from].term
          /\ election'[r.from].votes = IF granted THEN election[r.from].votes \cup {r.to}
                                                  ELSE election[r.from].votes
      BY <1>1, <1>4 DEF RoundTypes
    <2>3. QED
      BY <1>2, <1>4, <2>1, <2>2
  <1>5. QED
    BY <1>3, <1>4 DEF Respond

\* The RPC part of the invariant survives a step that keeps the rounds, lowers no term
\* and adds no RPC; a handler may reach its voting phase once its term is reached.
LEMMA RequestsKept ==
    ASSUME TypeOK, AwaitedInRound, VotingTermReached,
           \A n \in Server : /\ current_term'[n] \in Nat
                             /\ current_term'[n] >= current_term[n]
                             /\ election'[n].pc = election[n].pc
                             /\ election'[n].term = election[n].term,
           \A q \in requests' : \E r \in requests :
               /\ q.kind = r.kind /\ q.from = r.from /\ q.to = r.to /\ q.term = r.term
               /\ q.awaited => r.awaited
               /\ q.phase = "vote" => r.phase = "vote" \/ r.term <= current_term'[r.to]
    PROVE  AwaitedInRound' /\ VotingTermReached'
  <1>1. ASSUME NEW q \in requests'
        PROVE  /\ q.kind = "vote" /\ q.awaited =>
                      election'[q.from].pc = "wait" /\ election'[q.from].term = q.term
               /\ q.phase = "vote" => q.term <= current_term'[q.to]
    <2>1. PICK r \in requests :
               /\ q.kind = r.kind /\ q.from = r.from /\ q.to = r.to /\ q.term = r.term
               /\ q.awaited => r.awaited
               /\ q.phase = "vote" => r.phase = "vote" \/ r.term <= current_term'[r.to]
      OBVIOUS
    <2>2. r.from \in Server /\ r.to \in Server /\ r.term \in Nat
          /\ current_term[r.to] \in Nat
      BY DEF TypeOK, Request, Term
    <2>3. r.kind = "vote" /\ r.awaited =>
              election[r.from].pc = "wait" /\ election[r.from].term = r.term
      BY DEF AwaitedInRound
    <2>4. r.phase = "vote" => r.term <= current_term[r.to]
      BY DEF VotingTermReached
    <2>5. QED
      BY <2>1, <2>2, <2>3, <2>4
  <1>2. QED
    BY <1>1 DEF AwaitedInRound, VotingTermReached

\* The tally survives a step that keeps the votes cast and the rounds, lowers no term
\* and makes no candidate.
LEMMA TallyKept ==
    ASSUME TypeOK, TallyIsReal, votes_cast \subseteq votes_cast',
           \A n \in Server : /\ current_term'[n] \in Nat
                             /\ current_term'[n] >= current_term[n]
                             /\ state'[n] = "candidate" =>
                                    state[n] = "candidate" /\ current_term'[n] = current_term[n]
                             /\ election'[n].pc = election[n].pc
                             /\ election'[n].term = election[n].term
                             /\ election'[n].votes = election[n].votes
    PROVE  TallyIsReal'
  <1>1. \A n \in Server : current_term[n] \in Nat /\ election[n].term \in Nat
    BY DEF TypeOK, Term
  <1>2. ASSUME NEW n \in Server
        PROVE  /\ election'[n].pc \in {"wait", "won"} =>
                      /\ election'[n].term <= current_term'[n]
                      /\ \A v \in election'[n].votes \ {n} :
                             <<v, n, election'[n].term>> \in votes_cast'
               /\ election'[n].pc = "won" =>
                      <<n, n, election'[n].term>> \in votes_cast'
               /\ state'[n] = "candidate" => <<n, n, current_term'[n]>> \in votes_cast'
    <2>1. /\ current_term'[n] >= current_term[n] /\ current_term'[n] \in Nat
          /\ state'[n] = "candidate" =>
                 state[n] = "candidate" /\ current_term'[n] = current_term[n]
          /\ election'[n].pc = election[n].pc
          /\ election'[n].term = election[n].term
          /\ election'[n].votes = election[n].votes
      OBVIOUS
    <2>2. /\ election[n].pc \in {"wait", "won"} =>
                 /\ election[n].term <= current_term[n]
                 /\ \A v \in election[n].votes \ {n} : <<v, n, election[n].term>> \in votes_cast
          /\ election[n].pc = "won" => <<n, n, election[n].term>> \in votes_cast
          /\ state[n] = "candidate" => <<n, n, current_term[n]>> \in votes_cast
      BY DEF TallyIsReal
    <2>3. QED
      BY <1>1, <2>1, <2>2
  <1>3. ASSUME NEW n \in Server, election'[n].pc = "won"
        PROVE  Cardinality(election'[n].votes) >= QuorumSize
    <2>1. election[n].pc = "won" /\ election'[n].votes = election[n].votes
      BY <1>3
    <2>2. Cardinality(election[n].votes) >= QuorumSize
      BY <2>1 DEF TallyIsReal, IsQuorum
    <2>3. QED
      BY <2>1, <2>2
  <1>4. QED
    BY <1>2, <1>3 DEF TallyIsReal, IsQuorum

\* A step whose role change is BecomeFollower and that keeps rounds and votes cast.
LEMMA StepDownKeepsInv ==
    ASSUME TypeOK, TypeOK', ElectionInv, NEW n \in Server, NEW t \in Term,
           BecomeFollower(n, t), UNCHANGED votes_cast,
           \A m \in Server : /\ election'[m].pc = election[m].pc
                             /\ election'[m].term = election[m].term
                             /\ election'[m].votes = election[m].votes
    PROVE  /\ TallyIsReal'
           /\ requests' \subseteq requests => AwaitedInRound' /\ VotingTermReached'
  <1>1. \A m \in Server : /\ current_term'[m] >= current_term[m]
                          /\ state'[m] = "candidate" =>
                                 state[m] = "candidate" /\ current_term'[m] = current_term[m]
    BY BecomeFollowerFacts, TypeParts
  <1>2. \A m \in Server : current_term'[m] \in Nat
    BY DEF TypeOK, Term
  <1>3. TallyIsReal'
    BY <1>1, <1>2, TallyKept DEF ElectionInv
  <1>4. ASSUME requests' \subseteq requests PROVE AwaitedInRound' /\ VotingTermReached'
    BY <1>1, <1>2, <1>4, RequestsKept DEF ElectionInv
  <1>5. QED
    BY <1>3, <1>4

\* A step that leaves the nodes alone and changes no round.
LEMMA QuietKeepsInv ==
    ASSUME TypeOK, TypeOK', ElectionInv, UNCHANGED <<nodeVars, votes_cast>>,
           \A m \in Server : /\ election'[m].pc = election[m].pc
                             /\ election'[m].term = election[m].term
                             /\ election'[m].votes = election[m].votes,
           \A q \in requests' : \E r \in requests :
               /\ q.kind = r.kind /\ q.from = r.from /\ q.to = r.to /\ q.term = r.term
               /\ q.awaited => r.awaited
               /\ q.phase = "vote" => r.phase = "vote" \/ r.term <= current_term[r.to]
    PROVE  ElectionInv'
  <1>1. \A m \in Server : /\ current_term'[m] \in Nat
                          /\ current_term'[m] = current_term[m] /\ state'[m] = state[m]
    BY DEF nodeVars, TypeOK, Term
  <1>2. TallyIsReal'
    BY <1>1, TallyKept DEF ElectionInv
  <1>3. \A q \in requests' : \E r \in requests :
               /\ q.kind = r.kind /\ q.from = r.from /\ q.to = r.to /\ q.term = r.term
               /\ q.awaited => r.awaited
               /\ q.phase = "vote" => r.phase = "vote" \/ r.term <= current_term'[r.to]
    BY DEF nodeVars
  <1>4. AwaitedInRound' /\ VotingTermReached'
    BY <1>1, <1>3, RequestsKept DEF ElectionInv
  <1>5. QED
    BY <1>2, <1>4 DEF ElectionInv

\* A round that is sent or finished, or a node that becomes leader: only the round of
\* node n changes, and the RPCs of that round.
LEMMA RoundKeepsInv ==
    ASSUME TypeOK, TypeOK', ElectionInv, NEW n \in Server,
           UNCHANGED <<current_term, votes_cast>>,
           \A m \in Server \ {n} : election'[m] = election[m] /\ state'[m] = state[m],
           state'[n] = "candidate" => state[n] = "candidate",
           election'[n].pc \in {"wait", "won"} =>
               /\ election'[n].term <= current_term[n]
               /\ \A v \in election'[n].votes \ {n} : <<v, n, election'[n].term>> \in votes_cast,
           election'[n].pc = "won" =>
               /\ <<n, n, election'[n].term>> \in votes_cast
               /\ Cardinality(election'[n].votes) >= QuorumSize,
           \A r \in requests' :
               /\ r.phase = "vote" => r \in requests
               /\ r.kind = "vote" /\ r.awaited =>
                      \/ r \in requests /\ r.from # n
                      \/ r.from = n /\ election'[n].pc = "wait" /\ election'[n].term = r.term
    PROVE  ElectionInv'
  <1>1. TallyIsReal'
    <2>1. ASSUME NEW m \in Server
          PROVE  /\ election'[m].pc \in {"wait", "won"} =>
                        /\ election'[m].term <= current_term'[m]
                        /\ \A v \in election'[m].votes \ {m} :
                               <<v, m, election'[m].term>> \in votes_cast'
                 /\ election'[m].pc = "won" =>
                        /\ <<m, m, election'[m].term>> \in votes_cast'
                        /\ Cardinality(election'[m].votes) >= QuorumSize
                 /\ state'[m] = "candidate" => <<m, m, current_term'[m]>> \in votes_cast'
      <3>1. CASE m = n
        BY <3>1 DEF ElectionInv, TallyIsReal
      <3>2. CASE m # n
        <4>1. election'[m] = election[m] /\ state'[m] = state[m]
          BY <3>2
        <4>2. QED
          BY <4>1 DEF ElectionInv, TallyIsReal, IsQuorum
      <3>3. QED
        BY <3>1, <3>2
    <2>2. QED
      BY <2>1 DEF TallyIsReal, IsQuorum
  <1>2. AwaitedInRound'
    <2>1. ASSUME NEW r \in requests', r.kind = "vote", r.awaited
          PROVE  election'[r.from].pc = "wait" /\ election'[r.from].term = r.term
      <3>1. CASE r \in requests /\ r.from # n
        <4>1. r.from \in Server
          BY <3>1 DEF TypeOK, Request
        <4>2. election'[r.from] = election[r.from]
          BY <3>1, <4>1
        <4>3. election[r.from].pc = "wait" /\ election[r.from].term = r.term
          BY <2>1, <3>1 DEF ElectionInv, AwaitedInRound
        <4>4. QED
          BY <4>2, <4>3
      <3>2. CASE r.from = n /\ election'[n].pc = "wait" /\ election'[n].term = r.term
        BY <3>2
      <3>3. QED
        BY <2>1, <3>1, <3>2
    <2>2. QED
      BY <2>1 DEF AwaitedInRound
  <1>3. VotingTermReached'
    BY DEF ElectionInv, VotingTermReached
  <1>4. QED
    BY <1>1, <1>2, <1>3 DEF ElectionInv

\* Every step of the specification keeps the inductive invariant.
LEMMA ElectionStep == TypeOK /\ ElectionInv /\ [Next]_vars => ElectionInv'
  <1> SUFFICES ASSUME TypeOK, ElectionInv, [Next]_vars PROVE ElectionInv'
    OBVIOUS
  <1>0. TypeOK'
    BY TypeStep
  <1>1. ASSUME NEW n \in Server, ElectionTimeout(n) PROVE ElectionInv'
    <2> DEFINE t == current_term[n] + 1
    <2>1. /\ election[n].pc = "idle"
          /\ current_term' = [current_term EXCEPT ![n] = t]
          /\ votes_cast' = votes_cast \cup {<<n, n, t>>}
          /\ state' = [state EXCEPT ![n] = "candidate"]
          /\ election' = [election EXCEPT ![n].pc = "prepare"]
          /\ UNCHANGED requests
      BY <1>1 DEF ElectionTimeout, BecomeCandidate
    <2>2. /\ current_term'[n] = t /\ election'[n].pc = "prepare"
          /\ \A m \in Server \ {n} : /\ election'[m] = election[m] /\ state'[m] = state[m]
                                     /\ current_term'[m] = current_term[m]
          /\ current_term[n] \in Nat
      BY <2>1 DEF TypeOK, Term
    <2>3. TallyIsReal'
      <3>1. ASSUME NEW m \in Server
            PROVE  /\ election'[m].pc \in {"wait", "won"} =>
                          /\ election'[m].term <= current_term'[m]
                          /\ \A v \in election'[m].votes \ {m} :
                                 <<v, m, election'[m].term>> \in votes_cast'
                   /\ election'[m].pc = "won" =>
                          /\ <<m, m, election'[m].term>> \in votes_cast'
                          /\ Cardinality(election'[m].votes) >= QuorumSize
                   /\ state'[m] = "candidate" => <<m, m, current_term'[m]>> \in votes_cast'
        <4>1. CASE m = n
          BY <2>1, <2>2, <4>1
        <4>2. CASE m # n
          BY <2>1, <2>2, <4>2 DEF ElectionInv, TallyIsReal, IsQuorum
        <4>3. QED
          BY <4>1, <4>2
      <3>2. QED
        BY <3>1 DEF TallyIsReal, IsQuorum
    <2>4. AwaitedInRound'
      <3>1. ASSUME NEW r \in requests, r.kind = "vote", r.awaited
            PROVE  election'[r.from].pc = "wait" /\ election'[r.from].term = r.term
        <4>1. election[r.from].pc = "wait" /\ election[r.from].term = r.term
          BY <3>1 DEF ElectionInv, AwaitedInRound
        <4>2. r.from \in Server /\ r.from # n
          BY <2>1, <4>1 DEF TypeOK, Request
        <4>3. QED
          BY <2>2, <4>1, <4>2
      <3>2. QED
        BY <2>1, <3>1 DEF AwaitedInRound
    <2>5. VotingTermReached'
      <3>1. ASSUME NEW r \in requests, r.phase = "vote" PROVE r.term <= current_term'[r.to]
        <4>1. r.to \in Server /\ r.term \in Nat
          BY DEF TypeOK, Request, Term
        <4>2. r.term <= current_term[r.to]
          BY <3>1 DEF ElectionInv, VotingTermReached
        <4>3. QED
          BY <2>2, <4>1, <4>2
      <3>2. QED
        BY <2>1, <3>1 DEF VotingTermReached
    <2>6. QED
      BY <2>3, <2>4, <2>5 DEF ElectionInv
  <1>2. ASSUME NEW n \in Server, SendRequestVotes(n) PROVE ElectionInv'
    <2>1. /\ election[n].pc = "prepare"
          /\ election'[n] = [pc |-> "wait", term |-> current_term[n], votes |-> {n},
                             highest |-> current_term[n]]
          /\ \A m \in Server \ {n} : election'[m] = election[m]
          /\ UNCHANGED <<current_term, state, votes_cast>>
      BY <1>2 DEF SendRequestVotes, TypeOK, nodeVars
    <2>2. ASSUME NEW r \in requests', r \notin requests
          PROVE  r.phase = "sent" /\ r.from = n /\ r.term = current_term[n]
      BY <1>2, <2>2 DEF SendRequestVotes, Send
    <2>3. ASSUME NEW r \in requests, r.kind = "vote", r.awaited PROVE r.from # n
      BY <2>1, <2>3 DEF ElectionInv, AwaitedInRound
    <2>4. current_term[n] \in Nat
      BY DEF TypeOK, Term
    <2>5. /\ election'[n].pc = "wait" /\ election'[n].term = current_term[n]
          /\ election'[n].votes \ {n} = {}
          /\ election'[n].term <= current_term[n]
      BY <2>1, <2>4
    <2>6. \A r \in requests' :
              /\ r.phase = "vote" => r \in requests
              /\ r.kind = "vote" /\ r.awaited =>
                     \/ r \in requests /\ r.from # n
                     \/ r.from = n /\ election'[n].pc = "wait" /\ election'[n].term = r.term
      BY <2>2, <2>3, <2>5
    <2>7. \A m \in Server \ {n} : election'[m] = election[m] /\ state'[m] = state[m]
      BY <2>1
    <2>8. QED
      BY <1>0, <2>1, <2>5, <2>6, <2>7, RoundKeepsInv
  <1>3. ASSUME NEW n \in Server, ElectionStepDown(n) PROVE ElectionInv'
    <2>1. /\ election'[n].pc = "idle"
          /\ \A m \in Server \ {n} : election'[m] = election[m]
          /\ UNCHANGED <<requests, votes_cast>>
          /\ \A r \in requests : r.kind = "vote" /\ r.awaited => r.from # n
      BY <1>3 DEF ElectionStepDown, Joined, IdleElection, TypeOK
    <2>2. election[n].highest \in Term
      BY DEF TypeOK
    <2>3. \A m \in Server : /\ current_term'[m] >= current_term[m]
                            /\ state'[m] = "candidate" =>
                                   state[m] = "candidate" /\ current_term'[m] = current_term[m]
      BY <1>3, <2>2, BecomeFollowerFacts, TypeParts DEF ElectionStepDown
    <2>4. \A m \in Server : current_term[m] \in Nat /\ current_term'[m] \in Nat
                            /\ election[m].term \in Nat
      BY <1>0 DEF TypeOK, Term
    <2>5. TallyIsReal'
      <3>1. ASSUME NEW m \in Server
            PROVE  /\ election'[m].pc \in {"wait", "won"} =>
                          /\ election'[m].term <= current_term'[m]
                          /\ \A v \in election'[m].votes \ {m} :
                                 <<v, m, election'[m].term>> \in votes_cast'
                   /\ election'[m].pc = "won" =>
                          /\ <<m, m, election'[m].term>> \in votes_cast'
                          /\ Cardinality(election'[m].votes) >= QuorumSize
                   /\ state'[m] = "candidate" => <<m, m, current_term'[m]>> \in votes_cast'
        <4>1. CASE m = n
          BY <2>1, <2>3, <4>1 DEF ElectionInv, TallyIsReal
        <4>2. CASE m # n
          <5>1. election'[m] = election[m] /\ votes_cast' = votes_cast
            BY <2>1, <4>2
          <5>2. /\ election[m].pc \in {"wait", "won"} =>
                       /\ election[m].term <= current_term[m]
                       /\ \A v \in election[m].votes \ {m} :
                              <<v, m, election[m].term>> \in votes_cast
                /\ election[m].pc = "won" =>
                       /\ <<m, m, election[m].term>> \in votes_cast
                       /\ Cardinality(election[m].votes) >= QuorumSize
                /\ state[m] = "candidate" => <<m, m, current_term[m]>> \in votes_cast
            BY DEF ElectionInv, TallyIsReal, IsQuorum
          <5>3. election[m].term <= current_term[m] => election[m].term <= current_term'[m]
            BY <2>3, <2>4
          <5>4. QED
            BY <2>3, <5>1, <5>2, <5>3
        <4>3. QED
          BY <4>1, <4>2
      <3>2. QED
        BY <3>1 DEF TallyIsReal, IsQuorum
    <2>6. AwaitedInRound'
      BY <2>1 DEF ElectionInv, AwaitedInRound, TypeOK, Request
    <2>7. VotingTermReached'
      BY <2>1, <2>3, <2>4 DEF ElectionInv, VotingTermReached, TypeOK, Request, Term
    <2>8. QED
      BY <2>5, <2>6, <2>7 DEF ElectionInv
  <1>4. ASSUME NEW n \in Server, CountVotes(n) PROVE ElectionInv'
    <2>1. /\ election[n].pc = "wait"
          /\ \A m \in Server \ {n} : election'[m] = election[m]
          /\ UNCHANGED <<current_term, state, requests, votes_cast>>
          /\ \A r \in requests : r.kind = "vote" /\ r.awaited => r.from # n
      BY <1>4 DEF CountVotes, Joined, TypeOK, nodeVars
    <2>2. CASE election'[n] = IdleElection
      <3>1. election'[n].pc = "idle"
        BY <2>2 DEF IdleElection
      <3>2. \A m \in Server \ {n} : election'[m] = election[m] /\ state'[m] = state[m]
        BY <2>1
      <3>3. \A r \in requests' :
                /\ r.phase = "vote" => r \in requests
                /\ r.kind = "vote" /\ r.awaited => r \in requests /\ r.from # n
        BY <2>1
      <3>4. QED
        BY <1>0, <2>1, <3>1, <3>2, <3>3, RoundKeepsInv
    <2>3. CASE /\ state[n] = "candidate" /\ current_term[n] = election[n].term
               /\ IsQuorum(election[n].votes)
               /\ election'[n] = [election[n] EXCEPT !.pc = "won"]
      <3>1. /\ election'[n].term = election[n].term
            /\ election'[n].votes = election[n].votes
            /\ election'[n].pc = "won"
        BY <2>3 DEF TypeOK
      <3>2. /\ election'[n].term <= current_term[n]
            /\ \A v \in election'[n].votes \ {n} : <<v, n, election'[n].term>> \in votes_cast
            /\ <<n, n, election'[n].term>> \in votes_cast
        BY <2>1, <2>3, <3>1 DEF ElectionInv, TallyIsReal
      <3>3. Cardinality(election'[n].votes) >= QuorumSize
        BY <2>3, <3>1 DEF IsQuorum
      <3>4. QED
        BY <1>0, <2>1, <3>1, <3>2, <3>3, RoundKeepsInv
    <2>4. QED
      BY <1>4, <2>2, <2>3 DEF CountVotes, TypeOK
  <1>5. ASSUME NEW n \in Server, BecomeLeader(n) PROVE ElectionInv'
    <2>1. /\ election[n].pc = "won" /\ election'[n].pc = "idle"
          /\ \A m \in Server \ {n} : election'[m] = election[m] /\ state'[m] = state[m]
          /\ state'[n] = "leader"
          /\ UNCHANGED <<current_term, requests, votes_cast>>
      BY <1>5 DEF BecomeLeader, IdleElection, TypeOK
    <2>2. ASSUME NEW r \in requests, r.kind = "vote", r.awaited PROVE r.from # n
      BY <2>1, <2>2 DEF ElectionInv, AwaitedInRound
    <2>3. QED
      BY <1>0, <2>1, <2>2, RoundKeepsInv
  <1>6. ASSUME NEW n \in Server, HeartbeatThread(n) PROVE ElectionInv'
    <2>1. CASE HeartbeatStart(n)
      BY <1>0, <2>1, QuietKeepsInv DEF HeartbeatStart
    <2>2. CASE HeartbeatSend(n)
      <3>1. UNCHANGED <<current_term, state, election, votes_cast>>
        BY <2>2 DEF HeartbeatSend, nodeVars
      <3>2. ASSUME NEW r \in requests', r \notin requests
            PROVE  r.phase = "sent" /\ r.kind = "heartbeat"
        BY <2>2, <3>2 DEF HeartbeatSend, Send
      <3>3. TallyIsReal'
        BY <1>0, <3>1, TallyKept DEF ElectionInv, TypeOK, Term
      <3>4. AwaitedInRound' /\ VotingTermReached'
        BY <3>1, <3>2 DEF ElectionInv, AwaitedInRound, VotingTermReached
      <3>5. QED
        BY <3>3, <3>4 DEF ElectionInv
    <2>3. CASE HeartbeatFinish(n)
      <3>1. UNCHANGED <<election, requests, votes_cast>> /\ heartbeat[n].highest \in Term
        BY <2>3 DEF HeartbeatFinish, TypeOK
      <3>2. CASE BecomeFollower(n, heartbeat[n].highest)
        BY <1>0, <3>1, <3>2, StepDownKeepsInv DEF ElectionInv
      <3>3. CASE UNCHANGED nodeVars
        BY <1>0, <3>1, <3>3, QuietKeepsInv
      <3>4. QED
        BY <2>3, <3>2, <3>3 DEF HeartbeatFinish
    <2>4. QED
      BY <1>6, <2>1, <2>2, <2>3 DEF HeartbeatThread
  <1>7. ASSUME NEW n \in Server, Restart(n) PROVE ElectionInv'
    <2>1. /\ election'[n].pc = "idle" /\ state'[n] = "follower"
          /\ \A m \in Server \ {n} : /\ election'[m] = election[m] /\ state'[m] = state[m]
                                     /\ current_term'[m] = current_term[m]
          /\ UNCHANGED votes_cast
      BY <1>7 DEF Restart, IdleElection, TypeOK
    <2>2. ASSUME NEW q \in requests'
          PROVE  \E r \in requests :
                     /\ r.to # n /\ q.kind = r.kind /\ q.from = r.from /\ q.to = r.to
                     /\ q.term = r.term /\ q.phase = r.phase
                     /\ q.awaited => r.awaited /\ r.from # n
      <3>1. PICK r \in requests :
                /\ r.to # n
                /\ q = IF r.from = n THEN [r EXCEPT !.awaited = FALSE] ELSE r
        BY <1>7 DEF Restart
      <3>2. r \in Request
        BY DEF TypeOK
      <3>3. QED
        BY <3>1, <3>2 DEF Request
    <2>3. TallyIsReal'
      <3>1. ASSUME NEW m \in Server
            PROVE  /\ election'[m].pc \in {"wait", "won"} =>
                          /\ election'[m].term <= current_term'[m]
                          /\ \A v \in election'[m].votes \ {m} :
                                 <<v, m, election'[m].term>> \in votes_cast'
                   /\ election'[m].pc = "won" =>
                          /\ <<m, m, election'[m].term>> \in votes_cast'
                          /\ Cardinality(election'[m].votes) >= QuorumSize
                   /\ state'[m] = "candidate" => <<m, m, current_term'[m]>> \in votes_cast'
        <4>1. CASE m = n
          BY <2>1, <4>1
        <4>2. CASE m # n
          BY <2>1, <4>2 DEF ElectionInv, TallyIsReal, IsQuorum
        <4>3. QED
          BY <4>1, <4>2
      <3>2. QED
        BY <3>1 DEF TallyIsReal, IsQuorum
    <2>4. ASSUME NEW q \in requests'
          PROVE  /\ q.kind = "vote" /\ q.awaited =>
                        election'[q.from].pc = "wait" /\ election'[q.from].term = q.term
                 /\ q.phase = "vote" => q.term <= current_term'[q.to]
      <3>1. PICK r \in requests :
                     /\ r.to # n /\ q.kind = r.kind /\ q.from = r.from /\ q.to = r.to
                     /\ q.term = r.term /\ q.phase = r.phase
                     /\ q.awaited => r.awaited /\ r.from # n
        BY <2>2
      <3>2. r.from \in Server /\ r.to \in Server
        BY DEF TypeOK, Request
      <3>3. /\ r.kind = "vote" /\ r.awaited =>
                   election[r.from].pc = "wait" /\ election[r.from].term = r.term
            /\ r.phase = "vote" => r.term <= current_term[r.to]
        BY DEF ElectionInv, AwaitedInRound, VotingTermReached
      <3>4. current_term'[r.to] = current_term[r.to]
        BY <2>1, <3>1, <3>2
      <3>5. q.awaited => election'[r.from] = election[r.from]
        BY <2>1, <3>1, <3>2
      <3>6. QED
        BY <3>1, <3>3, <3>4, <3>5
    <2>5. QED
      BY <2>3, <2>4 DEF ElectionInv, AwaitedInRound, VotingTermReached
  <1>8. ASSUME NEW r \in requests, Handler(r) PROVE ElectionInv'
    <2>1. r.to \in Server /\ r.from \in Server /\ r.term \in Term
          /\ current_term[r.to] \in Term
      BY DEF TypeOK, Request
    <2>2. ASSUME NEW t \in Term, Respond(r, t, FALSE)
          PROVE  /\ requests' = requests \ {r}
                 /\ \A m \in Server : /\ election'[m].pc = election[m].pc
                                      /\ election'[m].term = election[m].term
                                      /\ election'[m].votes = election[m].votes
      BY <2>2, RespondFacts, TypeParts
    <2>3. ASSUME NEW phase \in {"sent", "locking", "role", "demote", "vote"}, Advance(r, phase)
          PROVE  \A q \in requests' : \E s \in requests :
                     /\ q.kind = s.kind /\ q.from = s.from /\ q.to = s.to /\ q.term = s.term
                     /\ q.awaited => s.awaited
                     /\ q.phase = "vote" => s.phase = "vote" \/ (s = r /\ phase = "vote")
      <3>1. /\ [r EXCEPT !.phase = phase].kind = r.kind
            /\ [r EXCEPT !.phase = phase].from = r.from
            /\ [r EXCEPT !.phase = phase].to = r.to
            /\ [r EXCEPT !.phase = phase].term = r.term
            /\ [r EXCEPT !.phase = phase].awaited = r.awaited
            /\ [r EXCEPT !.phase = phase].phase = phase
        BY DEF TypeOK, Request
      <3>2. QED
        BY <2>3, <3>1 DEF Advance
    <2>4. CASE RequestVoteEnter(r) \/ HeartbeatEnter(r) \/ HeartbeatLocked(r) \/ HeartbeatRole(r)
      <3>1. UNCHANGED <<nodeVars, votes_cast>>
        BY <2>4 DEF RequestVoteEnter, HeartbeatEnter, HeartbeatLocked, HeartbeatRole
      <3>2. CASE Respond(r, current_term[r.to], FALSE)
        BY <1>0, <2>1, <2>2, <3>1, <3>2, QuietKeepsInv
      <3>3. CASE \E phase \in {"locking", "role", "demote", "vote"} :
                     /\ Advance(r, phase)
                     /\ phase = "vote" => r.term <= current_term[r.to]
                     /\ UNCHANGED election
        BY <1>0, <2>3, <3>1, <3>3, QuietKeepsInv
      <3>4. QED
        <4>1. CASE RequestVoteEnter(r)
          <5>1. CASE r.term > current_term[r.to]
            BY <3>2, <3>3, <4>1, <5>1 DEF RequestVoteEnter
          <5>2. CASE ~(r.term > current_term[r.to])
            <6>1. r.term <= current_term[r.to]
              BY <2>1, <5>2 DEF Term
            <6>2. QED
              BY <3>2, <3>3, <4>1, <5>2, <6>1 DEF RequestVoteEnter
          <5>3. QED
            BY <5>1, <5>2
        <4>2. CASE HeartbeatEnter(r)
          BY <3>2, <3>3, <4>2 DEF HeartbeatEnter
        <4>3. CASE HeartbeatLocked(r)
          BY <3>2, <3>3, <4>3 DEF HeartbeatLocked
        <4>4. CASE HeartbeatRole(r)
          BY <3>2, <3>3, <4>4 DEF HeartbeatRole
        <4>5. QED
          BY <2>4, <4>1, <4>2, <4>3, <4>4
    <2>5. CASE RequestVoteDemote(r)
      <3>1. /\ \A m \in Server : /\ current_term'[m] >= current_term[m]
                                 /\ current_term'[m] \in Nat
            /\ r.term <= current_term'[r.to]
        <4>1. NodeTypes /\ BecomeFollower(r.to, r.term)
          BY <2>5, TypeParts DEF RequestVoteDemote
        <4>2. \A m \in Server : current_term'[m] \in Nat
          BY <1>0 DEF TypeOK, Term
        <4>3. QED
          BY <2>1, <4>1, <4>2, BecomeFollowerFacts
      <3>2. UNCHANGED <<election, votes_cast>>
        BY <2>5 DEF RequestVoteDemote
      <3>3. TallyIsReal'
        BY <1>0, <2>1, <2>5, <3>2, StepDownKeepsInv DEF RequestVoteDemote
      <3>4. \A q \in requests' : \E s \in requests :
                     /\ q.kind = s.kind /\ q.from = s.from /\ q.to = s.to /\ q.term = s.term
                     /\ q.awaited => s.awaited
                     /\ q.phase = "vote" => s.phase = "vote" \/ s.term <= current_term'[s.to]
        <4>1. CASE requests' = requests \ {r}
          BY <4>1
        <4>2. CASE Advance(r, "vote")
          BY <2>3, <3>1, <4>2
        <4>3. QED
          BY <2>5, <4>1, <4>2 DEF RequestVoteDemote
      <3>5. AwaitedInRound' /\ VotingTermReached'
        BY <3>1, <3>2, <3>4, RequestsKept DEF ElectionInv
      <3>6. QED
        BY <3>3, <3>5 DEF ElectionInv
    <2>6. CASE RequestVoteDecide(r)
      <3>1. CASE Respond(r, current_term[r.to], FALSE) /\ UNCHANGED <<nodeVars, votes_cast>>
        BY <1>0, <2>1, <2>2, <3>1, QuietKeepsInv
      <3>2. CASE /\ Respond(r, current_term[r.to], TRUE)
                 /\ state' = [state EXCEPT ![r.to] = "follower"]
                 /\ votes_cast' = votes_cast \cup {<<r.to, r.from, r.term>>}
                 /\ UNCHANGED current_term
        <4>1. /\ requests' = requests \ {r}
              /\ \A m \in Server :
                     /\ election'[m].pc = election[m].pc
                     /\ election'[m].term = election[m].term
                     /\ \/ election'[m].votes = election[m].votes
                        \/ /\ m = r.from /\ r.kind = "vote" /\ r.awaited
                           /\ election'[m].votes = election[m].votes \cup {r.to}
          BY <2>1, <3>2, RespondFacts, TypeParts
        <4>2. \A m \in Server : state'[m] = "candidate" => state[m] = "candidate"
          BY <2>1, <3>2 DEF TypeOK
        <4>3. TallyIsReal'
          <5>1. ASSUME NEW m \in Server, election'[m].votes = election[m].votes
                PROVE  /\ election'[m].pc \in {"wait", "won"} =>
                              /\ election'[m].term <= current_term'[m]
                              /\ \A v \in election'[m].votes \ {m} :
                                     <<v, m, election'[m].term>> \in votes_cast'
                       /\ election'[m].pc = "won" =>
                              /\ <<m, m, election'[m].term>> \in votes_cast'
                              /\ Cardinality(election'[m].votes) >= QuorumSize
                       /\ state'[m] = "candidate" => <<m, m, current_term'[m]>> \in votes_cast'
            BY <3>2, <4>1, <4>2, <5>1 DEF ElectionInv, TallyIsReal, IsQuorum
          <5>2. ASSUME NEW m \in Server, m = r.from, r.kind = "vote", r.awaited,
                       election'[m].votes = election[m].votes \cup {r.to}
                PROVE  /\ election'[m].pc = "wait"
                       /\ election'[m].term <= current_term'[m]
                       /\ \A v \in election'[m].votes \ {m} :
                              <<v, m, election'[m].term>> \in votes_cast'
                       /\ state'[m] = "candidate" => <<m, m, current_term'[m]>> \in votes_cast'
            <6>1. election[m].pc = "wait" /\ election[m].term = r.term
              BY <5>2 DEF ElectionInv, AwaitedInRound
            <6>2. QED
              BY <3>2, <4>1, <4>2, <5>2, <6>1 DEF ElectionInv, TallyIsReal
          <5>3. QED
            BY <4>1, <5>1, <5>2 DEF TallyIsReal, IsQuorum
        <4>4. AwaitedInRound' /\ VotingTermReached'
          BY <1>0, <3>2, <4>1, RequestsKept DEF ElectionInv, TypeOK, Term
        <4>5. QED
          BY <4>3, <4>4 DEF ElectionInv
      <3>3. QED
        BY <2>6, <3>1, <3>2 DEF RequestVoteDecide
    <2>7. CASE HeartbeatDemote(r)
      <3>1. /\ requests' = requests \ {r} /\ UNCHANGED votes_cast
            /\ \A m \in Server : /\ election'[m].pc = election[m].pc
                                 /\ election'[m].term = election[m].term
                                 /\ election'[m].votes = election[m].votes
        BY <2>1, <2>2, <2>7 DEF HeartbeatDemote
      <3>2. QED
        BY <1>0, <2>1, <2>7, <3>1, StepDownKeepsInv DEF HeartbeatDemote, ElectionInv
    <2>8. QED
      BY <1>8, <2>4, <2>5, <2>6, <2>7 DEF Handler
  <1>9. ASSUME NEW r \in requests, RpcTimeout(r) PROVE ElectionInv'
    <2>1. /\ [r EXCEPT !.awaited = FALSE].kind = r.kind
          /\ [r EXCEPT !.awaited = FALSE].from = r.from
          /\ [r EXCEPT !.awaited = FALSE].to = r.to
          /\ [r EXCEPT !.awaited = FALSE].term = r.term
          /\ [r EXCEPT !.awaited = FALSE].awaited = FALSE
          /\ [r EXCEPT !.awaited = FALSE].phase = r.phase
      BY DEF TypeOK, Request
    <2>2. QED
      BY <1>0, <1>9, <2>1, QuietKeepsInv DEF RpcTimeout
  <1>10. CASE UNCHANGED vars
    BY <1>0, <1>10, QuietKeepsInv DEF vars
  <1>11. QED
    BY <1>1, <1>2, <1>3, <1>4, <1>5, <1>6, <1>7, <1>8, <1>9, <1>10
       DEF Next, ElectionThread

\* The tally of an election is real in every behaviour: the votes it counts were cast in
\* its term, and a round is won only with a majority.
THEOREM ElectionInvariant == Spec => []ElectionInv
  <1>1. Init => ElectionInv
    BY DEF Init, ElectionInv, AwaitedInRound, VotingTermReached, TallyIsReal, IdleElection
  <1>2. QED
    BY <1>1, TypeCorrect, ElectionStep, PTL DEF Spec

\* What a step may do to the roles: a node that is leader afterwards was leader before, or
\* has just left StartElection through BecomeLeader, in the same term; no term falls except in a restart.
LEMMA StepFacts ==
    ASSUME TypeOK, [Next]_vars
    PROVE  /\ votes_cast \subseteq votes_cast'
           /\ \A m \in Server : state'[m] = "leader" =>
                  \/ /\ state[m] = "leader" /\ current_term'[m] = current_term[m]
                     /\ m \in late => m \in late'
                  \/ BecomeLeader(m)
           /\ (\A m \in Server : current_term'[m] >= current_term[m])
                  \/ (restarts' # restarts /\ \E n \in Server : Restart(n))
  <1> DEFINE Goal == /\ votes_cast \subseteq votes_cast'
                     /\ \A m \in Server : state'[m] = "leader" =>
                            \/ /\ state[m] = "leader" /\ current_term'[m] = current_term[m]
                               /\ m \in late => m \in late'
                            \/ BecomeLeader(m)
                     /\ (\A m \in Server : current_term'[m] >= current_term[m])
                            \/ (restarts' # restarts /\ \E n \in Server : Restart(n))
  <1>0. \A m \in Server : current_term[m] \in Nat
    BY DEF TypeOK, Term
  <1>a. ASSUME UNCHANGED <<nodeVars, votes_cast>> PROVE Goal
    BY <1>0, <1>a DEF nodeVars
  <1>b. ASSUME NEW n \in Server, NEW t \in Term, BecomeFollower(n, t), UNCHANGED votes_cast
        PROVE  Goal
    BY <1>b, BecomeFollowerFacts, TypeParts
  <1>1. ASSUME NEW n \in Server, ElectionTimeout(n) PROVE Goal
    BY <1>0, <1>1 DEF ElectionTimeout, BecomeCandidate, TypeOK
  <1>2. ASSUME NEW n \in Server, SendRequestVotes(n) \/ CountVotes(n) PROVE Goal
    BY <1>2, <1>a DEF SendRequestVotes, CountVotes
  <1>3. ASSUME NEW n \in Server, ElectionStepDown(n) PROVE Goal
    BY <1>3, <1>b DEF ElectionStepDown, TypeOK
  <1>4. ASSUME NEW n \in Server, BecomeLeader(n) PROVE Goal
    <2>1. /\ state' = [state EXCEPT ![n] = "leader"]
          /\ UNCHANGED <<current_term, votes_cast>>
          /\ \A m \in Server : m # n => (m \in late' <=> m \in late)
      BY <1>4 DEF BecomeLeader
    <2>2. QED
      BY <1>0, <1>4, <2>1 DEF TypeOK
  <1>5. ASSUME NEW n \in Server, HeartbeatThread(n) PROVE Goal
    BY <1>5, <1>a, <1>b
       DEF HeartbeatThread, HeartbeatStart, HeartbeatSend, HeartbeatFinish, TypeOK
  <1>6. ASSUME NEW n \in Server, Restart(n) PROVE Goal
    <2>1. restarts' # restarts /\ UNCHANGED votes_cast
      BY <1>6, BoundAssumption DEF Restart, TypeOK
    <2>2. late' = late /\ \A m \in Server : state'[m] = "leader" =>
              state[m] = "leader" /\ current_term'[m] = current_term[m]
      BY <1>6 DEF Restart, TypeOK
    <2>3. QED
      BY <1>0, <1>6, <2>1, <2>2
  <1>7. ASSUME NEW r \in requests, Handler(r) PROVE Goal
    <2>1. r.to \in Server /\ r.term \in Term
      BY DEF TypeOK, Request
    <2>2. CASE RequestVoteEnter(r) \/ HeartbeatEnter(r) \/ HeartbeatLocked(r) \/ HeartbeatRole(r)
      BY <2>2, <1>a DEF RequestVoteEnter, HeartbeatEnter, HeartbeatLocked, HeartbeatRole
    <2>3. CASE RequestVoteDemote(r) \/ HeartbeatDemote(r)
      BY <2>1, <2>3, <1>b DEF RequestVoteDemote, HeartbeatDemote
    <2>4. CASE RequestVoteDecide(r)
      <3>1. CASE UNCHANGED <<nodeVars, votes_cast>>
        BY <3>1, <1>a
      <3>2. CASE /\ state' = [state EXCEPT ![r.to] = "follower"]
                 /\ votes_cast' = votes_cast \cup {<<r.to, r.from, r.term>>}
                 /\ UNCHANGED <<current_term, late>>
        BY <1>0, <2>1, <3>2 DEF TypeOK
      <3>3. QED
        BY <2>4, <3>1, <3>2 DEF RequestVoteDecide
    <2>5. QED
      BY <1>7, <2>2, <2>3, <2>4 DEF Handler
  <1>8. ASSUME NEW r \in requests, RpcTimeout(r) PROVE Goal
    BY <1>8, <1>a DEF RpcTimeout
  <1>9. CASE UNCHANGED vars
    BY <1>9, <1>a DEF vars
  <1>10. QED
    BY <1>1, <1>2, <1>3, <1>4, <1>5, <1>6, <1>7, <1>8, <1>9 DEF Next, ElectionThread

\* A quorum as QuorumSize() counts it is a majority of the cluster.
LEMMA QuorumIsMajority ==
    ASSUME NEW Q \in SUBSET Server, IsQuorum(Q)
    PROVE  2 * Cardinality(Q) > Cardinality(Server)
  <1>1. Cardinality(Server) \in Nat /\ Cardinality(Q) \in Nat
    BY ServerAssumption, FS_CardinalityType, FS_Subset
  <1>2. QED
    BY <1>1 DEF IsQuorum, QuorumSize

\* In every behaviour the term of a node falls only when the node restarts.
THEOREM TermsGrow == Spec => TermNeverRegresses
  <1>1. TypeOK /\ [Next]_vars =>
            [restarts' = restarts => \A n \in Server : current_term'[n] >= current_term[n]]_vars
    BY StepFacts
  <1>2. QED
    BY <1>1, TypeCorrect, PTL DEF Spec, TermNeverRegresses

\* In every cluster and every behaviour, with crashes and lost RPCs, a leader holds the
\* votes of a majority, cast for it in the very term it leads, unless its term changed
\* between the count of StartElection and BecomeLeader.
THEOREM LeaderHasMajority == Spec => []LeaderBackedByMajority
  <1>1. Init => LeaderBackedByMajority
    BY DEF Init, LeaderBackedByMajority
  <1>2. TypeOK /\ TypeOK' /\ ElectionInv /\ LeaderBackedByMajority /\ [Next]_vars
            => LeaderBackedByMajority'
    <2> SUFFICES ASSUME TypeOK, TypeOK', ElectionInv, LeaderBackedByMajority, [Next]_vars,
                        NEW n \in Server, n \notin late', state'[n] = "leader"
                 PROVE  \E Q \in SUBSET {v \in Server : <<v, n, current_term'[n]>> \in votes_cast'} :
                            2 * Cardinality(Q) > Cardinality(Server)
      BY DEF LeaderBackedByMajority, VotersOf
    <2>1. votes_cast \subseteq votes_cast'
      BY StepFacts
    <2>3. CASE /\ state[n] = "leader" /\ current_term'[n] = current_term[n]
               /\ n \in late => n \in late'
      <3>1. PICK Q \in SUBSET {v \in Server : <<v, n, current_term[n]>> \in votes_cast} :
                2 * Cardinality(Q) > Cardinality(Server)
        BY <2>3 DEF LeaderBackedByMajority, VotersOf
      <3>3. QED
        BY <2>1, <2>3, <3>1
    <2>4. CASE BecomeLeader(n)
      <3>1. /\ election[n].pc = "won" /\ election[n].votes \in SUBSET Server
            /\ current_term' = current_term
            /\ election[n].term = current_term[n]
        BY <2>4 DEF BecomeLeader, TypeOK, Term
      <3>2. /\ election[n].votes \subseteq
                   {v \in Server : <<v, n, current_term'[n]>> \in votes_cast'}
            /\ IsQuorum(election[n].votes)
        <4>1. /\ \A v \in election[n].votes \ {n} : <<v, n, election[n].term>> \in votes_cast
              /\ <<n, n, election[n].term>> \in votes_cast
              /\ IsQuorum(election[n].votes)
          BY <3>1 DEF ElectionInv, TallyIsReal
        <4>2. \A v \in election[n].votes : <<v, n, election[n].term>> \in votes_cast'
          BY <2>1, <4>1
        <4>3. QED
          BY <3>1, <4>1, <4>2
      <3>3. QED
        BY <3>1, <3>2, QuorumIsMajority
    <2>5. QED
      BY <2>3, <2>4, StepFacts
  <1>3. QED
    BY <1>1, <1>2, TypeCorrect, ElectionInvariant, PTL DEF Spec

-----------------------------------------------------------------------------
(* Votes are final.                                                        *)

\* BecomeFollower leaves the file and memory in agreement and forgets the vote it clears.
LEMMA BecomeFollowerOnFile ==
    ASSUME TypeOK, VotesOnFile, NEW n \in Server, NEW t \in Term, BecomeFollower(n, t),
           UNCHANGED votes_cast
    PROVE  VotesOnFile'
  <1>0. \A m \in Server : current_term[m] \in Nat /\ meta[m].term \in Nat
    BY DEF TypeOK, Term
  <1>1. t \in Nat
    BY DEF Term
  <1>2. CASE t < current_term[n]
    BY <1>2 DEF BecomeFollower, VotesOnFile, nodeVars
  <1>3. CASE ~(t < current_term[n])
    <2>1. /\ meta' = [meta EXCEPT ![n] = [term |-> t, voted_for |-> Nil]]
          /\ current_term' = [current_term EXCEPT ![n] = t]
          /\ voted_for' = [voted_for EXCEPT ![n] = Nil]
          /\ forgotten' = IF t = current_term[n] /\ voted_for[n] # Nil
                          THEN forgotten \cup {<<n, t>>} ELSE forgotten
      BY <1>3 DEF BecomeFollower, PersistMeta
    <2>2. forgotten \subseteq forgotten'
      BY <2>1
    <2>3. /\ meta'[n].term = t /\ meta'[n].voted_for = Nil
          /\ current_term'[n] = t /\ voted_for'[n] = Nil
      BY <2>1 DEF TypeOK
    <2>4. ASSUME NEW m \in Server, m # n
          PROVE  /\ meta'[m] = meta[m] /\ current_term'[m] = current_term[m]
                 /\ voted_for'[m] = voted_for[m]
      BY <2>1, <2>4 DEF TypeOK
    <2>5. ASSUME NEW c \in Server, NEW u \in Term, <<n, c, u>> \in votes_cast,
                 <<n, u>> \notin forgotten'
          PROVE  u < t
      <3>1. <<n, u>> \notin forgotten
        BY <2>2, <2>5
      <3>2. u <= meta[n].term /\ (u = meta[n].term => c = voted_for[n])
            /\ meta[n].term <= current_term[n]
            /\ (meta[n].term < current_term[n] =>
                  \A x \in meta[n].term..current_term[n] : <<n, x>> \in forgotten)
        BY <2>5, <3>1 DEF VotesOnFile
      <3>3. u \in Nat
        BY DEF Term
      <3>4. CASE u = t
        <4>1. t = current_term[n] /\ meta[n].term = t
          BY <1>0, <1>1, <1>3, <3>2, <3>3, <3>4
        <4>2. voted_for[n] # Nil
          BY <3>2, <3>4, <4>1, ServerAssumption
        <4>3. QED
          BY <2>1, <2>5, <3>4, <4>1, <4>2
      <3>5. QED
        BY <1>0, <1>1, <1>3, <3>2, <3>3, <3>4
    <2>6. QED
      BY <1>0, <1>1, <2>2, <2>3, <2>4, <2>5 DEF VotesOnFile, Term
  <1>4. QED
    BY <1>2, <1>3

\* The handler's vote: in the node's own term it goes to whom the node has voted for, if to
\* anyone; in an older term everything from there on is forgotten.
LEMMA DecideOnFile ==
    ASSUME TypeOK, ElectionInv, VotesOnFile, NEW r \in requests, RequestVoteDecide(r)
    PROVE  VotesOnFile'
  <1> DEFINE n == r.to
  <1>0. \A m \in Server : current_term[m] \in Nat /\ meta[m].term \in Nat
    BY DEF TypeOK, Term
  <1>1. n \in Server /\ r.from \in Server /\ r.term \in Term /\ r.term \in Nat
    BY DEF TypeOK, Request, Term
  <1>2. CASE UNCHANGED <<nodeVars, votes_cast>>
    BY <1>2 DEF VotesOnFile, nodeVars
  <1>3. CASE /\ CanVote(n, r.from)
             /\ PersistMeta(n, r.term, r.from)
             /\ voted_for' = [voted_for EXCEPT ![n] = r.from]
             /\ votes_cast' = votes_cast \cup {<<n, r.from, r.term>>}
             /\ forgotten' = IF r.term < current_term[n]
                             THEN forgotten \cup ({n} \X (r.term..current_term[n]))
                             ELSE forgotten
             /\ UNCHANGED current_term
    <2>1. r.term <= current_term[n]
      BY <1>3 DEF RequestVoteDecide, ElectionInv, VotingTermReached
    <2>2. forgotten \subseteq forgotten'
      BY <1>3
    <2>3. meta'[n].term = r.term /\ meta'[n].voted_for = r.from /\ voted_for'[n] = r.from
      BY <1>1, <1>3 DEF TypeOK, PersistMeta
    <2>4. ASSUME NEW m \in Server, m # n
          PROVE  meta'[m] = meta[m] /\ voted_for'[m] = voted_for[m]
      BY <1>1, <1>3, <2>4 DEF TypeOK, PersistMeta
    <2>5. r.term < current_term[n] =>
              \A x \in r.term..current_term[n] : <<n, x>> \in forgotten'
      BY <1>3
    <2>6. ASSUME NEW c \in Server, NEW u \in Term, <<n, c, u>> \in votes_cast',
                 <<n, u>> \notin forgotten'
          PROVE  u <= r.term /\ (u = r.term => c = r.from)
      <3>0. u \in Nat
        BY DEF Term
      <3>1. CASE <<n, c, u>> = <<n, r.from, r.term>>
        BY <3>1, <1>1
      <3>2. CASE <<n, c, u>> \in votes_cast
        <4>1. <<n, u>> \notin forgotten
          BY <2>2, <2>6
        <4>2. u <= meta[n].term /\ (u = meta[n].term => c = voted_for[n])
              /\ meta[n].term <= current_term[n]
          BY <1>1, <3>2, <4>1 DEF VotesOnFile
        <4>3. CASE r.term < current_term[n]
          <5>1. u \notin r.term..current_term[n]
            BY <2>5, <2>6, <4>3
          <5>2. QED
            BY <1>0, <1>1, <3>0, <4>2, <5>1
        <4>4. CASE r.term = current_term[n]
          <5>1. u <= r.term
            BY <1>0, <1>1, <3>0, <4>2, <4>4
          <5>2. ASSUME u = r.term PROVE c = r.from
            <6>1. u = meta[n].term
              BY <1>0, <1>1, <3>0, <4>2, <4>4, <5>2
            <6>2. c = voted_for[n]
              BY <4>2, <6>1
            <6>3. QED
              BY <1>3, <6>2, ServerAssumption DEF CanVote
          <5>3. QED
            BY <5>1, <5>2
        <4>5. QED
          BY <1>0, <1>1, <2>1, <4>3, <4>4
      <3>3. QED
        BY <1>3, <2>6, <3>1, <3>2
    <2>7. ASSUME NEW m \in Server, m # n, NEW c \in Server, NEW u \in Term
          PROVE  <<m, c, u>> \in votes_cast' <=> <<m, c, u>> \in votes_cast
      BY <1>3, <2>7
    <2>8. QED
      BY <1>0, <1>1, <1>3, <2>1, <2>2, <2>3, <2>4, <2>5, <2>6, <2>7 DEF VotesOnFile
  <1>4. QED
    BY <1>2, <1>3 DEF RequestVoteDecide

\* BecomeCandidate votes in a term in which the node has not voted, or whose vote counts
\* as forgotten.
LEMMA CandidateOnFile ==
    ASSUME TypeOK, VotesOnFile, NEW n \in Server, BecomeCandidate(n)
    PROVE  VotesOnFile'
  <1> DEFINE t == current_term[n] + 1
  <1>0. \A m \in Server : current_term[m] \in Nat /\ meta[m].term \in Nat
    BY DEF TypeOK, Term
  <1>1. /\ meta' = [meta EXCEPT ![n] = [term |-> t, voted_for |-> n]]
        /\ current_term' = [current_term EXCEPT ![n] = t]
        /\ voted_for' = [voted_for EXCEPT ![n] = n]
        /\ votes_cast' = votes_cast \cup {<<n, n, t>>}
        /\ forgotten' = forgotten
    BY DEF BecomeCandidate, PersistMeta
  <1>2. t \in Nat /\ t > current_term[n]
    BY <1>0
  <1> HIDE DEF t
  <1>3. meta'[n].term = t /\ meta'[n].voted_for = n /\ voted_for'[n] = n /\ current_term'[n] = t
    BY <1>1 DEF TypeOK
  <1>4. ASSUME NEW m \in Server, m # n
        PROVE  /\ meta'[m] = meta[m] /\ voted_for'[m] = voted_for[m]
               /\ current_term'[m] = current_term[m]
    BY <1>1, <1>4 DEF TypeOK
  <1>5. ASSUME NEW c \in Server, NEW u \in Term, <<n, c, u>> \in votes_cast', <<n, u>> \notin forgotten
        PROVE  u <= t /\ (u = t => c = n)
    <2>1. CASE <<n, c, u>> = <<n, n, t>>
      BY <1>2, <2>1
    <2>2. CASE <<n, c, u>> \in votes_cast
      <3>1. u <= meta[n].term /\ meta[n].term <= current_term[n]
        BY <1>5, <2>2 DEF VotesOnFile
      <3>2. u \in Nat
        BY DEF Term
      <3>3. QED
        BY <1>0, <1>2, <3>1, <3>2
    <2>3. QED
      BY <1>1, <1>5, <2>1, <2>2
  <1>6. ASSUME NEW m \in Server, m # n, NEW c \in Server, NEW u \in Term
        PROVE  <<m, c, u>> \in votes_cast' <=> <<m, c, u>> \in votes_cast
    BY <1>1, <1>6
  <1>7. QED
    BY <1>0, <1>1, <1>2, <1>3, <1>4, <1>5, <1>6 DEF VotesOnFile

\* Every step keeps the file in step with the votes.
LEMMA OnFileStep == TypeOK /\ ElectionInv /\ VotesOnFile /\ [Next]_vars => VotesOnFile'
  <1> SUFFICES ASSUME TypeOK, ElectionInv, VotesOnFile, [Next]_vars PROVE VotesOnFile'
    OBVIOUS
  <1>a. ASSUME UNCHANGED <<nodeVars, votes_cast>> PROVE VotesOnFile'
    BY <1>a DEF nodeVars, VotesOnFile
  <1>1. ASSUME NEW n \in Server, ElectionTimeout(n) PROVE VotesOnFile'
    BY <1>1, CandidateOnFile DEF ElectionTimeout
  <1>2. ASSUME NEW n \in Server, SendRequestVotes(n) \/ CountVotes(n) PROVE VotesOnFile'
    BY <1>2, <1>a DEF SendRequestVotes, CountVotes
  <1>3. ASSUME NEW n \in Server, ElectionStepDown(n) PROVE VotesOnFile'
    BY <1>3, BecomeFollowerOnFile DEF ElectionStepDown, TypeOK
  <1>4. ASSUME NEW n \in Server, BecomeLeader(n) PROVE VotesOnFile'
    BY <1>4 DEF BecomeLeader, VotesOnFile
  <1>5. ASSUME NEW n \in Server, HeartbeatThread(n) PROVE VotesOnFile'
    BY <1>5, <1>a, BecomeFollowerOnFile
       DEF HeartbeatThread, HeartbeatStart, HeartbeatSend, HeartbeatFinish, TypeOK
  <1>6. ASSUME NEW n \in Server, Restart(n) PROVE VotesOnFile'
    <2>1. /\ UNCHANGED <<meta, votes_cast, forgotten>>
          /\ current_term'[n] = meta[n].term /\ voted_for'[n] = meta[n].voted_for
          /\ \A m \in Server : m # n =>
                 current_term'[m] = current_term[m] /\ voted_for'[m] = voted_for[m]
      BY <1>6 DEF Restart, TypeOK
    <2>2. meta[n].term \in Nat
      BY DEF TypeOK, Term
    <2>3. QED
      BY <2>1, <2>2 DEF VotesOnFile
  <1>7. ASSUME NEW r \in requests, Handler(r) PROVE VotesOnFile'
    <2>1. r.to \in Server /\ r.term \in Term
      BY DEF TypeOK, Request
    <2>2. CASE RequestVoteEnter(r) \/ HeartbeatEnter(r) \/ HeartbeatLocked(r) \/ HeartbeatRole(r)
      BY <2>2, <1>a DEF RequestVoteEnter, HeartbeatEnter, HeartbeatLocked, HeartbeatRole
    <2>3. CASE RequestVoteDemote(r) \/ HeartbeatDemote(r)
      BY <2>1, <2>3, BecomeFollowerOnFile DEF RequestVoteDemote, HeartbeatDemote
    <2>4. CASE RequestVoteDecide(r)
      BY <2>4, DecideOnFile
    <2>5. QED
      BY <1>7, <2>2, <2>3, <2>4 DEF Handler
  <1>8. ASSUME NEW r \in requests, RpcTimeout(r) PROVE VotesOnFile'
    BY <1>8, <1>a DEF RpcTimeout
  <1>9. CASE UNCHANGED vars
    BY <1>9, <1>a DEF vars
  <1>10. QED
    BY <1>1, <1>2, <1>3, <1>4, <1>5, <1>6, <1>7, <1>8, <1>9 DEF Next, ElectionThread

\* In every behaviour the meta file is where a node's votes can be read: whatever it does
\* not hold is older than it, or counts as forgotten.
THEOREM VotesAreOnFile == Spec => []VotesOnFile
  <1>1. Init => VotesOnFile
    BY DEF Init, VotesOnFile
  <1>2. QED
    BY <1>1, OnFileStep, TypeCorrect, ElectionInvariant, PTL DEF Spec

\* A step gives at most one new vote: that of BecomeCandidate or of the handler.
LEMMA NewVote ==
    ASSUME TypeOK, ElectionInv, VotesOnFile, VotesOnFile', VoteIsFinal, [Next]_vars
    PROVE  VoteIsFinal'
  <1> SUFFICES ASSUME NEW v \in Server, NEW c \in Server, NEW d \in Server, NEW t \in Term,
                      <<v, c, t>> \in votes_cast', <<v, d, t>> \in votes_cast',
                      <<v, t>> \notin forgotten'
               PROVE  c = d
    BY DEF VoteIsFinal
  <1> DEFINE Same == votes_cast' = votes_cast /\ forgotten \subseteq forgotten'
             Cast(w, e, u) == /\ votes_cast' = votes_cast \cup {<<w, e, u>>}
                              /\ forgotten \subseteq forgotten'
                              /\ meta'[w].term = u
  <1>0. t \in Nat
    BY DEF Term
  <1>a. ASSUME Same PROVE c = d
    BY <1>a DEF VoteIsFinal
  <1>b. ASSUME NEW w \in Server, NEW e \in Server, NEW u \in Term, Cast(w, e, u) PROVE c = d
    <2>1. CASE <<v, c, t>> \in votes_cast /\ <<v, d, t>> \in votes_cast
      BY <1>b, <2>1 DEF VoteIsFinal
    <2>2. CASE ~(<<v, c, t>> \in votes_cast /\ <<v, d, t>> \in votes_cast)
      <3>1. v = w /\ t = u
        BY <1>b, <2>2
      <3>2. meta'[v].term = t
        BY <1>b, <3>1
      <3>3. c = voted_for'[v] /\ d = voted_for'[v]
        BY <3>2 DEF VotesOnFile
      <3>4. QED
        BY <3>3
    <2>3. QED
      BY <2>1, <2>2
  <1>c. ASSUME NEW n \in Server, NEW u \in Term, BecomeFollower(n, u), UNCHANGED votes_cast
        PROVE  Same
    BY <1>c DEF BecomeFollower, nodeVars
  <1>d. ASSUME UNCHANGED <<nodeVars, votes_cast>> PROVE Same
    BY <1>d DEF nodeVars
  <1>1. ASSUME NEW n \in Server, ElectionTimeout(n) PROVE c = d
    <2>1. current_term[n] + 1 \in Term
      BY <1>1, BoundAssumption DEF ElectionTimeout, TypeOK, Term
    <2>2. Cast(n, n, current_term[n] + 1)
      BY <1>1 DEF ElectionTimeout, BecomeCandidate, PersistMeta, TypeOK
    <2> HIDE DEF Cast
    <2>3. QED
      BY <1>b, <2>1, <2>2
  <1>2. ASSUME NEW n \in Server, SendRequestVotes(n) \/ CountVotes(n) PROVE Same
    BY <1>2, <1>d DEF SendRequestVotes, CountVotes
  <1>3. ASSUME NEW n \in Server, ElectionStepDown(n) PROVE Same
    BY <1>3, <1>c DEF ElectionStepDown, TypeOK
  <1>4. ASSUME NEW n \in Server, BecomeLeader(n) PROVE Same
    BY <1>4 DEF BecomeLeader
  <1>5. ASSUME NEW n \in Server, HeartbeatThread(n) PROVE Same
    BY <1>5, <1>c, <1>d
       DEF HeartbeatThread, HeartbeatStart, HeartbeatSend, HeartbeatFinish, TypeOK
  <1>6. ASSUME NEW n \in Server, Restart(n) PROVE Same
    BY <1>6 DEF Restart
  <1>7. ASSUME NEW r \in requests, Handler(r) PROVE c = d
    <2>1. r.to \in Server /\ r.from \in Server /\ r.term \in Term
      BY DEF TypeOK, Request
    <2>2. CASE RequestVoteEnter(r) \/ HeartbeatEnter(r) \/ HeartbeatLocked(r) \/ HeartbeatRole(r)
      BY <2>2, <1>a, <1>d DEF RequestVoteEnter, HeartbeatEnter, HeartbeatLocked, HeartbeatRole
    <2>3. CASE RequestVoteDemote(r) \/ HeartbeatDemote(r)
      BY <2>1, <2>3, <1>a, <1>c DEF RequestVoteDemote, HeartbeatDemote
    <2>4. CASE RequestVoteDecide(r)
      <3>1. CASE UNCHANGED <<nodeVars, votes_cast>>
        BY <3>1, <1>a, <1>d
      <3>2. CASE /\ PersistMeta(r.to, r.term, r.from)
                 /\ votes_cast' = votes_cast \cup {<<r.to, r.from, r.term>>}
                 /\ forgotten \subseteq forgotten'
        <4>1. Cast(r.to, r.from, r.term)
          BY <2>1, <3>2 DEF PersistMeta, TypeOK
        <4> HIDE DEF Cast
        <4>2. QED
          BY <1>b, <2>1, <4>1
      <3>3. QED
        BY <2>4, <3>1, <3>2 DEF RequestVoteDecide
    <2>5. QED
      BY <1>7, <2>2, <2>3, <2>4 DEF Handler
  <1>8. ASSUME NEW r \in requests, RpcTimeout(r) PROVE Same
    BY <1>8, <1>d DEF RpcTimeout
  <1>9. CASE UNCHANGED vars
    BY <1>9, <1>a, <1>d DEF vars
  <1> HIDE DEF Same
  <1>10. QED
    BY <1>1, <1>2, <1>3, <1>4, <1>5, <1>6, <1>7, <1>8, <1>9, <1>a DEF Next, ElectionThread

\* Through any interleaving and any crash a node votes for one candidate of a term, unless
\* it stepped down at that term or saved a vote of an older term over it.
THEOREM VotesAreFinal == Spec => []VoteIsFinal
  <1>1. Init => VoteIsFinal
    BY DEF Init, VoteIsFinal
  <1>2. TypeOK /\ ElectionInv /\ VotesOnFile /\ VotesOnFile' /\ VoteIsFinal /\ [Next]_vars
            => VoteIsFinal'
    BY NewVote
  <1>3. QED
    BY <1>1, <1>2, TypeCorrect, ElectionInvariant, VotesAreOnFile, PTL DEF Spec

\* Two majorities of the cluster share a node.
LEMMA MajoritiesMeet ==
    ASSUME NEW P \in SUBSET Server, NEW Q \in SUBSET Server,
           2 * Cardinality(P) > Cardinality(Server), 2 * Cardinality(Q) > Cardinality(Server)
    PROVE  \E v \in Server : v \in P /\ v \in Q
  <1>1. IsFiniteSet(Server) /\ IsFiniteSet(P) /\ IsFiniteSet(Q)
    BY ServerAssumption, FS_Subset
  <1>2. Cardinality(Server) \in Nat /\ Cardinality(P) \in Nat /\ Cardinality(Q) \in Nat
    BY <1>1, FS_CardinalityType
  <1>3. IsFiniteSet(P \cup Q) /\ IsFiniteSet(P \cap Q)
        /\ Cardinality(P \cup Q) = Cardinality(P) + Cardinality(Q) - Cardinality(P \cap Q)
    BY <1>1, FS_Union, FS_Intersection
  <1>4. Cardinality(P \cup Q) <= Cardinality(Server)
    <2>1. P \cup Q \subseteq Server
      OBVIOUS
    <2>2. QED
      BY <1>1, <2>1, FS_Subset
  <1>5. Cardinality(P \cap Q) \in Nat /\ Cardinality(P \cup Q) \in Nat
    BY <1>3, FS_CardinalityType
  <1>6. Cardinality(P \cap Q) # 0
    BY <1>2, <1>3, <1>4, <1>5
  <1>7. P \cap Q # {}
    BY <1>6, FS_EmptySet
  <1>8. QED
    BY <1>7

\* Election safety in every cluster: two nodes that lead one term share a voter, and a
\* voter that has not forgotten its vote has voted for one of them only.
THEOREM ElectionsAreSafe == Spec => []ElectionSafety
  <1>1. LeaderBackedByMajority /\ VoteIsFinal /\ TypeOK => ElectionSafety
    <2> SUFFICES ASSUME LeaderBackedByMajority, VoteIsFinal, TypeOK,
                        NEW m \in Server, NEW n \in Server, m \notin late, n \notin late,
                        state[m] = "leader", state[n] = "leader",
                        current_term[m] = current_term[n],
                        \A v \in Server : <<v, current_term[n]>> \notin forgotten
                 PROVE  m = n
      BY DEF ElectionSafety
    <2>1. PICK P \in SUBSET {v \in Server : <<v, m, current_term[n]>> \in votes_cast} :
              2 * Cardinality(P) > Cardinality(Server)
      BY DEF LeaderBackedByMajority, VotersOf
    <2>2. PICK Q \in SUBSET {v \in Server : <<v, n, current_term[n]>> \in votes_cast} :
              2 * Cardinality(Q) > Cardinality(Server)
      BY DEF LeaderBackedByMajority, VotersOf
    <2>3. P \in SUBSET Server /\ Q \in SUBSET Server
      OBVIOUS
    <2>4. PICK v \in Server : v \in P /\ v \in Q
      BY <2>1, <2>2, <2>3, MajoritiesMeet
    <2>5. <<v, m, current_term[n]>> \in votes_cast /\ <<v, n, current_term[n]>> \in votes_cast
      BY <2>4
    <2>6. current_term[n] \in Term
      BY DEF TypeOK
    <2>7. QED
      BY <2>5, <2>6 DEF VoteIsFinal
  <1>2. QED
    BY <1>1, LeaderHasMajority, VotesAreFinal, TypeCorrect, PTL
=============================================================================
