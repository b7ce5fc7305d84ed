------------------------------ MODULE LeaseRead ------------------------------
(***************************************************************************)
(* Lease reads: LeaseManager, the renewals of BroadcastHeartbeat and the   *)
(* handler of a search.  Points in time are kept as the time since then or *)
(* until then, so that the clock itself needs no bound.  A round of        *)
(* heartbeats is one call per peer, each of which may be handled late,     *)
(* lost or refused; the round renews the lease after its last answer       *)
(* without looking at the role again.  A node has two threads of rounds:   *)
(* HeartbeatLoop and the read that finds no lease.                         *)
(*                                                                         *)
(* A node that finds its election deadline in the past stands in a later   *)
(* step, without another look at it.  The rest of an election and of       *)
(* replication, which have modules of their own, is one step each: a       *)
(* candidacy with the nodes it reaches, and an entry stored on a quorum    *)
(* and committed.  A log is the number of writes in it; writes *)
(* are acknowledged when the leader applies them, and a follower applies   *)
(* them as soon as it hears that they are committed.                       *)
(***************************************************************************)
EXTENDS NodeConfig, Sequences, FiniteSets, FiniteSetsExt, SequencesExt

CONSTANTS Nodes, None,
          FirstLeader,         \* who leads at first; the nodes are alike
          Files, StartFiles,   \* configuration files, and those that a run may start with
          Budgets,             \* what happens together: writes, faults, kinds of calls, caches
          MaxTerm,             \* bound on the terms
          MaxOpen,             \* bound on the rounds in progress
          MaxHops              \* bound on how often a search is forwarded

ASSUME ReadAssumption ==
  /\ IsFiniteSet(Nodes) /\ None \notin Nodes /\ FirstLeader \in Nodes /\ StartFiles \subseteq Files
  /\ \A file \in Files : IsFile(file)
  /\ {MaxTerm, MaxOpen} \subseteq Nat /\ MaxHops \in Nat \ {0}

VARIABLES
  budget,     \* the bounds that were chosen
  config,     \* what LoadFromFile made of the file
  term, role, hint,   \* current_term_, state_, leader_id_
  silence,    \* the time since last_leader_contact_, up to the election timeout
  due,        \* whether ElectionLoop has found the deadline in the past
  lease,      \* the time until expire_time_, and what the renewal rested on
  round,      \* the rounds of heartbeats of a node, by thread
  log, commit, applied,        \* writes in the log, below commit_index_, in the index
  own,        \* whether a leader has committed an entry of its term
  acked,      \* the writes that clients have been told of
  search,     \* the search a client waits for
  faults

nodeVars == <<term, role, hint, silence, due, lease>>
dataVars == <<log, commit, applied, own, acked>>
serverVars == <<budget, config, nodeVars, round, dataVars, search, faults>>

Threads == {"loop", "read"}

NoRound == [term |-> 0]

NoSearch == [pc |-> "none"]

QuorumSize == Cardinality(Nodes) \div 2 + 1

Invalid == [left |-> 0, sound |-> FALSE]

\* LeaseManager::IsValid
IsValid(n) == lease[n].left > 0

\* LeaseManager::Renew
Renew(sound) ==
  IF config.lease <= 0 THEN Invalid ELSE [left |-> config.lease, sound |-> sound]

\* What of the configuration matters here.
Timing(c) == [key \in {"election_min", "drift", "lease", "max_retry"} |-> c[key]]

\* A leader that has just been elected and that nobody has heard of yet.
Init ==
  /\ budget \in Budgets
  /\ \E file \in StartFiles : LoadFromFile(file) # Refused /\ config = Timing(LoadFromFile(file))
  /\ role = [n \in Nodes |-> IF n = FirstLeader THEN "leader" ELSE "follower"]
  /\ hint = [n \in Nodes |-> IF n = FirstLeader THEN n ELSE None]
  /\ term = [n \in Nodes |-> 1]
  /\ silence = [n \in Nodes |-> 0] /\ due = [n \in Nodes |-> FALSE]
  /\ lease = [n \in Nodes |-> Invalid]
  /\ round = [n \in Nodes |-> [t \in Threads |-> NoRound]]
  /\ log = [n \in Nodes |-> 0] /\ commit = log /\ applied = log
  /\ own = [n \in Nodes |-> FALSE]
  /\ acked = 0 /\ search = NoSearch /\ faults = 0

\* Every clock goes on; nobody looks at the election timer of a leader.
Tick ==
  /\ silence' = [n \in Nodes |-> IF role[n] = "leader" THEN 0
                                 ELSE Min({silence[n] + 1, config.election_min})]
  /\ lease' = [n \in Nodes |-> IF lease[n].left <= 1 THEN Invalid
                               ELSE [lease[n] EXCEPT !.left = @ - 1]]
  /\ round' = [n \in Nodes |-> [t \in Threads |->
                  IF round[n][t] = NoRound THEN NoRound
                  ELSE [round[n][t] EXCEPT !.age = Min({@ + 1, config.drift + 1})]]]
  /\ UNCHANGED <<budget, config, term, role, hint, due, dataVars, search, faults>>
-----------------------------------------------------------------------------
(* Roles, elections and replication *)

\* BecomeFollower of every node of S.
BecomeFollower(S, t, leader) ==
  /\ term'    = [n \in Nodes |-> IF n \in S THEN t ELSE term[n]]
  /\ role'    = [n \in Nodes |-> IF n \in S THEN "follower" ELSE role[n]]
  /\ hint'    = [n \in Nodes |-> IF n \in S THEN leader ELSE hint[n]]
  /\ silence' = [n \in Nodes |-> IF n \in S THEN 0 ELSE silence[n]]
  /\ lease'   = [n \in Nodes |-> IF n \in S THEN Invalid ELSE lease[n]]
  /\ UNCHANGED due

\* ElectionLoop compares the deadline that it has read under the lock after it has
\* released the lock.
ElectionLoop(n) ==
  /\ role[n] # "leader" /\ ~due[n] /\ silence[n] = config.election_min /\ term[n] < MaxTerm
  /\ due' = [due EXCEPT ![n] = TRUE]
  /\ UNCHANGED <<budget, config, term, role, hint, silence, lease, round, dataVars, search, faults>>

\* BecomeCandidate, whatever has been heard from a leader since the deadline was
\* compared, and the candidacy, which reaches the nodes of S.  They vote without
\* asking when they last heard from a leader.
Campaign(n, S) ==
  /\ due[n] /\ due' = [due EXCEPT ![n] = FALSE]
  /\ term[n] < MaxTerm /\ \A p \in S : term[p] <= term[n]
  /\ LET t      == term[n] + 1
         voters == {p \in S : log[p] <= log[n]}
         won    == Cardinality(voters) + 1 >= QuorumSize
         T      == S \union {n}
     IN  /\ term'    = [p \in Nodes |-> IF p \in T THEN t ELSE term[p]]
         /\ role'    = [p \in Nodes |-> IF p = n THEN (IF won THEN "leader" ELSE "candidate")
                                        ELSE IF p \in S THEN "follower" ELSE role[p]]
         /\ hint'    = [p \in Nodes |-> IF p = n /\ won THEN n
                                        ELSE IF p \in T THEN None ELSE hint[p]]
         /\ silence' = [p \in Nodes |-> IF p \in T THEN 0 ELSE silence[p]]
         /\ lease'   = [p \in Nodes |-> IF p \in T THEN Invalid ELSE lease[p]]
         /\ own'     = [own EXCEPT ![n] = FALSE]
  /\ UNCHANGED <<budget, config, round, log, commit, applied, acked, search, faults>>

\* The no-op (k = 0) or a write (k = 1) is stored on a quorum and committed.
Replicate(l, S, k) ==
  /\ role[l] = "leader" /\ Cardinality(S) + 1 >= QuorumSize
  /\ \A p \in S : term[p] <= term[l]
  /\ budget.writes > 0 /\ log[l] + k <= budget.writes /\ (k = 0) # own[l]
  /\ LET T == {p \in S : term[p] < term[l] \/ role[p] # "follower"}
     IN  /\ term'    = [p \in Nodes |-> IF p \in S THEN term[l] ELSE term[p]]
         /\ role'    = [p \in Nodes |-> IF p \in S THEN "follower" ELSE role[p]]
         /\ hint'    = [p \in Nodes |-> IF p \in S THEN l ELSE hint[p]]
         /\ silence' = [p \in Nodes |-> IF p \in S THEN 0 ELSE silence[p]]
         /\ lease'   = [p \in Nodes |-> IF p \in T THEN Invalid ELSE lease[p]]
         /\ UNCHANGED due
  /\ log' = [p \in Nodes |-> IF p \in S \union {l} THEN log[l] + k ELSE log[p]]
  /\ commit' = [commit EXCEPT ![l] = log[l] + k]
  /\ own' = [own EXCEPT ![l] = TRUE]
  /\ UNCHANGED <<budget, config, round, applied, acked, search, faults>>

\* The apply thread of a leader, whose listeners answer the clients.
Apply(n) ==
  /\ role[n] = "leader" /\ applied[n] < commit[n]
  /\ applied' = [applied EXCEPT ![n] = commit[n]]
  /\ acked' = Max({acked, commit[n]})
  /\ UNCHANGED <<budget, config, nodeVars, round, log, commit, own, search, faults>>
-----------------------------------------------------------------------------
(* BroadcastHeartbeat *)

Open == {nt \in Nodes \X Threads : round[nt[1]][nt[2]] # NoRound}

Broadcast(n, t) ==
  /\ round[n][t] = NoRound /\ Cardinality(Open) < MaxOpen
  /\ round' = [round EXCEPT ![n][t] =
       [term |-> term[n], commit |-> commit[n], age |-> 0, high |-> term[n],
        answer |-> [p \in Nodes \ {n} |-> "net"]]]

BeginRound(n) ==
  /\ role[n] = "leader"
  /\ Broadcast(n, "loop")
  /\ UNCHANGED <<budget, config, nodeVars, dataVars, search, faults>>

Pending(n, t, p) == round[n][t] # NoRound /\ p # n /\ round[n][t].answer[p] = "net"

\* What a round makes of the answer of p.  An answer of a node that is about to
\* stand all the same is told apart, which the code cannot do.
Answered(r, p, success, t) ==
  [r EXCEPT !.high = Max({@, t}),
            !.answer[p] = IF t > r.high \/ ~success THEN "bad" ELSE IF due[p] THEN "due" ELSE "ok"]

\* HandleHeartbeat, in one step.
HandleHeartbeat(n, t, p) ==
  /\ Pending(n, t, p)
  /\ LET r == round[n][t]
     IN  IF r.term < term[p]
         THEN /\ round' = [round EXCEPT ![n][t] = Answered(r, p, FALSE, term[p])]
              /\ UNCHANGED <<nodeVars, commit, applied>>
         ELSE /\ IF r.term > term[p] \/ role[p] # "follower"
                 THEN BecomeFollower({p}, r.term, n)
                 ELSE /\ hint' = [hint EXCEPT ![p] = n]
                      /\ silence' = [silence EXCEPT ![p] = 0]
                      /\ UNCHANGED <<term, role, due, lease>>
              /\ commit' = [commit EXCEPT ![p] = Max({@, Min({r.commit, log[p]})})]
              /\ applied' = [applied EXCEPT ![p] = commit'[p]]
              /\ round' = [round EXCEPT ![n][t] = Answered(r, p, TRUE, r.term)]
  /\ UNCHANGED <<budget, config, log, own, acked, search, faults>>

HeartbeatLost(n, t, p) ==
  /\ Pending(n, t, p) /\ faults < budget.faults
  /\ faults' = faults + 1
  /\ round' = [round EXCEPT ![n][t].answer[p] = "bad"]
  /\ UNCHANGED <<budget, config, nodeVars, dataVars, search>>

\* A round that every node answered, none of them about to stand, and that was no
\* longer than the drift bound.
Sound(n, r) ==
  r.age <= config.drift /\ \A p \in Nodes \ {n} : r.answer[p] = "ok"

\* After the threads have been joined.  The time counts from here.
EndRound(n, t) ==
  /\ round[n][t] # NoRound
  /\ LET r == round[n][t]
     IN  /\ \A p \in Nodes \ {n} : r.answer[p] # "net"
         /\ IF r.high > r.term
            THEN IF r.high >= term[n] THEN BecomeFollower({n}, r.high, None)
                                      ELSE UNCHANGED nodeVars
            ELSE /\ lease' = IF Cardinality({p \in Nodes \ {n} : r.answer[p] \in {"ok", "due"}}) + 1
                                  >= QuorumSize
                             THEN [lease EXCEPT ![n] = Renew(Sound(n, r))] ELSE lease
                 /\ UNCHANGED <<term, role, hint, silence, due>>
  /\ round' = [round EXCEPT ![n][t] = NoRound]
  /\ UNCHANGED <<budget, config, dataVars, search, faults>>
-----------------------------------------------------------------------------
(* HandleClientSearch *)

NewSearch(n) ==
  [pc |-> "enter", at |-> n, via |-> <<>>, backed |-> FALSE]

Reply(kind, value) == search' = [pc |-> "answered", kind |-> kind, value |-> value,
                                 backed |-> search.backed]

\* LeaseRead failed: the client is sent elsewhere if the node leads no longer.
Fail(n) == IF role[n] = "leader" THEN Reply("error", None) ELSE Reply("redirect", hint[n])

\* A node that does not lead passes the search on to the leader it knows, or
\* sends the client there.
SearchForward ==
  /\ search.pc = "enter" /\ role[search.at] # "leader"
  /\ LET n == search.at h == hint[n]
     IN  IF h \notin {None, n} /\ Len(search.via) < MaxHops
         THEN search' = [search EXCEPT !.at = h, !.via = Append(@, h)]
         ELSE Reply("redirect", h)
  /\ UNCHANGED <<budget, config, nodeVars, round, dataVars, faults>>

\* A forwarded call fails; its sender answers with the leader it had read.
ForwardFails ==
  /\ search.pc \notin {"none", "answered"} /\ faults < budget.faults
  /\ \E i \in DOMAIN search.via : Reply("redirect", search.via[i])
  /\ faults' = faults + 1
  /\ UNCHANGED <<budget, config, nodeVars, round, dataVars>>

Leased(n) == [search EXCEPT !.pc = "applied", !.backed = lease[n].sound /\ own[n]]

\* Mutant: a read without a lease fails.
EnsureLeaseOrFail ==
  /\ search.pc = "enter" /\ role[search.at] = "leader"
  /\ LET n == search.at
     IN  IF IsValid(n) THEN search' = Leased(n) ELSE Fail(n)
  /\ UNCHANGED <<budget, config, nodeVars, round, dataVars, faults>>

\* EnsureLeaseReadable up to the round it waits for.
EnsureLease ==
  /\ search.pc = "enter" /\ role[search.at] = "leader"
  /\ LET n == search.at
     IN  IF IsValid(n) THEN search' = Leased(n) /\ UNCHANGED round
         ELSE /\ Broadcast(n, "read")
              /\ search' = [search EXCEPT !.pc = "round"]
  /\ UNCHANGED <<budget, config, nodeVars, dataVars, faults>>

RecheckLease ==
  /\ search.pc = "round" /\ round[search.at]["read"] = NoRound
  /\ IF IsValid(search.at) THEN search' = Leased(search.at) ELSE Fail(search.at)
  /\ UNCHANGED <<budget, config, nodeVars, round, dataVars, faults>>

\* Mutant: the read does not wait for the apply thread.
WaitAppliedNot ==
  /\ search.pc = "applied"
  /\ search' = [search EXCEPT !.pc = "search"]
  /\ UNCHANGED <<budget, config, nodeVars, round, dataVars, faults>>

WaitApplied ==
  /\ search.pc = "applied" /\ applied[search.at] >= commit[search.at]
  /\ search' = [search EXCEPT !.pc = "search"]
  /\ UNCHANGED <<budget, config, nodeVars, round, dataVars, faults>>

\* The 500 ms are over.
WaitTimeout ==
  /\ search.pc = "applied" /\ applied[search.at] < commit[search.at]
  /\ Fail(search.at)
  /\ UNCHANGED <<budget, config, nodeVars, round, dataVars, faults>>

\* VectorIndex::Search
SearchIndex ==
  /\ search.pc = "search"
  /\ Reply("ok", applied[search.at])
  /\ UNCHANGED <<budget, config, nodeVars, round, dataVars, faults>>
-----------------------------------------------------------------------------
HandlerStep ==
  \/ SearchForward \/ EnsureLease \/ RecheckLease
  \/ WaitApplied \/ SearchIndex

RoundStep ==
  \E n \in Nodes, t \in Threads :
    \/ EndRound(n, t)
    \/ \E p \in Nodes : HandleHeartbeat(n, t, p)

ServerStep ==
  \/ Tick \/ HandlerStep \/ RoundStep \/ ForwardFails \/ WaitTimeout
  \/ \E n \in Nodes : \/ BeginRound(n) \/ Apply(n) \/ ElectionLoop(n)
                      \/ \E S \in SUBSET (Nodes \ {n}) : Campaign(n, S)
                      \/ \E S \in SUBSET (Nodes \ {n}), k \in {0, 1} : Replicate(n, S, k)
  \/ \E n \in Nodes, t \in Threads, p \in Nodes : HeartbeatLost(n, t, p)
=============================================================================
