--------------------------- MODULE ChainForwarding ---------------------------
(***************************************************************************)
(* Replication along the chain (src/raft/raft_node.cpp): the leader sends  *)
(* entries to its mentors, and every mentor forwards what is in its own    *)
(* log to the follower bound to it (ForwardToFollower), while the leader's *)
(* heartbeats and its direct AppendEntries reach the same follower.        *)
(*                                                                         *)
(* A log is the sequence of the terms of its entries.  The leader and its  *)
(* mentors are seen as far as the follower depends on them: a mentor       *)
(* handles a request in one step (PeerReplication has the steps and the    *)
(* leader's bookkeeping), and the leader may send the follower any part of *)
(* its log directly (direct_mode and the quorum edge decide when it does). *)
(* The forwarding threads of the mentors and the handlers of the follower  *)
(* interleave step by step.  Snapshots are left out: no node has one.      *)
(*                                                                         *)
(* A call to the follower occupies a slot.  pc is the place of the sender  *)
(* ("begin", "send", "wait", and "gone" once its deadline has passed) and  *)
(* at the place of the request ("sender", "net", "store", "done"). *)
(***************************************************************************)
EXTENDS Naturals, SequencesExt, FiniteSetsExt

CONSTANTS Leader, Mentors, Follower, None,
          Starts,            \* what the logs of the nodes may be at the start
          Slots,             \* numbers for the forwards that may be open at a time
          Window,            \* raft.pipeline_window_size
          Batch,             \* raft.batch_max_entries
          MaxLen,
          MaxDirect,         \* direct sends of the leader to the follower
          MaxFaults          \* lost calls, lost bindings and disturbed terms together

Peers == Mentors \union {Follower}

Nodes == Peers \union {Leader}

ASSUME ChainAssumption ==
  /\ Leader # Follower /\ Leader \notin Mentors /\ Follower \notin Mentors
  /\ IsFiniteSet(Mentors) /\ Mentors # {}
  /\ Starts \subseteq [Nodes -> Seq(Nat \ {0})]
  /\ IsFiniteSet(Slots) /\ Slots \subseteq Nat
  /\ Window \in Nat \ {0} /\ Batch \in Nat \ {0}
  /\ MaxLen \in Nat /\ MaxDirect \in Nat /\ MaxFaults \in Nat

VARIABLES log, term,
          commit,            \* of the leader and of the follower
          leading,           \* Leader is the leader of its term
          match,             \* match_index of its peers
          ack,               \* an answer of the follower that is on its way to it
          bind,              \* the mentor its topology binds the follower to
          serves,            \* the mentors that believe the follower is theirs
          progress,          \* peer_progress_ of every mentor, for the follower
          call,
          reset,             \* mentors that forgot their progress under calls that wait on
          astray,            \* mentors that began with entries the leader lacks
          clean,             \* the follower agreed at first and took nothing from those
          direct, faults     \* what has happened of the bounded kinds

vars == <<log, term, commit, leading, match, ack, bind, serves, progress,
          call, reset, astray, clean, direct, faults>>

leaderVars == <<leading, match, ack, bind>>

QuorumSize == Cardinality(Nodes) \div 2 + 1

NoAnswer == [success |-> FALSE, match |-> 0, conflict |-> 0, term |-> 0]

\* A slot without a call; what a call does not use yet, or no longer, has these values.
Free == [pc |-> "none", at |-> "none", from |-> None, prev |-> 0, prevTerm |-> 0,
         entries |-> <<>>, term |-> 0, commit |-> 0, src |-> None, answer |-> NoAnswer]

Smaller(a, b) == IF a < b THEN a ELSE b

Larger(a, b) == IF a > b THEN a ELSE b

Part(l, first, n) == SubSeq(l, first, Smaller(first + n - 1, Len(l)))

\* An entry of peer_progress_ that is not there is made with these values.
FreshProgress ==
  [known |-> FALSE, next |-> 1, match |-> 0, in_flight |-> 0, anchor |-> 0, failures |-> 0]

Init ==
  /\ log \in Starts
  /\ term = [n \in Nodes |-> IF log[Leader] = <<>> THEN 1 ELSE Last(log[Leader])]
  /\ clean = IsPrefix(log[Follower], log[Leader])
  /\ astray = {m \in Mentors : ~IsPrefix(log[m], log[Leader])}
  /\ commit = [n \in {Leader, Follower} |-> 0]
  /\ leading = TRUE /\ match = [p \in Peers |-> 0] /\ ack = None
  /\ bind \in Mentors /\ serves = {bind}
  /\ progress = [m \in Mentors |-> FreshProgress]
  /\ call = [s \in Slots |-> Free]
  /\ reset = {}
  /\ direct = 0 /\ faults = 0
-----------------------------------------------------------------------------
(* The leader and its mentors *)

\* The bound on the log keeps room for the no-op of an election that is due.
Disturbed == ~leading \/ \E n \in Nodes : term[n] > term[Leader]

Room == MaxLen - Len(log[Leader]) - (IF Disturbed THEN 1 ELSE 0)

Propose ==
  /\ leading /\ Room > 0
  /\ log' = [log EXCEPT ![Leader] = Append(@, term[Leader])]
  /\ UNCHANGED <<term, commit, leaderVars, serves, progress, call, reset, astray,
                 clean, direct, faults>>

\* Mutant: the acknowledgement of one entry counts for every entry.
HoldersOfAny(i) == {Leader} \union {p \in Peers : match[p] > 0}

\* The nodes whose match_index, as the leader knows it, reaches i.
Holders(i) == {Leader} \union {p \in Peers : match[p] >= i}

MaybeCommit ==
  /\ leading
  /\ LET S == {i \in commit[Leader] + 1 .. Len(log[Leader]) :
                 log[Leader][i] = term[Leader] /\ Cardinality(Holders(i)) >= QuorumSize}
     IN  S # {} /\ commit' = [commit EXCEPT ![Leader] = Max(S)]
  /\ UNCHANGED <<log, term, leaderVars, serves, progress, call, reset, astray, clean,
                 direct, faults>>

\* Entries that are there are skipped; the first that differs cuts the log.
Store(l, prev, entries) ==
  LET new == {i \in DOMAIN entries : prev + i > Len(l) \/ l[prev + i] # entries[i]}
  IN  IF new = {} THEN l
      ELSE SubSeq(l, 1, prev + Min(new) - 1) \o SubSeq(entries, Min(new), Len(entries))

Matches(l, prev, prevTerm) == prev <= Len(l) /\ (prev > 0 => l[prev] = prevTerm)

Waiting(m) == {s \in Slots : call[s].pc = "wait" /\ call[s].from = m}

\* BecomeFollower of mentor m, which a higher term makes forget the progress of its
\* follower; the calls in rest go on waiting.
BecomeFollower(m, t, rest) ==
  /\ term' = [term EXCEPT ![m] = t]
  /\ progress' = IF t > term[m] THEN [progress EXCEPT ![m] = FreshProgress] ELSE progress
  /\ reset' = IF t <= term[m] THEN reset
              ELSE IF rest = {} THEN reset \ {m} ELSE reset \union {m}

\* The mentor's HandleAppendEntries for any part of the leader's log, in any
\* order and any number of times; a request with entries starts a thread.  The
\* mentor acknowledges its whole log, and that is taken to be in at once.
Receive(m, s) ==
  /\ leading /\ term[m] <= term[Leader]
  /\ call[s] = Free /\ \A t \in Slots : t < s => call[t] # Free
  /\ \E prev \in 0 .. Len(log[Leader]) - 1 :
       LET entries == Part(log[Leader], prev + 1, Batch)
           l == Store(log[m], prev, entries)
       IN  /\ Matches(log[m], prev, IF prev = 0 THEN 0 ELSE log[Leader][prev])
           /\ log' = [log EXCEPT ![m] = l]
           /\ match' = [match EXCEPT ![m] = Larger(@, Len(l))]
  /\ BecomeFollower(m, term[Leader], Waiting(m))
  /\ call' = [call EXCEPT ![s] = [Free EXCEPT !.pc = "begin", !.at = "sender", !.from = m]]
  /\ UNCHANGED <<commit, leading, ack, bind, serves, astray, clean, direct, faults>>

\* A heartbeat to a mentor, which carries its binding; one whose term is higher
\* makes the leader step down.
HeartbeatMentor(m) ==
  /\ leading /\ term[m] <= term[Leader]
  /\ BecomeFollower(m, term[Leader], Waiting(m))
  /\ serves' = IF bind = m THEN serves \union {m} ELSE serves \ {m}
  /\ UNCHANGED <<log, commit, leaderVars, call, astray, clean, direct, faults>>

MentorRefuses(m) ==
  /\ leading /\ term[m] > term[Leader]
  /\ leading' = FALSE
  /\ term' = [term EXCEPT ![Leader] = term[m]]
  /\ UNCHANGED <<log, commit, match, ack, bind, serves, progress, call, reset,
                 astray, clean, direct, faults>>

\* A heartbeat to the follower, handled in one step.
HeartbeatFollower ==
  /\ leading
  /\ IF term[Follower] > term[Leader]
     THEN /\ leading' = FALSE
          /\ term' = [term EXCEPT ![Leader] = term[Follower]]
          /\ UNCHANGED commit
     ELSE /\ term' = [term EXCEPT ![Follower] = term[Leader]]
          /\ commit' = [commit EXCEPT ![Follower] =
                          Larger(@, Smaller(commit[Leader], Len(log[Follower])))]
          /\ UNCHANGED leading
  /\ UNCHANGED <<log, match, ack, bind, serves, progress, call, reset, astray, clean,
                 direct, faults>>

\* ReplicatePeerOnce, or the probe of CheckFollowerTimeouts, for the follower.  It
\* is handled in one step; the answer is on its way for as long as it likes.
ReplicateDirectly ==
  /\ leading /\ ack = None /\ term[Follower] <= term[Leader] /\ direct < MaxDirect
  /\ direct' = direct + 1
  /\ \E prev \in match[Follower] .. Len(log[Leader]) :
       LET entries == Part(log[Leader], prev + 1, Batch)
           l == Store(log[Follower], prev, entries)
       IN  /\ Matches(log[Follower], prev, IF prev = 0 THEN 0 ELSE log[Leader][prev])
           /\ log' = [log EXCEPT ![Follower] = l]
           /\ commit' = [commit EXCEPT ![Follower] = Larger(@, Smaller(commit[Leader], Len(l)))]
           /\ ack' = Len(l)
  /\ term' = [term EXCEPT ![Follower] = term[Leader]]
  /\ UNCHANGED <<leading, match, bind, serves, progress, call, reset, astray, clean,
                 faults>>

\* The answer reaches the leader, which does not ask of which term it is.
DirectAnswer ==
  /\ ack # None
  /\ match' = [match EXCEPT ![Follower] = Larger(@, ack)] /\ ack' = None
  /\ UNCHANGED <<log, term, commit, leading, bind, serves, progress, call, reset,
                 astray, clean, direct, faults>>

\* RebalanceTopology, SwapFollowers: the follower gets another mentor, or the
\* leader itself; that it gets a mentor again is not bounded.
Rebind ==
  /\ leading /\ (bind = Leader \/ faults < MaxFaults)
  /\ bind' \in (Mentors \union {Leader}) \ {bind}
  /\ faults' = IF bind = Leader THEN faults ELSE faults + 1
  /\ UNCHANGED <<log, term, commit, leading, match, ack, serves, progress, call,
                 reset, astray, clean, direct>>

\* The follower stands for election and fails; the leader is elected again
\* after it has heard of the new term, and begins with a no-op.
FollowerCampaigns ==
  /\ faults < MaxFaults /\ Room > 0
  /\ faults' = faults + 1
  /\ term' = [term EXCEPT ![Follower] = @ + 1]
  /\ UNCHANGED <<log, commit, leaderVars, serves, progress, call, reset, astray,
                 clean, direct>>

BecomeLeader ==
  /\ ~leading
  /\ LET t == Max({term[n] : n \in Nodes}) + 1
     IN  /\ term' = [term EXCEPT ![Leader] = t]
         /\ log' = [log EXCEPT ![Leader] = Append(@, t)]
  /\ leading' = TRUE /\ match' = [p \in Peers |-> 0]
  /\ UNCHANGED <<commit, ack, bind, serves, progress, call, reset, astray, clean,
                 direct, faults>>
-----------------------------------------------------------------------------
(* ForwardToFollower *)

End(s) == call' = [call EXCEPT ![s] = Free]

\* The binding, the progress, the window and the log are read.
ForwardBegin(s) ==
  /\ call[s].pc = "begin"
  /\ LET m       == call[s].from
         p       == progress[m]
         next    == IF p.known THEN p.next ELSE Len(log[m]) + 1
         entries == Part(log[m], next, Batch)
     IN  IF \/ m \notin serves
            \/ p.in_flight >= Window
            \/ entries = <<>> /\ p.match >= Len(log[m])
         THEN End(s)
         ELSE call' = [call EXCEPT ![s] = [@ EXCEPT !.pc = "send", !.prev = next - 1,
                                                    !.entries = entries]]
  /\ UNCHANGED <<log, term, commit, leaderVars, serves, progress, reset, astray,
                 clean, direct, faults>>

\* Mutant: the predecessor is the entry that is sent.
ForwardRequestPrev(c, commitIndex) ==
  LET m == c.from
      next == c.prev + 1
  IN  [c EXCEPT !.pc = "wait", !.at = "net", !.prev = next,
                !.prevTerm = IF next > Len(log[m]) THEN 0 ELSE log[m][next],
                !.term = term[m], !.commit = commitIndex,
                !.src = IF m \in serves THEN m ELSE None]

\* The request of the thread with call c; the topology in it is the mentor's own
\* view at this moment.
ForwardRequest(c, commitIndex) ==
  LET m == c.from
  IN  [c EXCEPT !.pc = "wait", !.at = "net",
                !.prevTerm = IF c.prev = 0 THEN 0 ELSE log[m][c.prev],
                !.term = term[m], !.commit = commitIndex,
                !.src = IF m \in serves THEN m ELSE None]

\* Mutant: the call is not counted.
ForwardSendUncounted(s) ==
  /\ call[s].pc = "send"
  /\ LET c == call[s] m == c.from
     IN  /\ call' = [call EXCEPT ![s] = ForwardRequest(c, 0)]
         /\ progress' = [progress EXCEPT ![m].known = TRUE, ![m].next = Larger(@, c.prev + 1)]
  /\ UNCHANGED <<log, term, commit, leaderVars, serves, reset, astray, clean, direct,
                 faults>>

\* The rest of the request is read and the call counted; the window is not looked
\* at again.  The mentor's commit index is any that it may have been told.
ForwardSend(s) ==
  /\ call[s].pc = "send"
  /\ LET c == call[s] m == c.from
     IN  IF c.prev > Len(log[m]) THEN End(s) /\ UNCHANGED progress
         ELSE /\ \E i \in 0 .. Smaller(commit[Leader], Len(log[m])) :
                   call' = [call EXCEPT ![s] = ForwardRequest(c, i)]
              /\ progress' = [progress EXCEPT ![m].known = TRUE, ![m].in_flight = @ + 1,
                                              ![m].next = Larger(@, c.prev + 1)]
  /\ UNCHANGED <<log, term, commit, leaderVars, serves, reset, astray, clean, direct,
                 faults>>

Decrement(n) == IF n > 0 THEN n - 1 ELSE 0

\* Mutant: the deadline leaves the counter alone.
DeadlineUncounted(p) == p

\* UpdatePeerFailure without an index to restore.
UpdatePeerFailure(p) == [p EXCEPT !.known = TRUE, !.in_flight = Decrement(@)]

\* With the last of its calls a mentor's count is right again.
Drained(s) ==
  LET m == call[s].from IN reset' = IF Waiting(m) = {s} THEN reset \ {m} ELSE reset

\* The deadline passes before the answer is there.  The request may have been
\* lost, or its handler goes on without the caller.
Deadline(s) ==
  /\ call[s].pc = "wait" /\ call[s].at # "done" /\ faults < MaxFaults
  /\ faults' = faults + 1
  /\ progress' = [progress EXCEPT ![call[s].from] = UpdatePeerFailure(@)]
  /\ Drained(s)
  /\ \/ call[s].at = "net" /\ End(s)
     \/ call' = [call EXCEPT ![s].pc = "gone"]
  /\ UNCHANGED <<log, term, commit, leaderVars, serves, astray, clean, direct>>

LinearThreshold == Larger(1, Window * 2)

\* UpdatePeerAck
Acked(p, m) ==
  [p EXCEPT !.known = TRUE, !.match = Larger(@, m), !.next = Larger(@, m + 1),
            !.in_flight = Decrement(@), !.anchor = 0, !.failures = 0]

\* ApplyPeerRollbackStateLocked
RolledBack(p, attempted, conflict) ==
  LET start    == IF p.anchor = 0 THEN attempted ELSE p.anchor
      anchor   == IF conflict # 0 /\ conflict < start THEN conflict ELSE start
      failures == p.failures + 1
      retreat  == IF failures > LinearThreshold
                  THEN LinearThreshold + 2 ^ Smaller(failures - LinearThreshold - 1, 20)
                  ELSE failures
  IN  [p EXCEPT !.anchor = anchor, !.failures = failures,
                !.next = IF anchor > retreat THEN anchor - retreat ELSE 1]

Rejected(p, attempted, conflict) ==
  LET q == [p EXCEPT !.known = TRUE, !.in_flight = Decrement(@)]
  IN  IF conflict > 0 /\ conflict < attempted
      THEN [q EXCEPT !.next = conflict, !.anchor = 0, !.failures = 0]
      ELSE RolledBack(q, attempted, conflict)

\* The answer reaches the mentor.  A higher term ends the call before it is
\* counted back, and the progress is forgotten.
ForwardAnswer(s) ==
  /\ call[s].pc = "wait" /\ call[s].at = "done"
  /\ LET c == call[s] m == c.from a == c.answer
     IN  IF a.term > term[m]
         THEN BecomeFollower(m, a.term, Waiting(m) \ {s})
         ELSE /\ progress' = [progress EXCEPT ![m] =
                    IF a.success THEN Acked(@, a.match) ELSE Rejected(@, c.prev + 1, a.conflict)]
              /\ Drained(s)
              /\ UNCHANGED term
  /\ End(s)
  /\ UNCHANGED <<log, commit, leaderVars, serves, astray, clean, direct, faults>>

-----------------------------------------------------------------------------
(* The follower: HandleAppendEntries and HandleHeartbeat *)

\* What of a call is still looked at once its request has been handled.
Brief(c) == [Free EXCEPT !.pc = c.pc, !.from = c.from, !.prev = c.prev]

Answer(s, success, matched, conflict, t) ==
  call' = [call EXCEPT ![s] = IF @.pc = "gone" THEN Free
             ELSE [Brief(@) EXCEPT !.at = "done", !.answer =
                    [success |-> success, match |-> matched, conflict |-> conflict, term |-> t]]]

\* The first index of the run of entries that have the term of entry i.
RunStart(l, i) ==
  Min({k \in 1 .. i : \A j \in k .. i : l[j] = l[i]})

\* Mutant: the commit index of the request is taken as it is.
BoundedCommitUnbounded(c, l) == c.commit

BoundedCommit(c, l) == Smaller(c.commit, Len(l))

\* The handler up to its comparison with the commit index.  The topology of the
\* request is applied before the sender is checked against it, so that the
\* source the follower had believed in does not matter.
Handle(s) ==
  /\ call[s].at = "net"
  /\ LET c == call[s] l == log[Follower]
         Reject(conflict) ==
           Answer(s, FALSE, 0, conflict, c.term) /\ UNCHANGED <<log, clean>>
         Accept(new) ==
           /\ log' = [log EXCEPT ![Follower] = new]
           /\ clean' = (clean /\ (new = l \/ c.from \notin astray))
           /\ IF BoundedCommit(c, new) > commit[Follower]
              THEN call' = [call EXCEPT ![s] =
                              [Brief(@) EXCEPT !.at = "store", !.commit = BoundedCommit(c, new)]]
              ELSE Answer(s, TRUE, Len(new), 0, c.term)
     IN  IF c.term < term[Follower]
         THEN /\ Answer(s, FALSE, 0, Len(l) + 1, term[Follower])
              /\ UNCHANGED <<log, term, clean>>
         ELSE /\ term' = [term EXCEPT ![Follower] = c.term]
              /\ IF c.from # c.src THEN Reject(0)
                 ELSE IF c.prev > Len(l) THEN Reject(Len(l) + 1)
                 ELSE IF ~Matches(l, c.prev, c.prevTerm) THEN Reject(RunStart(l, c.prev))
                 ELSE Accept(Store(l, c.prev, c.entries))
  /\ UNCHANGED <<commit, leaderVars, serves, progress, reset, astray, direct, faults>>

\* The store does not look at the commit index again.
HandleStore(s) ==
  /\ call[s].at = "store"
  /\ commit' = [commit EXCEPT ![Follower] = call[s].commit]
  /\ Answer(s, TRUE, Len(log[Follower]), 0, term[Follower])
  /\ UNCHANGED <<log, term, leaderVars, serves, progress, reset, astray, clean,
                 direct, faults>>

-----------------------------------------------------------------------------
Next ==
  \/ Propose \/ MaybeCommit \/ Rebind \/ FollowerCampaigns \/ BecomeLeader
  \/ \E m \in Mentors : \/ HeartbeatMentor(m) \/ MentorRefuses(m)
                        \/ \E s \in Slots : Receive(m, s)
  \/ HeartbeatFollower \/ ReplicateDirectly \/ DirectAnswer
  \/ \E s \in Slots : ForwardBegin(s) \/ ForwardSend(s) \/ ForwardAnswer(s)
  \/ \E s \in Slots : Handle(s) \/ HandleStore(s) \/ Deadline(s)

(***************************************************************************)
(* A thread that was started and a handler that was entered go on; the     *)
(* heartbeat loop of the leader does not end, and a cluster without a      *)
(* leader elects one.  New entries and direct sends are promised by no one.*)
(***************************************************************************)
Fairness ==
  /\ \A s \in Slots : WF_vars(ForwardBegin(s) \/ ForwardSend(s) \/ ForwardAnswer(s))
  /\ \A s \in Slots : WF_vars(Handle(s) \/ HandleStore(s))
  /\ \A m \in Mentors : WF_vars(HeartbeatMentor(m) \/ MentorRefuses(m))
  /\ WF_vars(BecomeLeader)

Spec == Init /\ [][Next]_vars /\ Fairness
-----------------------------------------------------------------------------
Progress == [known: BOOLEAN, next: Nat \ {0}, match: Nat, in_flight: Nat, anchor: Nat,
             failures: Nat]

CallState ==
  [pc: {"none", "begin", "send", "wait", "gone"}, at: {"none", "sender", "net", "store", "done"},
   from: Mentors \union {None}, prev: Nat, prevTerm: Nat, entries: Seq(Nat \ {0}), term: Nat,
   commit: Nat, src: Mentors \union {None},
   answer: [success: BOOLEAN, match: Nat, conflict: Nat, term: Nat]]

TypeOK ==
  /\ log \in [Nodes -> Seq(Nat \ {0})]
  /\ term \in [Nodes -> Nat] /\ term[Leader] # 0
  /\ commit \in [{Leader, Follower} -> Nat]
  /\ leading \in BOOLEAN /\ match \in [Peers -> Nat] /\ ack \in Nat \union {None}
  /\ bind \in Mentors \union {Leader} /\ serves \subseteq Mentors
  /\ progress \in [Mentors -> Progress]
  /\ call \in [Slots -> CallState]
  /\ \A s \in Slots : call[s].pc # "none" => call[s].from \in Mentors
  /\ \A s \in Slots : call[s].at \in {"net", "store", "done"} => call[s].pc # "none"
  /\ reset \subseteq Mentors /\ astray \subseteq Mentors /\ clean \in BOOLEAN
  /\ direct \in Nat /\ faults \in Nat

\* ForwardToFollower gives back every place of the window that it took and no other:
\* the counter is the number of callers that wait.  It falls short of it only after a
\* higher term has made the mentor forget the counter under waiting calls, until the last
\* of them has ended; it never exceeds it, so that a window cannot be used up for good.
InFlightExact ==
  \A m \in Mentors :
    /\ progress[m].in_flight <= Cardinality(Waiting(m))
    /\ m \notin reset => progress[m].in_flight = Cardinality(Waiting(m))

\* A follower that starts in agreement stays in agreement: forwards of mentors
\* that lag behind, arrive late, twice or out of order next to direct sends never
\* cost it an entry of the leader nor give it one the leader has not.  The entries of a
\* mentor whose own log had diverged are excepted.
FollowerAgrees == clean => IsPrefix(log[Follower], log[Leader])

\* A committed entry is in the logs of a quorum and stays there, although the
\* follower counts only through its direct acknowledgements and the chain goes on
\* writing to its log, provided that all logs started in agreement.
CommittedOnQuorum ==
  clean /\ astray = {} => \A i \in 1 .. commit[Leader] :
    Cardinality({n \in Nodes : Len(log[n]) >= i /\ log[n][i] = log[Leader][i]}) >= QuorumSize

\* The follower takes for committed, and applies, only what the leader has
\* committed, whoever told it and whichever store of the index came last.
FollowerCommits ==
  clean => /\ commit[Follower] <= commit[Leader]
           /\ commit[Follower] <= Len(log[Follower])
           /\ IsPrefix(SubSeq(log[Follower], 1, commit[Follower]), log[Leader])

Traffic(m) == \E s \in Slots : call[s].pc = "begin" /\ call[s].from = m

\* The chain delivers: as long as requests with entries keep reaching the mentors,
\* the follower ends up with the log of the mentor it is bound to, whatever was
\* lost, refused, forgotten or bound otherwise before.  A follower that took an entry
\* of a diverged mentor is excepted.
ChainDelivers ==
  (\A m \in Mentors : []<>Traffic(m))
    => <>[](clean /\ bind \in Mentors => IsPrefix(log[bind], log[Follower]))

\* Not upheld by the code (see README): kept to show what breaks.
CommitNeverRegresses == [][commit'[Follower] >= commit[Follower]]_vars
WindowRespected == \A m \in Mentors : Cardinality(Waiting(m)) <= Window
AlwaysAgrees == IsPrefix(log[Follower], log[Leader])
AlwaysDelivers ==
  (\A m \in Mentors : []<>Traffic(m))
    => <>[](bind \in Mentors => IsPrefix(log[bind], log[Follower]))
OnlyItsMentor ==
  [][log'[Follower] # log[Follower] =>
       \E s \in Slots : call[s].at = "net" /\ call'[s].at # "net" /\ call[s].from \in {Leader, bind}]_vars
ChainDeliversQuietly == <>[](clean /\ bind \in Mentors => IsPrefix(log[bind], log[Follower]))
=============================================================================
