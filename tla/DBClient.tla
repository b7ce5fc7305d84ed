------------------------------ MODULE DBClient ------------------------------
(***************************************************************************)
(* The client library in front of the nodes of LeaseRead: the cached       *)
(* leader, the concurrent probe for one, and WithRetry around a search or  *)
(* a write.  The outcome of a write at a leader, which ClientWrite models, *)
(* is left open here: an answer, an error, or neither when its wait was in *)
(* vain.  The pauses between attempts are taken to be of any length.       *)
(***************************************************************************)
EXTENDS LeaseRead

CONSTANT MaxCalls      \* bound on the calls of the client

ASSUME ClientAssumption == MaxCalls \in Nat

VARIABLES
  cache,      \* leader_addr_
  call,       \* the call in progress
  probe,      \* the threads of ProbeLeaderConcurrently and what they selected
  result,     \* the last call that ended
  calm,       \* no fault and no change of leader since the call began
  calls

clientVars == <<cache, call, probe, result, calls>>

vars == <<serverVars, clientVars, calm>>

Idle == [pc |-> "idle"]

NoProbe == [pending |-> {}, selected |-> None]

Settled ==
  \E l \in Nodes : /\ role[l] = "leader"
                   /\ \A n \in Nodes : hint[n] = l /\ term[n] = term[l]

ClientInit ==
  /\ Init
  /\ cache = None
  /\ call = Idle /\ probe = NoProbe /\ result = Idle /\ calm = FALSE /\ calls = 0

\* A step keeps the calm unless it disturbs the cluster, lets a lease expire that
\* a read has waited for, or gives up on the apply thread.
Calm ==
  /\ calm' = (/\ IF call = Idle THEN Settled ELSE calm
              /\ Settled' /\ faults' = faults
              /\ search.pc = "round" => (IsValid(search.at) => IsValid(search.at)')
              /\ ~(search.pc = "applied" /\ search'.pc = "answered"))

\* Upsert, Delete, Search and GetLeader.  The first call finds in the cache what
\* earlier calls, not looked at here, have left.
Begin(kind, cached) ==
  /\ call = Idle /\ calls < MaxCalls /\ (IF calls = 0 THEN cached \in budget.caches ELSE cached = cache)
  /\ calls' = calls + 1 /\ cache' = cached
  /\ call' = [pc |-> IF cached = None THEN "probe" ELSE IF kind = "get" THEN "query" ELSE "send",
              kind |-> kind, target |-> cached, attempt |-> 0, acked |-> acked]
  /\ probe' = IF cached = None THEN [pending |-> Nodes, selected |-> None] ELSE NoProbe
  /\ UNCHANGED <<serverVars, result>>

End(outcome, value, backed) ==
  /\ call' = Idle
  /\ result' = [pc |-> "ended", kind |-> call.kind, outcome |-> outcome, value |-> value,
                backed |-> backed, acked |-> call.acked, calm |-> calm]

StartProbe ==
  /\ call' = [call EXCEPT !.pc = "probe"]
  /\ probe' = [pending |-> Nodes, selected |-> None]

\* QueryLeaderOn the cached leader; whatever goes wrong leads to a probe.
QueryCached ==
  /\ call.pc = "query"
  /\ \/ /\ hint[call.target] # None
        /\ cache' = hint[call.target] /\ End("ok", hint[call.target], FALSE)
        /\ UNCHANGED <<probe, faults>>
     \/ /\ hint[call.target] = None
        /\ StartProbe /\ UNCHANGED <<cache, result, faults>>
     \/ /\ faults < budget.faults /\ faults' = faults + 1
        /\ StartProbe /\ UNCHANGED <<cache, result>>
  /\ UNCHANGED <<budget, config, nodeVars, round, dataVars, search, calls>>

\* The first thread that hears of a leader decides.
Select(selected, answer) == IF selected = None THEN answer ELSE selected

ProbeAnswer(p) ==
  /\ call.pc = "probe" /\ p \in probe.pending
  /\ probe' = [pending |-> probe.pending \ {p}, selected |-> Select(probe.selected, hint[p])]
  /\ UNCHANGED <<serverVars, cache, call, result, calls>>

ProbeFails(p) ==
  /\ call.pc = "probe" /\ p \in probe.pending /\ faults < budget.faults
  /\ faults' = faults + 1
  /\ probe' = [probe EXCEPT !.pending = @ \ {p}]
  /\ UNCHANGED <<budget, config, nodeVars, round, dataVars, search, cache, call, result, calls>>

\* The threads have been joined.  Only GetLeader keeps what was found.
ProbeEnd ==
  /\ call.pc = "probe" /\ probe.pending = {}
  /\ probe' = NoProbe
  /\ IF probe.selected = None
     THEN End("error", None, FALSE) /\ UNCHANGED cache
     ELSE IF call.kind = "get"
     THEN cache' = probe.selected /\ End("ok", probe.selected, FALSE)
     ELSE /\ call' = [call EXCEPT !.pc = "send", !.target = probe.selected]
          /\ UNCHANGED <<cache, result>>
  /\ UNCHANGED <<serverVars, calls>>
-----------------------------------------------------------------------------
(* WithRetry *)

Send ==
  /\ call.pc = "send" /\ call.kind = "search"
  /\ search' = NewSearch(call.target)
  /\ call' = [call EXCEPT !.pc = "wait"]
  /\ UNCHANGED <<budget, config, nodeVars, round, dataVars, faults, cache, probe, result, calls>>

\* Another attempt at the target, if there is one left.
Retry(target) ==
  IF call.attempt = config.max_retry THEN End("exhausted", None, FALSE)
  ELSE /\ call' = [call EXCEPT !.pc = "send", !.target = target, !.attempt = @ + 1]
       /\ UNCHANGED result

\* ChooseRandomPeer
RetryElsewhere == \E p \in Nodes \ {call.target} : Retry(p)

\* What WithRetry makes of an answer.
Judge(kind, value, backed) ==
  /\ cache' = IF kind = "ok" THEN call.target ELSE cache
  /\ CASE kind = "ok"                            -> End("ok", value, backed)
       [] kind = "redirect" /\ value # None      -> Retry(value)
       [] kind = "error"                         -> End("error", None, FALSE)
       [] OTHER                                  -> RetryElsewhere

Receive ==
  /\ call.pc = "wait" /\ search.pc = "answered"
  /\ Judge(search.kind, search.value, search.backed)
  /\ search' = NoSearch
  /\ UNCHANGED <<budget, config, nodeVars, round, dataVars, faults, probe, calls>>

\* The RPC of Search, Upsert or Delete fails or its deadline passes: WithRetry turns
\* to another peer, and the handler is left to itself.
SendFails ==
  /\ call.pc \in {"wait", "send"} /\ faults < budget.faults
  /\ faults' = faults + 1
  /\ RetryElsewhere
  /\ search' = NoSearch
  /\ UNCHANGED <<budget, config, nodeVars, round, dataVars, cache, probe, calls>>

\* HandleClientWrite, as far as the client tells its outcomes apart.
WriteAnswer ==
  /\ call.pc = "send" /\ call.kind = "write"
  /\ LET n == call.target
     IN  \/ role[n] # "leader" /\ Judge("redirect", hint[n], FALSE)
         \/ role[n] = "leader" /\ \E kind \in {"ok", "error", "undecided"} : Judge(kind, 0, FALSE)
  /\ UNCHANGED <<serverVars, probe, calls>>

ClientStep ==
  \/ QueryCached \/ ProbeEnd \/ Send \/ Receive \/ WriteAnswer
  \/ \E p \in Nodes : ProbeAnswer(p)

Next ==
  /\ call # Idle \/ (calls < MaxCalls /\ faults' = faults)
  /\ \/ ServerStep /\ UNCHANGED clientVars
     \/ \E kind \in budget.kinds, c \in Nodes \union {None} : Begin(kind, c)
     \/ ClientStep \/ SendFails \/ \E p \in Nodes : ProbeFails(p)
  /\ Calm

Spec == ClientInit /\ [][Next]_vars
-----------------------------------------------------------------------------
TypeOK ==
  /\ faults \in 0 .. budget.faults
  /\ term \in [Nodes -> 1 .. MaxTerm]
  /\ role \in [Nodes -> {"follower", "candidate", "leader"}]
  /\ hint \in [Nodes -> Nodes \union {None}] /\ cache \in Nodes \union {None}
  /\ \A n \in Nodes : /\ applied[n] <= commit[n] /\ commit[n] <= log[n]
                      /\ silence[n] <= config.election_min /\ lease[n].left <= config.lease
                      /\ \A t \in Threads : round[n][t].term <= term[n]
  /\ call # Idle => call.attempt \in 0 .. config.max_retry

AcceptedUsable == \A file \in Files : LET c == LoadFromFile(file) IN c # Refused => Usable(c)

(***************************************************************************)
(* Whatever file a node is started with, a configuration that LoadFromFile *)
(* accepts has a lease that is positive and ends a drift bound before the  *)
(* shortest election timeout, although the default is computed by an       *)
(* unsigned subtraction before its operands have been compared; heartbeats *)
(* more frequent than elections; and positive parameters of the index, the *)
(* maintenance, the duplicates and the retries.  It promises nothing of    *)
(* pipeline_window_size and batch_max_entries, which nobody validates.     *)
(***************************************************************************)
ConfigUsable == config.lease > 0 /\ AcceptedUsable

(***************************************************************************)
(* While a leader may serve reads on a lease that rests on a round which   *)
(* every node answered within the drift bound, none of them between its    *)
(* look at its election deadline and its candidacy, no other node has been *)
(* elected in a later term, although a round renews the lease after its    *)
(* last answer and without looking at the role.  (BroadcastHeartbeat,      *)
(* ElectionLoop, the relation of lease_duration_ms and                     *)
(* election_timeout_min_ms.)                                               *)
(***************************************************************************)
LeaseExclusive ==
  \A n \in Nodes : role[n] = "leader" /\ IsValid(n) /\ lease[n].sound =>
    \A p \in Nodes : role[p] = "leader" => term[p] <= term[n]

(***************************************************************************)
(* A search that was answered on such a lease by a leader which had        *)
(* committed an entry of its term returns every write that was             *)
(* acknowledged before the search began, whatever elections happen between *)
(* the look at the lease, the wait for the apply thread and the search.    *)
(* (EnsureLeaseReadable, LeaseRead.)                                       *)
(***************************************************************************)
ReadsFresh ==
  result # Idle /\ result.kind = "search" /\ result.outcome = "ok" /\ result.backed =>
    result.value >= result.acked

(***************************************************************************)
(* When all nodes agree on their leader for as long as a search lasts, and *)
(* no call is lost, it succeeds, whichever node the client has cached or   *)
(* finds by its probe: redirects, forwarding and the renewal of the lease  *)
(* by the read itself get it there.  (WithRetry, ProbeLeaderConcurrently,  *)
(* HandleClientSearch.)                                                    *)
(***************************************************************************)
SettledSucceeds ==
  result # Idle /\ result.kind = "search" /\ result.calm => result.outcome = "ok"

-----------------------------------------------------------------------------
(* Not properties of this code: see the README *)

LeaseAlwaysExclusive ==
  \A n \in Nodes : role[n] = "leader" /\ IsValid(n) =>
    \A p \in Nodes : role[p] = "leader" => term[p] <= term[n]

ReadsAlwaysFresh ==
  result # Idle /\ result.kind = "search" /\ result.outcome = "ok" =>
    result.value >= result.acked

LeaseOnlyWhileLeading == \A n \in Nodes : IsValid(n) => role[n] = "leader"

CacheIsALeader == result # Idle /\ result.outcome = "ok" /\ call = Idle => role[cache] = "leader"

=============================================================================
