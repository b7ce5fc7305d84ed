----------------------------- MODULE ClientWrite -----------------------------
(***************************************************************************)
(* Client writes on one node: the HandleClientWrite handlers, Propose, the *)
(* DedupTable, the commit listeners and the apply thread, while the node   *)
(* wins and loses leadership.                                              *)
(*                                                                         *)
(* A log entry is the request id of its command, or Noop.  Commands are    *)
(* not executed: whether one succeeds is any member of Outcomes, and       *)
(* `applied' records what was executed.  How entries get committed, and    *)
(* what another leader makes of this node's uncommitted entries, is left   *)
(* to the environment (PeerReplication models it).  A client sends its     *)
(* request again until it gets a definite answer (DBClient::WithRetry).    *)
(***************************************************************************)
EXTENDS Naturals, Sequences, FiniteSets

CONSTANTS
    Request,       \* request ids
    Call,          \* ClientWrite calls that may run at the same time
    Workloads,     \* the requests the calls may carry, as functions on Call
    Noop,          \* the entry of a new leader
    WindowSize,    \* window_size_ of the DedupTable
    Outcomes,      \* may a command succeed, may it fail
    MaxLog,        \* bound: length of the log
    MaxStepDowns   \* bound: times leadership is lost

ASSUME ClientWriteAssumption ==
    /\ Workloads \subseteq [Call -> Request] /\ Noop \notin Request
    /\ IsFiniteSet(Request) /\ IsFiniteSet(Call)
    /\ WindowSize \in Nat /\ Outcomes \subseteq BOOLEAN
    /\ MaxLog \in Nat \ {0} /\ MaxStepDowns \in Nat

VARIABLES
    leading,         \* state_ is kLeader
    log,             \* the WAL
    commit_index, applied_index,
    table,           \* DedupTable::table_
    order_queue,     \* DedupTable::order_queue_
    listeners,       \* commit_listeners_: the calls whose promise is registered
    calls,           \* the handlers: request, control point, promise and answer
    notifying,       \* the apply thread is between Record and NotifyCommitListener
    applied,         \* history: the commands executed, with their outcome
    step_downs

nodeVars == <<leading, log, commit_index, step_downs>>
dedupVars == <<table, order_queue>>
applyVars == <<applied_index, notifying, applied>>
vars == <<nodeVars, dedupVars, applyVars, listeners, calls>>

None == [state |-> "none", index |-> 0, success |-> FALSE]

-----------------------------------------------------------------------------
(* DedupTable.                                                             *)

Present(tab) == {r \in Request : tab[r].state # "none"}

\* The queue entry still names the record that is in the table.
Current(tab, q, k) ==
    LET r == q[k].request IN tab[r].state # "none" /\ tab[r].index = q[k].index

\* InsertOrUpdateLocked and EvictIfNeededLocked.  An insertion puts the table at most one
\* record above the window, so the loop pops the queue up to the first current entry.
Insert(r, record) ==
    LET tab == [table EXCEPT ![r] = record]
        q == Append(order_queue, [index |-> record.index, request |-> r])
        hits == {k \in DOMAIN q : Current(tab, q, k)}
        first == CHOOSE k \in hits : \A j \in hits : k <= j
    IN  IF Cardinality(Present(tab)) <= WindowSize
        THEN table' = tab /\ order_queue' = q
        ELSE /\ table' = [tab EXCEPT ![q[first].request] = None]
             /\ order_queue' = SubSeq(q, first + 1, Len(q))

TrackPending(r, index) ==
    IF table[r].state # "none" THEN UNCHANGED dedupVars
    ELSE Insert(r, [state |-> "pending", index |-> index, success |-> FALSE])

Record(r, index, success) ==
    Insert(r, [state |-> "committed", index |-> index, success |-> success])

-----------------------------------------------------------------------------
(* HandleClientWrite.                                                      *)

\* A client's attempt to have r executed, before HandleClientWrite runs for it.
Idle(r) == [request |-> r, pc |-> "idle", promise |-> "none", answer |-> "none"]
RequestOf(c) == calls[c].request

Init ==
    /\ leading = TRUE /\ log = <<Noop>> /\ commit_index = 0 /\ step_downs = 0
    /\ table = [r \in Request |-> None] /\ order_queue = <<>>
    /\ applied_index = 0 /\ notifying = "nothing" /\ applied = <<>>
    /\ listeners = {}
    /\ \E sent \in Workloads : calls = [c \in Call |-> Idle(sent[c])]

At(c, pc) == calls' = [calls EXCEPT ![c].pc = pc]
Definite(success) == IF success THEN "ok" ELSE "failed"

\* A definite answer ends the client's attempts; an indefinite one makes it try again.
Answered(c, answer) ==
    [Idle(RequestOf(c)) EXCEPT !.answer = answer,
                               !.pc = IF answer \in {"ok", "failed"} THEN "done" ELSE "idle"]

Answer(c, answer) == calls' = [calls EXCEPT ![c] = Answered(c, answer)]

\* Mutant: a pending request is proposed again.
ArriveIgnoresPending(c) ==
    LET record == table[RequestOf(c)] IN
    /\ calls[c].pc = "idle"
    /\ leading
    /\ IF record.state = "committed" THEN Answer(c, Definite(record.success))
       ELSE At(c, "propose")
    /\ UNCHANGED <<nodeVars, dedupVars, applyVars, listeners>>

\* IsLeader and the first Check.
Arrive(c) ==
    LET record == table[RequestOf(c)] IN
    /\ calls[c].pc = "idle"
    /\ leading
    /\ IF record.state = "committed" THEN Answer(c, Definite(record.success))
       ELSE At(c, IF record.state = "pending" THEN "register" ELSE "propose")
    /\ UNCHANGED <<nodeVars, dedupVars, applyVars, listeners>>

\* Propose appends and registers the pending request under state_mutex_.
Propose(c) ==
    /\ calls[c].pc = "propose"
    /\ IF leading
       THEN /\ Len(log) < MaxLog
            /\ log' = Append(log, RequestOf(c))
            /\ TrackPending(RequestOf(c), Len(log) + 1)
            /\ At(c, "register")
       ELSE Answer(c, "retry") /\ UNCHANGED <<log, dedupVars>>
    /\ UNCHANGED <<leading, commit_index, step_downs, applyVars, listeners>>

Listening(r) == {d \in listeners : RequestOf(d) = r}

\* emplace does nothing when the request has a listener: the new promise is destroyed,
\* which makes its future ready with broken_promise.
RegisterCommitListener(c) ==
    /\ calls[c].pc = "register"
    /\ IF Listening(RequestOf(c)) = {}
       THEN listeners' = listeners \cup {c} /\ At(c, "recheck")
       ELSE /\ calls' = [calls EXCEPT ![c].pc = "recheck", ![c].promise = "broken"]
            /\ UNCHANGED listeners
    /\ UNCHANGED <<nodeVars, dedupVars, applyVars>>

\* UnregisterCommitListener erases the listener of the request, whoever registered it,
\* while the caller itself goes on as `next'.
Unregister(c, next) ==
    /\ listeners' = listeners \ Listening(RequestOf(c))
    /\ calls' = [d \in Call |->
           IF d = c THEN next
           ELSE IF d \in Listening(RequestOf(c)) THEN [calls[d] EXCEPT !.promise = "broken"]
           ELSE calls[d]]

\* Mutant: no second Check after the registration.
DoubleCheckSkipped(c) ==
    /\ calls[c].pc = "recheck"
    /\ At(c, "wait") /\ UNCHANGED listeners
    /\ UNCHANGED <<nodeVars, dedupVars, applyVars>>

\* The apply thread may have recorded the request before the listener was registered.
DoubleCheck(c) ==
    LET record == table[RequestOf(c)] IN
    /\ calls[c].pc = "recheck"
    /\ IF record.state = "committed"
       THEN Unregister(c, Answered(c, Definite(record.success)))
       ELSE At(c, "wait") /\ UNCHANGED listeners
    /\ UNCHANGED <<nodeVars, dedupVars, applyVars>>

\* The future is ready: a value, or the exception of a broken promise that ends the RPC.
Wake(c) ==
    /\ calls[c].pc = "wait" /\ calls[c].promise # "none"
    /\ Answer(c, IF calls[c].promise = "broken" THEN "retry" ELSE calls[c].promise)
    /\ UNCHANGED <<nodeVars, dedupVars, applyVars, listeners>>

Expire(c) ==
    /\ calls[c].pc = "wait" /\ calls[c].promise = "none"
    /\ Unregister(c, [calls[c] EXCEPT !.pc = "last"])
    /\ UNCHANGED <<nodeVars, dedupVars, applyVars>>

\* Mutant: whatever record there is counts as the result.
LastCheckAnyRecord(c) ==
    LET record == table[RequestOf(c)] IN
    /\ calls[c].pc = "last"
    /\ Answer(c, IF record.state # "none" THEN Definite(record.success) ELSE "retry")
    /\ UNCHANGED <<nodeVars, dedupVars, applyVars, listeners>>

LastCheck(c) ==
    LET record == table[RequestOf(c)] IN
    /\ calls[c].pc = "last"
    /\ Answer(c, IF record.state = "committed" THEN Definite(record.success) ELSE "retry")
    /\ UNCHANGED <<nodeVars, dedupVars, applyVars, listeners>>

-----------------------------------------------------------------------------
(* The apply thread: execute, Record, NotifyCommitListener, applied_index_. *)

ApplyEntry ==
    LET index == applied_index + 1
        r == log[index]
    IN
    /\ notifying = "nothing"
    /\ applied_index < commit_index
    /\ IF r = Noop
       THEN applied_index' = index /\ UNCHANGED <<dedupVars, notifying, applied>>
       ELSE /\ \E success \in Outcomes :
                   /\ Record(r, index, success)
                   /\ notifying' = Definite(success)
                   /\ applied' = Append(applied, [request |-> r, success |-> success])
            /\ UNCHANGED applied_index
    /\ UNCHANGED <<nodeVars, listeners, calls>>

NotifyCommitListener ==
    LET woken == Listening(log[applied_index + 1]) IN
    /\ notifying # "nothing"
    /\ calls' = [d \in Call |->
           IF d \in woken THEN [calls[d] EXCEPT !.promise = notifying] ELSE calls[d]]
    /\ listeners' = listeners \ woken
    /\ notifying' = "nothing"
    /\ applied_index' = applied_index + 1
    /\ UNCHANGED <<nodeVars, dedupVars, applied>>

-----------------------------------------------------------------------------
(* The cluster around the node.                                            *)

Commit ==
    /\ commit_index < Len(log)
    /\ commit_index' = commit_index + 1
    /\ UNCHANGED <<leading, log, step_downs, dedupVars, applyVars, listeners, calls>>

StepDown ==
    /\ leading /\ step_downs < MaxStepDowns
    /\ leading' = FALSE
    /\ step_downs' = step_downs + 1
    /\ UNCHANGED <<log, commit_index, dedupVars, applyVars, listeners, calls>>

\* Another leader replaces uncommitted entries by its no-op, or by a request that a client
\* has sent to it and that its own log does not hold yet.
ForeignAppend ==
    /\ ~leading
    /\ \E i \in (commit_index + 1)..(Len(log) + 1), e \in Request \cup {Noop} :
           /\ i <= MaxLog
           /\ e = Noop \/ \A k \in 1..(i - 1) : log[k] # e
           /\ log' = Append(SubSeq(log, 1, i - 1), e)
    /\ UNCHANGED <<leading, commit_index, step_downs, dedupVars, applyVars, listeners, calls>>

BecomeLeader ==
    /\ ~leading /\ Len(log) < MaxLog
    /\ leading' = TRUE
    /\ log' = Append(log, Noop)
    /\ UNCHANGED <<commit_index, step_downs, dedupVars, applyVars, listeners, calls>>

Handler(c) ==
    Propose(c) \/ RegisterCommitListener(c) \/ DoubleCheck(c) \/ Wake(c) \/ LastCheck(c)

Next ==
    \/ \E c \in Call : Arrive(c) \/ Handler(c) \/ Expire(c)
    \/ ApplyEntry \/ NotifyCommitListener
    \/ Commit \/ StepDown \/ ForeignAppend \/ BecomeLeader

Spec == Init /\ [][Next]_vars

\* Handlers and the apply thread run, a client that has no answer sends its request again,
\* the node is leader in the end, and what is in the log of a leader gets committed.
\* Nothing makes a waiting handler time out.
FairSpec ==
    /\ Spec
    /\ \A c \in Call : WF_vars(Arrive(c)) /\ WF_vars(Handler(c))
    /\ WF_vars(ApplyEntry) /\ WF_vars(NotifyCommitListener)
    /\ WF_vars(leading /\ Commit) /\ WF_vars(BecomeLeader)

-----------------------------------------------------------------------------
(* Properties.                                                             *)

DedupRecord == [state: {"none", "pending", "committed"}, index: 0..MaxLog, success: BOOLEAN]

CallState == [request: Request,
              pc: {"idle", "propose", "register", "recheck", "wait", "last", "done"},
              promise: {"none", "broken", "ok", "failed"},
              answer: {"none", "ok", "failed", "retry"}]

TypeOK ==
    /\ leading \in BOOLEAN
    /\ log \in Seq(Request \cup {Noop}) /\ Len(log) <= MaxLog
    /\ commit_index \in 0..Len(log) /\ applied_index \in 0..commit_index
    /\ table \in [Request -> DedupRecord]
    /\ order_queue \in Seq([index: 0..MaxLog, request: Request])
    /\ listeners \subseteq Call
    /\ calls \in [Call -> CallState]
    /\ notifying \in {"nothing", "ok", "failed"}
    /\ applied \in Seq([request: Request, success: BOOLEAN])
    /\ step_downs \in 0..MaxStepDowns

\* A client is only told what really happened: a definite answer is the outcome of an
\* execution of its request, whatever was evicted, overwritten, retried or unregistered
\* in between.
AnswersAreReal ==
    \A c \in Call : calls[c].answer \in {"ok", "failed"} =>
        \E i \in DOMAIN applied :
            applied[i].request = RequestOf(c) /\ Definite(applied[i].success) = calls[c].answer

\* No lost wake-up: a handler whose promise is not ready waits with the promise registered,
\* and not for a commit that was already announced - if the request is recorded as
\* committed, the apply thread has still to notify (the registration, the second Check and
\* Record/NotifyCommitListener run unsynchronised).
NoLostWakeup ==
    \A c \in Call :
        calls[c].pc = "wait" /\ calls[c].promise = "none" =>
            /\ c \in listeners
            /\ table[RequestOf(c)].state = "committed" =>
                   notifying # "nothing" /\ log[applied_index + 1] = RequestOf(c)

\* Under a leader that stays, a pending record stands for a request that is in the log and
\* has still to be applied, so that a call which finds it waits for something (a new leader
\* may truncate the entry and leaves the record).
PendingIsInLog ==
    step_downs = 0 =>
        \A r \in Request : table[r].state = "pending" =>
            \E i \in (applied_index + 1)..Len(log) : log[i] = r

\* Under a leader that stays, a request is executed at most once, however often the client
\* sends it after an answer to try again: the pending record turns every later call into
\* a waiting one until the apply thread records the outcome.  A client that does not wait
\* for that answer has two calls of the request, which may both pass the first Check.
AtMostOnce ==
    step_downs = 0 =>
        \A i, j \in DOMAIN applied :
            applied[i].request = applied[j].request =>
                i = j \/ \E c, d \in Call : c # d /\ RequestOf(c) = RequestOf(d)
                                                  /\ RequestOf(c) = applied[i].request

\* Under a leader that stays, a client that keeps sending its request gets a definite
\* answer: evictions and timeouts in HandleClientWrite send it round again, never for ever.
WritesComplete == [](step_downs = 0) => \A c \in Call : <>(calls[c].pc = "done")
=============================================================================
