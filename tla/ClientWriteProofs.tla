------------------------- MODULE ClientWriteProofs -------------------------
(***************************************************************************)
(* Client writes: no lost wake-up, truthful answers and, with no more      *)
(* calls than the dedup window has places, at most one execution; for any  *)
(* number of requests, calls and changes of leadership.                    *)
(***************************************************************************)
EXTENDS ClientWrite, SequenceTheorems, FiniteSetTheorems, WellFoundedInduction, TLAPS

(***************************************************************************)
(* Type correctness.                                                       *)
(***************************************************************************)

LEMMA MinExists ==
    ASSUME NEW T, T \subseteq Nat, T # {}
    PROVE  \E x \in T : \A y \in T : x <= y
  <1>1. IsWellFoundedOn(OpToRel(<, Nat), Nat)
    BY NatLessThanWellFounded
  <1>2. PICK x \in T : \A y \in T : ~(<<y, x>> \in OpToRel(<, Nat))
    <2> HIDE DEF OpToRel
    <2> QED
      BY <1>1, WFMin
  <1>3. \A y \in T : ~(y < x)
    BY <1>2 DEF OpToRel
  <1> QED
    BY <1>3, SMT

\* What is in the log, and what a handler may look up.
LEMMA LogFacts ==
    ASSUME TypeOK
    PROVE  /\ Len(log) \in Nat /\ DOMAIN log = 1..Len(log)
           /\ \A i \in 1..Len(log) : log[i] \in Request \cup {Noop}
           /\ commit_index \in Nat /\ applied_index \in Nat
           /\ applied_index <= commit_index /\ commit_index <= Len(log) /\ Len(log) <= MaxLog
  <1>1. log \in Seq(Request \cup {Noop})
    BY DEF TypeOK
  <1>2. Len(log) \in Nat /\ DOMAIN log = 1..Len(log)
    BY <1>1, LenProperties
  <1>3. \A i \in 1..Len(log) : log[i] \in Request \cup {Noop}
    BY <1>1, ElementOfSeq
  <1> QED
    BY <1>2, <1>3, ClientWriteAssumption DEF TypeOK

LEMMA CallFacts ==
    ASSUME TypeOK, NEW c \in Call
    PROVE  /\ calls[c] \in CallState /\ RequestOf(c) \in Request
           /\ table[RequestOf(c)] \in DedupRecord
  BY DEF TypeOK, CallState, RequestOf

\* An insertion changes the record of its request and evicts at most one other; the window
\* counts the records that are present.
LEMMA InsertFacts ==
    ASSUME TypeOK, NEW r \in Request, NEW record \in DedupRecord, record.state # "none",
           Insert(r, record)
    PROVE  /\ table' \in [Request -> DedupRecord]
           /\ order_queue' \in Seq([index: 0..MaxLog, request: Request])
           /\ \A s \in Request : table'[s] \in {table[s], None} \/ (s = r /\ table'[s] = record)
           /\ table'[r] \in {record, None}
           /\ Cardinality(Present([table EXCEPT ![r] = record])) <= WindowSize
                  => table' = [table EXCEPT ![r] = record]
  <1> DEFINE tab == [table EXCEPT ![r] = record]
             item == [index |-> record.index, request |-> r]
             Q == [index: 0..MaxLog, request: Request]
             q == Append(order_queue, item)
             hits == {k \in DOMAIN q : Current(tab, q, k)}
             first == CHOOSE k \in hits : \A j \in hits : k <= j
  <1>1. tab \in [Request -> DedupRecord] /\ tab[r] = record /\ None \in DedupRecord
    BY ClientWriteAssumption DEF TypeOK, DedupRecord, None
  <1>2. item \in Q
    BY DEF DedupRecord
  <1>3. order_queue \in Seq(Q)
    BY DEF TypeOK
  <1>4. /\ q \in Seq(Q) /\ Len(q) = Len(order_queue) + 1 /\ q[Len(q)] = item
        /\ Len(q) \in Nat /\ DOMAIN q = 1..Len(q) /\ Len(order_queue) \in Nat
    <2> HIDE DEF Q, item
    <2>1. q \in Seq(Q) /\ Len(q) = Len(order_queue) + 1 /\ q[Len(q)] = item
      BY <1>2, <1>3, AppendProperties
    <2> QED
      BY <2>1, <1>3, LenProperties
  <1>5. CASE Cardinality(Present(tab)) <= WindowSize
    <2>1. table' = tab /\ order_queue' = q
      BY <1>5 DEF Insert
    <2> QED
      BY <2>1, <1>1, <1>4, <1>5 DEF TypeOK
  <1>6. CASE ~(Cardinality(Present(tab)) <= WindowSize)
    <2>1. /\ table' = [tab EXCEPT ![q[first].request] = None]
          /\ order_queue' = SubSeq(q, first + 1, Len(q))
      BY <1>6 DEF Insert
    <2>2. Len(q) \in hits
      <3>1. q[Len(q)].request = r /\ q[Len(q)].index = record.index
        BY <1>4
      <3> QED
        BY <3>1, <1>1, <1>4 DEF Current
    <2>3. first \in hits /\ \A j \in hits : first <= j
      <3>1. hits \subseteq Nat /\ hits # {}
        <4>1. hits \subseteq DOMAIN q
          OBVIOUS
        <4> HIDE DEF hits, q
        <4> QED
          BY <4>1, <2>2, <1>4
      <3>2. \E k \in hits : \A j \in hits : k <= j
        <4> HIDE DEF hits
        <4> QED
          BY <3>1, MinExists
      <3> QED
        BY <3>2
    <2>4. first \in 1..Len(q) /\ q[first] \in Q
      <3>1. first \in DOMAIN q
        BY <2>3
      <3> HIDE DEF q, first, Q
      <3> QED
        BY <3>1, <1>4, ElementOfSeq
    <2>5. SubSeq(q, first + 1, Len(q)) \in Seq(Q)
      <3>1. \A k \in (first + 1)..Len(q) : q[k] \in Q
        <4> HIDE DEF q, first, Q
        <4> QED
          BY <2>4, <1>4, ElementOfSeq
      <3> HIDE DEF q, first, Q
      <3> QED
        BY <3>1, <2>4, <1>4, SubSeqProperties
    <2>6. q[first].request \in Request
      BY <2>4
    <2> HIDE DEF q, first
    <2>7. table' \in [Request -> DedupRecord]
      BY <2>1, <2>6, <1>1
    <2>8. \A s \in Request : table'[s] = IF s = q[first].request THEN None ELSE tab[s]
      BY <2>1, <2>6, <1>1
    <2> QED
      BY <2>1, <2>5, <2>7, <2>8, <1>1, <1>6 DEF TypeOK
  <1> QED
    BY <1>5, <1>6

\* The handler steps of a call change the state of that call, or of the calls that listen
\* for the same request.
LEMMA AnsweredFacts ==
    ASSUME TypeOK, NEW c \in Call, NEW answer \in {"ok", "failed", "retry"}
    PROVE  /\ Answered(c, answer) \in CallState
           /\ Answered(c, answer).request = RequestOf(c)
           /\ Answered(c, answer).answer = answer
           /\ Answered(c, answer).promise = "none"
           /\ Answered(c, answer).pc \in {"idle", "done"}
  BY CallFacts DEF Answered, Idle, CallState

LEMMA DefiniteFacts ==
    ASSUME NEW success
    PROVE  Definite(success) \in {"ok", "failed"}
  BY DEF Definite

\* A handler that moves to another control point.
LEMMA AtFacts ==
    ASSUME TypeOK, NEW c \in Call, NEW pc \in {"propose", "register", "recheck", "wait"}, At(c, pc)
    PROVE  /\ calls' \in [Call -> CallState]
           /\ calls'[c] = [calls[c] EXCEPT !.pc = pc]
           /\ \A d \in Call \ {c} : calls'[d] = calls[d]
  <1>1. calls \in [Call -> CallState]
    BY DEF TypeOK
  <1>2. [calls[c] EXCEPT !.pc = pc] \in CallState
    BY <1>1 DEF CallState
  <1>3. calls' = [calls EXCEPT ![c] = [calls[c] EXCEPT !.pc = pc]]
    BY DEF At
  <1> QED
    BY <1>1, <1>2, <1>3

\* A handler that answers.
LEMMA AnswerFacts ==
    ASSUME TypeOK, NEW c \in Call, NEW answer \in {"ok", "failed", "retry"}, Answer(c, answer)
    PROVE  /\ calls' \in [Call -> CallState]
           /\ calls'[c] = Answered(c, answer)
           /\ \A d \in Call \ {c} : calls'[d] = calls[d]
  BY AnsweredFacts DEF Answer, TypeOK

LEMMA InitTypes == Init => TypeOK
  <1> SUFFICES ASSUME Init PROVE TypeOK
    OBVIOUS
  <1> USE ClientWriteAssumption
  <1>1. log \in Seq(Request \cup {Noop}) /\ Len(log) = 1
    BY DEF Init
  <1>2. calls \in [Call -> CallState]
    BY DEF Init, Idle, CallState
  <1>3. table \in [Request -> DedupRecord]
    BY DEF Init, None, DedupRecord
  <1> QED
    BY <1>1, <1>2, <1>3 DEF Init, TypeOK

LEMMA TypeArrive == ASSUME NEW c \in Call PROVE TypeOK /\ Arrive(c) => TypeOK'
  <1> SUFFICES ASSUME TypeOK, Arrive(c) PROVE TypeOK'
    OBVIOUS
  <1>1. calls' \in [Call -> CallState]
    BY AtFacts, AnswerFacts, DefiniteFacts DEF Arrive
  <1> QED
    BY <1>1 DEF TypeOK, Arrive, nodeVars, dedupVars, applyVars

LEMMA TypePropose == ASSUME NEW c \in Call PROVE TypeOK /\ Propose(c) => TypeOK'
  <1> SUFFICES ASSUME TypeOK, Propose(c) PROVE TypeOK'
    OBVIOUS
  <1>1. calls' \in [Call -> CallState]
    BY AtFacts, AnswerFacts DEF Propose
  <1>2. CASE leading
    <2>1. /\ log' \in Seq(Request \cup {Noop}) /\ Len(log') = Len(log) + 1 /\ Len(log) < MaxLog
      <3>1. log \in Seq(Request \cup {Noop}) /\ RequestOf(c) \in Request \cup {Noop}
        BY CallFacts DEF TypeOK
      <3>2. log' = Append(log, RequestOf(c)) /\ Len(log) < MaxLog
        BY <1>2 DEF Propose
      <3> QED
        BY <3>1, <3>2, AppendProperties
    <2>2. /\ table' \in [Request -> DedupRecord]
          /\ order_queue' \in Seq([index: 0..MaxLog, request: Request])
      <3> DEFINE record == [state |-> "pending", index |-> Len(log) + 1, success |-> FALSE]
      <3>1. record \in DedupRecord /\ record.state # "none"
        BY <2>1, LogFacts, ClientWriteAssumption DEF DedupRecord
      <3>2. CASE UNCHANGED dedupVars
        BY <3>2 DEF TypeOK, dedupVars
      <3>3. CASE Insert(RequestOf(c), record)
        BY <3>1, <3>3, CallFacts, InsertFacts
      <3> QED
        BY <1>2, <3>2, <3>3 DEF Propose, TrackPending
    <2> QED
      BY <1>1, <2>1, <2>2, LogFacts, ClientWriteAssumption DEF TypeOK, Propose, applyVars
  <1>3. CASE ~leading
    BY <1>1, <1>3 DEF TypeOK, Propose, dedupVars, applyVars
  <1> QED
    BY <1>2, <1>3

\* A second listener of a request gets a broken promise.
LEMMA BrokenFacts ==
    ASSUME TypeOK, NEW c \in Call,
           calls' = [calls EXCEPT ![c].pc = "recheck", ![c].promise = "broken"]
    PROVE  /\ calls' \in [Call -> CallState]
           /\ calls'[c] = [calls[c] EXCEPT !.pc = "recheck", !.promise = "broken"]
           /\ \A d \in Call \ {c} : calls'[d] = calls[d]
  <1>1. calls \in [Call -> CallState]
    BY DEF TypeOK
  <1>2. [calls[c] EXCEPT !.pc = "recheck", !.promise = "broken"] \in CallState
    BY <1>1 DEF CallState
  <1>3. calls' = [calls EXCEPT ![c] = [calls[c] EXCEPT !.pc = "recheck", !.promise = "broken"]]
    BY <1>1
  <1> QED
    BY <1>1, <1>2, <1>3

LEMMA TypeRegister ==
    ASSUME NEW c \in Call PROVE TypeOK /\ RegisterCommitListener(c) => TypeOK'
  <1> SUFFICES ASSUME TypeOK, RegisterCommitListener(c) PROVE TypeOK'
    OBVIOUS
  <1>1. calls' \in [Call -> CallState] /\ listeners' \subseteq Call
    <2>1. CASE Listening(RequestOf(c)) = {}
      BY <2>1, AtFacts DEF RegisterCommitListener, TypeOK
    <2>2. CASE Listening(RequestOf(c)) # {}
      BY <2>2, BrokenFacts DEF RegisterCommitListener, TypeOK
    <2> QED
      BY <2>1, <2>2
  <1> QED
    BY <1>1 DEF TypeOK, RegisterCommitListener, nodeVars, dedupVars, applyVars

\* UnregisterCommitListener breaks the promises of the other calls of the request.
LEMMA UnregisterFacts ==
    ASSUME TypeOK, NEW c \in Call, NEW next \in CallState, Unregister(c, next)
    PROVE  /\ calls' \in [Call -> CallState] /\ listeners' \subseteq Call
           /\ calls'[c] = next
           /\ \A d \in Call \ {c} :
                 \/ calls'[d] = calls[d] /\ (d \in listeners' <=> d \in listeners)
                 \/ calls'[d] = [calls[d] EXCEPT !.promise = "broken"]
  <1>1. \A d \in Call : calls[d] \in CallState /\ [calls[d] EXCEPT !.promise = "broken"] \in CallState
    BY CallFacts DEF CallState
  <1>2. \A d \in Call : calls'[d] = IF d = c THEN next
                                    ELSE IF d \in Listening(RequestOf(c)) THEN [calls[d] EXCEPT !.promise = "broken"]
                                    ELSE calls[d]
    BY DEF Unregister
  <1>3. \A d \in Call : calls'[d] \in CallState
    BY <1>1, <1>2
  <1>4. calls' \in [Call -> CallState]
    <2>1. calls' = [d \in Call |-> calls'[d]]
      BY DEF Unregister
    <2> QED
      BY <1>3, <2>1
  <1>5. listeners' = listeners \ Listening(RequestOf(c)) /\ listeners \subseteq Call
    BY DEF Unregister, TypeOK
  <1> QED
    BY <1>2, <1>4, <1>5

LEMMA TypeDoubleCheck == ASSUME NEW c \in Call PROVE TypeOK /\ DoubleCheck(c) => TypeOK'
  <1> SUFFICES ASSUME TypeOK, DoubleCheck(c) PROVE TypeOK'
    OBVIOUS
  <1>1. calls' \in [Call -> CallState] /\ listeners' \subseteq Call
    <2>1. CASE table[RequestOf(c)].state = "committed"
      BY <2>1, AnsweredFacts, DefiniteFacts, UnregisterFacts DEF DoubleCheck
    <2>2. CASE table[RequestOf(c)].state # "committed"
      BY <2>2, AtFacts DEF DoubleCheck, TypeOK
    <2> QED
      BY <2>1, <2>2
  <1> QED
    BY <1>1 DEF TypeOK, DoubleCheck, nodeVars, dedupVars, applyVars

LEMMA TypeWake == ASSUME NEW c \in Call PROVE TypeOK /\ Wake(c) => TypeOK'
  <1> SUFFICES ASSUME TypeOK, Wake(c) PROVE TypeOK'
    OBVIOUS
  <1>1. calls' \in [Call -> CallState]
    <2>1. (IF calls[c].promise = "broken" THEN "retry" ELSE calls[c].promise)
              \in {"ok", "failed", "retry"}
      BY CallFacts DEF Wake, CallState
    <2> QED
      BY <2>1, AnsweredFacts DEF Wake, Answer, TypeOK
  <1> QED
    BY <1>1 DEF TypeOK, Wake, nodeVars, dedupVars, applyVars

LEMMA TypeExpire == ASSUME NEW c \in Call PROVE TypeOK /\ Expire(c) => TypeOK'
  <1> SUFFICES ASSUME TypeOK, Expire(c) PROVE TypeOK'
    OBVIOUS
  <1>1. [calls[c] EXCEPT !.pc = "last"] \in CallState
    BY CallFacts DEF CallState
  <1>2. calls' \in [Call -> CallState] /\ listeners' \subseteq Call
    BY <1>1, UnregisterFacts DEF Expire
  <1> QED
    BY <1>2 DEF TypeOK, Expire, nodeVars, dedupVars, applyVars

LEMMA TypeLastCheck == ASSUME NEW c \in Call PROVE TypeOK /\ LastCheck(c) => TypeOK'
  <1> SUFFICES ASSUME TypeOK, LastCheck(c) PROVE TypeOK'
    OBVIOUS
  <1>1. calls' \in [Call -> CallState]
    BY AnsweredFacts, DefiniteFacts DEF LastCheck, Answer, TypeOK
  <1> QED
    BY <1>1 DEF TypeOK, LastCheck, nodeVars, dedupVars, applyVars

\* The entry the apply thread is about to execute.
LEMMA ApplyFacts ==
    ASSUME TypeOK, ApplyEntry, log[applied_index + 1] # Noop
    PROVE  /\ log[applied_index + 1] \in Request
           /\ \E success \in BOOLEAN :
                 LET record == [state |-> "committed", index |-> applied_index + 1,
                                success |-> success]
                 IN  /\ record \in DedupRecord
                     /\ Insert(log[applied_index + 1], record)
                     /\ notifying' = Definite(success)
                     /\ applied' = Append(applied, [request |-> log[applied_index + 1],
                                                   success |-> success])
  <1>1. applied_index + 1 \in 1..Len(log) /\ applied_index + 1 \in 0..MaxLog
    BY LogFacts, ClientWriteAssumption DEF ApplyEntry
  <1>2. log[applied_index + 1] \in Request
    BY <1>1, LogFacts
  <1>3. PICK success \in Outcomes :
            /\ Record(log[applied_index + 1], applied_index + 1, success)
            /\ notifying' = Definite(success)
            /\ applied' = Append(applied, [request |-> log[applied_index + 1],
                                          success |-> success])
    BY DEF ApplyEntry
  <1>4. success \in BOOLEAN
    BY ClientWriteAssumption
  <1> QED
    BY <1>1, <1>2, <1>3, <1>4 DEF Record, DedupRecord

LEMMA TypeApplyEntry == TypeOK /\ ApplyEntry => TypeOK'
  <1> SUFFICES ASSUME TypeOK, ApplyEntry PROVE TypeOK'
    OBVIOUS
  <1> DEFINE r == log[applied_index + 1]
  <1>1. CASE r = Noop
    <2>1. applied_index' = applied_index + 1 /\ UNCHANGED <<dedupVars, notifying, applied>>
      BY <1>1 DEF ApplyEntry
    <2>2. applied_index + 1 \in 0..commit_index
      BY LogFacts DEF ApplyEntry
    <2> QED
      BY <2>1, <2>2 DEF TypeOK, ApplyEntry, nodeVars, dedupVars
  <1>2. CASE r # Noop
    <2>1. PICK success \in BOOLEAN :
              LET record == [state |-> "committed", index |-> applied_index + 1,
                             success |-> success]
              IN  /\ r \in Request /\ record \in DedupRecord
                  /\ Insert(r, record)
                  /\ notifying' = Definite(success)
                  /\ applied' = Append(applied, [request |-> r, success |-> success])
      BY <1>2, ApplyFacts
    <2>2. applied' \in Seq([request: Request, success: BOOLEAN])
      BY <2>1, AppendProperties DEF TypeOK
    <2>3. /\ table' \in [Request -> DedupRecord]
          /\ order_queue' \in Seq([index: 0..MaxLog, request: Request])
      <3> DEFINE record == [state |-> "committed", index |-> applied_index + 1,
                            success |-> success]
      <3>1. record \in DedupRecord /\ Insert(r, record) /\ r \in Request
        BY <2>1
      <3>2. record.state # "none"
        OBVIOUS
      <3> HIDE DEF record, r
      <3> QED
        BY <3>1, <3>2, InsertFacts
    <2>4. notifying' \in {"nothing", "ok", "failed"} /\ UNCHANGED applied_index
      BY <1>2, <2>1, DefiniteFacts DEF ApplyEntry
    <2> QED
      BY <2>2, <2>3, <2>4 DEF TypeOK, ApplyEntry, nodeVars
  <1> QED
    BY <1>1, <1>2

LEMMA TypeForeignAppend == TypeOK /\ ForeignAppend => TypeOK'
  <1> SUFFICES ASSUME TypeOK, ForeignAppend PROVE TypeOK'
    OBVIOUS
  <1>1. PICK i \in (commit_index + 1)..(Len(log) + 1), e \in Request \cup {Noop} :
            i <= MaxLog /\ log' = Append(SubSeq(log, 1, i - 1), e)
    BY DEF ForeignAppend
  <1> DEFINE l == SubSeq(log, 1, i - 1)
  <1>2. i \in Nat \ {0} /\ i - 1 <= Len(log) /\ commit_index <= i - 1 /\ i - 1 \in Nat
    BY LogFacts
  <1>3. l \in Seq(Request \cup {Noop}) /\ Len(l) = i - 1
    BY <1>2, LogFacts, SubSeqProperties DEF TypeOK
  <1>4. log' \in Seq(Request \cup {Noop}) /\ Len(log') = i
    <2> HIDE DEF l
    <2>1. log' = Append(l, e)
      BY <1>1 DEF l
    <2> QED
      BY <2>1, <1>2, <1>3, AppendProperties
  <1> QED
    <2>1. Len(log') <= MaxLog /\ commit_index \in 0..Len(log')
      BY <1>1, <1>2, <1>4, LogFacts
    <2> QED
      BY <1>4, <2>1 DEF TypeOK, ForeignAppend, dedupVars, applyVars

\* Between Record and NotifyCommitListener the apply thread stands at a committed command.
Applying ==
    notifying # "nothing" => applied_index < commit_index /\ log[applied_index + 1] # Noop

\* Whatever an action does, the state keeps its type.
LEMMA TypeStep == TypeOK /\ Applying /\ [Next]_vars => TypeOK'
  <1> SUFFICES ASSUME TypeOK, Applying, [Next]_vars PROVE TypeOK'
    OBVIOUS
  <1>1. ASSUME NEW c \in Call, Arrive(c) \/ Handler(c) \/ Expire(c) PROVE TypeOK'
    BY <1>1, TypeArrive, TypePropose, TypeRegister, TypeDoubleCheck, TypeWake, TypeExpire,
       TypeLastCheck DEF Handler
  <1>2. CASE NotifyCommitListener
    <2>1. notifying \in {"ok", "failed"} /\ applied_index' = applied_index + 1
      BY <1>2 DEF TypeOK, NotifyCommitListener
    <2>2. calls' \in [Call -> CallState] /\ listeners' \subseteq Call
      BY <1>2, <2>1 DEF TypeOK, NotifyCommitListener, CallState
    <2>3. applied_index' \in 0..commit_index
      BY <1>2, <2>1, LogFacts DEF Applying, NotifyCommitListener
    <2> QED
      BY <1>2, <2>2, <2>3 DEF TypeOK, NotifyCommitListener, nodeVars, dedupVars
  <1>3. CASE Commit
    BY <1>3, LogFacts DEF TypeOK, Commit, dedupVars, applyVars
  <1>4. CASE StepDown
    <2>1. step_downs' \in 0..MaxStepDowns /\ leading' = FALSE
      BY <1>4, ClientWriteAssumption DEF TypeOK, StepDown
    <2> QED
      BY <1>4, <2>1 DEF TypeOK, StepDown, dedupVars, applyVars
  <1>5. CASE BecomeLeader
    <2>1. log' \in Seq(Request \cup {Noop}) /\ Len(log') = Len(log) + 1
      BY <1>5, AppendProperties DEF TypeOK, BecomeLeader
    <2> QED
      BY <1>5, <2>1, LogFacts, ClientWriteAssumption DEF TypeOK, BecomeLeader, dedupVars, applyVars
  <1>6. CASE UNCHANGED vars
    BY <1>6 DEF TypeOK, vars, nodeVars, dedupVars, applyVars
  <1> QED
    BY <1>1, <1>2, <1>3, <1>4, <1>5, <1>6, TypeApplyEntry, TypeForeignAppend DEF Next

(***************************************************************************)
(* The inductive invariant.                                                *)
(***************************************************************************)

\* The history says that the request has been executed with this outcome.
Executed(history, r, answer) ==
    \E i \in DOMAIN history :
        history[i].request = r /\ Definite(history[i].success) = answer

\* Whatever a call may be told of its request - by the table, by a promise, by the
\* notification under way - has happened.
NewsIsReal ==
    /\ \A r \in Request :
           table[r].state = "committed" => Executed(applied, r, Definite(table[r].success))
    /\ \A c \in Call :
           calls[c].promise \in {"ok", "failed"} => Executed(applied, RequestOf(c), calls[c].promise)
    /\ notifying # "nothing" => Executed(applied, log[applied_index + 1], notifying)

\* Between the registration and the second Check the promise is registered, or broken.
RecheckIsRegistered ==
    \A c \in Call : calls[c].pc = "recheck" /\ calls[c].promise = "none" => c \in listeners

WriteInv ==
    TypeOK /\ Applying /\ NewsIsReal /\ AnswersAreReal /\ RecheckIsRegistered /\ NoLostWakeup

\* What is committed stays in the log.
LEMMA CommittedStays ==
    ASSUME TypeOK, [Next]_vars
    PROVE  /\ commit_index <= commit_index' /\ commit_index' \in Nat
           /\ \A i \in 1..commit_index : log'[i] = log[i]
  <1> USE LogFacts
  <1>1. CASE UNCHANGED <<log, commit_index>>
    BY <1>1
  <1>2. ASSUME NEW e, log' = Append(log, e), UNCHANGED commit_index
        PROVE  \A i \in 1..commit_index : log'[i] = log[i]
    <2>1. \A i \in 1..Len(log) : log'[i] = log[i]
      <3>1. log \in Seq(Request \cup {Noop, e})
        BY DEF TypeOK
      <3> QED
        BY <1>2, <3>1, AppendProperties
    <2> QED
      BY <2>1
  <1>3. CASE ForeignAppend
    <2>1. PICK i \in (commit_index + 1)..(Len(log) + 1), e \in Request \cup {Noop} :
              log' = Append(SubSeq(log, 1, i - 1), e)
      BY <1>3 DEF ForeignAppend
    <2> DEFINE l == SubSeq(log, 1, i - 1)
    <2>2. i \in Nat \ {0} /\ i - 1 <= Len(log) /\ commit_index <= i - 1 /\ i - 1 \in Nat
      OBVIOUS
    <2>3. /\ l \in Seq(Request \cup {Noop}) /\ Len(l) = i - 1
          /\ \A k \in 1..(i - 1) : l[k] = log[k]
      BY <2>2, SubSeqProperties DEF TypeOK
    <2>4. \A k \in 1..(i - 1) : log'[k] = log[k]
      <3>1. log' = Append(l, e)
        BY <2>1
      <3> HIDE DEF l
      <3> QED
        BY <3>1, <2>3, AppendProperties
    <2> QED
      BY <2>2, <2>4, <1>3 DEF ForeignAppend
  <1>4. CASE Commit
    BY <1>4 DEF Commit
  <1>5. ASSUME NEW c \in Call, Propose(c) PROVE UNCHANGED <<log, commit_index>> \/
            (log' = Append(log, RequestOf(c)) /\ UNCHANGED commit_index)
    BY <1>5 DEF Propose
  <1>6. CASE BecomeLeader
    BY <1>6, <1>2 DEF BecomeLeader
  <1>7. \/ UNCHANGED <<log, commit_index>> \/ ForeignAppend \/ Commit \/ BecomeLeader
        \/ \E c \in Call : Propose(c)
    BY DEF Next, vars, nodeVars, Handler, Arrive, RegisterCommitListener, DoubleCheck, Wake,
           Expire, LastCheck, ApplyEntry, NotifyCommitListener, StepDown
  <1> QED
    BY <1>1, <1>2, <1>3, <1>4, <1>5, <1>6, <1>7

LEMMA ApplyingStep == TypeOK /\ Applying /\ [Next]_vars => Applying'
  <1> SUFFICES ASSUME TypeOK, Applying, [Next]_vars, notifying' # "nothing"
               PROVE  applied_index' < commit_index' /\ log'[applied_index' + 1] # Noop
    BY DEF Applying
  <1> USE LogFacts, CommittedStays
  <1>1. applied_index' = applied_index /\ applied_index < commit_index
        /\ log[applied_index + 1] # Noop
    <2>1. CASE ApplyEntry
      BY <2>1 DEF ApplyEntry
    <2>2. CASE UNCHANGED <<notifying, applied_index>>
      BY <2>2 DEF Applying
    <2> QED
      BY <2>1, <2>2 DEF Next, vars, applyVars, Handler, Arrive, Propose, RegisterCommitListener,
           DoubleCheck, Wake, Expire, LastCheck, NotifyCommitListener, StepDown, Commit,
           ForeignAppend, BecomeLeader
  <1>2. applied_index + 1 \in 1..commit_index
    BY <1>1
  <1>3. log'[applied_index + 1] = log[applied_index + 1]
    BY <1>2
  <1> QED
    BY <1>1, <1>3

\* An execution is never taken back.
LEMMA ExecutedStays ==
    ASSUME TypeOK, [Next]_vars, NEW r, NEW answer, Executed(applied, r, answer)
    PROVE  Executed(applied', r, answer)
  <1>1. CASE UNCHANGED applied
    BY <1>1 DEF Executed
  <1>2. ASSUME NEW e \in [request: Request, success: BOOLEAN], applied' = Append(applied, e)
        PROVE  Executed(applied', r, answer)
    <2>1. applied \in Seq([request: Request, success: BOOLEAN])
      BY DEF TypeOK
    <2>2. /\ DOMAIN applied \subseteq DOMAIN applied'
          /\ \A i \in DOMAIN applied : applied'[i] = applied[i]
      BY <1>2, <2>1
    <2> QED
      BY <2>2 DEF Executed
  <1>3. UNCHANGED applied \/ (ApplyEntry /\ log[applied_index + 1] # Noop)
    BY DEF Next, vars, applyVars, Handler, Arrive, Propose, RegisterCommitListener,
           DoubleCheck, Wake, Expire, LastCheck, NotifyCommitListener, StepDown, Commit,
           ForeignAppend, BecomeLeader, ApplyEntry
  <1> QED
    BY <1>1, <1>2, <1>3, ApplyFacts

\* Propose may add a pending record and may evict one, and commits none.
LEMMA ProposeTable ==
    ASSUME TypeOK, NEW c \in Call, Propose(c), NEW s \in Request, table'[s].state = "committed"
    PROVE  table'[s] \in {table[s], None}
  <1> DEFINE record == [state |-> "pending", index |-> Len(log) + 1, success |-> FALSE]
  <1>1. CASE UNCHANGED table
    BY <1>1
  <1>2. CASE Insert(RequestOf(c), record) /\ Len(log) < MaxLog
    <2>1. record \in DedupRecord /\ record.state # "none"
      BY <1>2, LogFacts, ClientWriteAssumption DEF DedupRecord
    <2>2. table'[s] # record
      OBVIOUS
    <2> HIDE DEF record
    <2> QED
      BY <1>2, <2>1, <2>2, CallFacts, InsertFacts
  <1> QED
    BY <1>1, <1>2 DEF Propose, TrackPending, dedupVars

LEMMA TableNewsStep ==
    ASSUME TypeOK, NewsIsReal, [Next]_vars, NEW s \in Request, table'[s].state = "committed"
    PROVE  Executed(applied', s, Definite(table'[s].success))
  <1>1. CASE table'[s] = table[s]
    BY <1>1, ExecutedStays DEF NewsIsReal
  <1>2. CASE table'[s] = None
    BY <1>2 DEF None
  <1>3. ASSUME NEW c \in Call, Propose(c) PROVE table'[s] \in {table[s], None}
    BY <1>3, ProposeTable
  <1>4. ASSUME ApplyEntry, log[applied_index + 1] # Noop, table'[s] \notin {table[s], None}
        PROVE  Executed(applied', s, Definite(table'[s].success))
    <2> DEFINE r == log[applied_index + 1]
    <2>1. PICK success \in BOOLEAN :
              LET record == [state |-> "committed", index |-> applied_index + 1,
                             success |-> success]
              IN  /\ r \in Request /\ record \in DedupRecord
                  /\ Insert(r, record)
                  /\ notifying' = Definite(success)
                  /\ applied' = Append(applied, [request |-> r, success |-> success])
      BY <1>4, ApplyFacts
    <2> DEFINE record == [state |-> "committed", index |-> applied_index + 1,
                          success |-> success]
    <2>2. s = r /\ table'[s] = record
      <3>1. record.state # "none" /\ r \in Request /\ record \in DedupRecord /\ Insert(r, record)
        BY <2>1
      <3> HIDE DEF record, r
      <3> QED
        BY <3>1, <1>4, InsertFacts
    <2>3. /\ Len(applied) + 1 \in DOMAIN applied'
          /\ applied'[Len(applied) + 1] = [request |-> r, success |-> success]
      BY <2>1, AppendProperties DEF TypeOK
    <2> QED
      BY <2>2, <2>3 DEF Executed
  <1>5. \/ table'[s] = table[s] \/ \E c \in Call : Propose(c)
        \/ ApplyEntry /\ log[applied_index + 1] # Noop
    BY DEF Next, vars, dedupVars, Handler, Arrive, RegisterCommitListener,
           DoubleCheck, Wake, Expire, LastCheck, NotifyCommitListener, StepDown, Commit,
           ForeignAppend, BecomeLeader, ApplyEntry
  <1> QED
    BY <1>1, <1>2, <1>3, <1>4, <1>5

LEMMA NotifyingNewsStep ==
    ASSUME TypeOK, Applying, NewsIsReal, [Next]_vars, notifying' # "nothing"
    PROVE  Executed(applied', log'[applied_index' + 1], notifying')
  <1>1. CASE UNCHANGED <<notifying, applied_index>>
    <2>1. Executed(applied, log[applied_index + 1], notifying) /\ applied_index + 1 \in 1..commit_index
      BY <1>1, LogFacts DEF NewsIsReal, Applying
    <2>2. log'[applied_index' + 1] = log[applied_index + 1] /\ notifying' = notifying
      BY <1>1, <2>1, CommittedStays
    <2> QED
      BY <2>1, <2>2, ExecutedStays
  <1>2. CASE ApplyEntry
    <2> DEFINE r == log[applied_index + 1]
    <2>1. r # Noop
      BY <1>2 DEF ApplyEntry
    <2>2. PICK success \in BOOLEAN :
              /\ notifying' = Definite(success)
              /\ applied' = Append(applied, [request |-> r, success |-> success])
      BY <1>2, <2>1, ApplyFacts
    <2>3. /\ Len(applied) + 1 \in DOMAIN applied'
          /\ applied'[Len(applied) + 1] = [request |-> r, success |-> success]
      <3>1. r \in Request
        BY <1>2, <2>1, ApplyFacts
      <3> QED
        BY <2>2, <3>1, AppendProperties DEF TypeOK
    <2>4. log'[applied_index' + 1] = r
      BY <1>2, <2>1 DEF ApplyEntry, nodeVars
    <2> QED
      BY <2>2, <2>3, <2>4 DEF Executed
  <1> QED
    BY <1>1, <1>2 DEF Next, vars, applyVars, Handler, Arrive, Propose, RegisterCommitListener,
           DoubleCheck, Wake, Expire, LastCheck, NotifyCommitListener, StepDown, Commit,
           ForeignAppend, BecomeLeader

\* How one step may change what a call knows: it keeps it, forgets it, or learns it from
\* the table, its promise or the notification.
CallKeeps(c) == calls'[c].promise = calls[c].promise /\ calls'[c].answer = calls[c].answer
CallForgets(c) == calls'[c].promise \in {"none", "broken"} /\ calls'[c].answer \in {"retry", calls[c].answer}
CallReadsTable(c) ==
    /\ table[RequestOf(c)].state = "committed"
    /\ calls'[c].promise = "none" /\ calls'[c].answer = Definite(table[RequestOf(c)].success)
CallReadsPromise(c) ==
    /\ calls[c].promise \in {"ok", "failed"}
    /\ calls'[c].promise = "none" /\ calls'[c].answer = calls[c].promise
CallIsNotified(c) ==
    /\ notifying # "nothing" /\ log[applied_index + 1] = RequestOf(c)
    /\ calls'[c].promise = notifying /\ calls'[c].answer = calls[c].answer

LEMMA CallChanges ==
    ASSUME TypeOK, [Next]_vars, NEW c \in Call
    PROVE  /\ calls'[c].request = calls[c].request
           /\ \/ CallKeeps(c) \/ CallForgets(c) \/ CallReadsTable(c)
              \/ CallReadsPromise(c) \/ CallIsNotified(c)
  <1> USE DEF CallKeeps, CallForgets, CallReadsTable, CallReadsPromise, CallIsNotified
  <1>0. calls[c] \in CallState
    BY CallFacts
  <1>1. CASE calls'[c] = calls[c]
    BY <1>1
  <1>2. ASSUME NEW d \in Call, NEW pc \in {"propose", "register", "recheck", "wait"}, At(d, pc)
        PROVE  calls'[c].request = calls[c].request /\ CallKeeps(c)
    <2>1. c = d => calls'[c] = [calls[c] EXCEPT !.pc = pc]
      BY <1>2, AtFacts
    <2>2. c # d => calls'[c] = calls[c]
      BY <1>2, AtFacts
    <2>3. c = d => /\ calls'[c].request = calls[c].request /\ calls'[c].promise = calls[c].promise
                   /\ calls'[c].answer = calls[c].answer
      BY <1>0, <2>1 DEF CallState
    <2> QED
      BY <2>2, <2>3
  <1>3. ASSUME NEW d \in Call, NEW answer \in {"ok", "failed", "retry"}, Answer(d, answer)
        PROVE  /\ calls'[c].request = calls[c].request
               /\ c # d => CallKeeps(c)
               /\ c = d => calls'[c].promise = "none" /\ calls'[c].answer = answer
    BY <1>3, AnswerFacts, AnsweredFacts DEF RequestOf
  <1>4. ASSUME NEW d \in Call, Arrive(d)
        PROVE  calls'[c].request = calls[c].request /\ (CallKeeps(c) \/ CallReadsTable(c))
    <2>1. CASE table[RequestOf(d)].state = "committed"
      BY <1>3, <1>4, <2>1, DefiniteFacts DEF Arrive
    <2>2. CASE table[RequestOf(d)].state # "committed"
      BY <1>2, <1>4, <2>2 DEF Arrive
    <2> QED
      BY <2>1, <2>2
  <1>5. ASSUME NEW d \in Call, Propose(d)
        PROVE  calls'[c].request = calls[c].request /\ (CallKeeps(c) \/ CallForgets(c))
    <2>1. CASE leading
      BY <1>2, <1>5, <2>1 DEF Propose
    <2>2. CASE ~leading
      BY <1>3, <1>5, <2>2 DEF Propose
    <2> QED
      BY <2>1, <2>2
  <1>6. ASSUME NEW d \in Call, RegisterCommitListener(d)
        PROVE  calls'[c].request = calls[c].request /\ (CallKeeps(c) \/ CallForgets(c))
    <2>1. CASE Listening(RequestOf(d)) = {}
      BY <1>2, <1>6, <2>1 DEF RegisterCommitListener
    <2>2. CASE Listening(RequestOf(d)) # {}
      <3>1. calls' = [calls EXCEPT ![d].pc = "recheck", ![d].promise = "broken"]
        BY <1>6, <2>2 DEF RegisterCommitListener
      <3>2. CASE c = d
        BY <3>1, <3>2, <1>0, BrokenFacts DEF CallState
      <3>3. CASE c # d
        BY <3>1, <3>3, BrokenFacts
      <3> QED
        BY <3>2, <3>3
    <2> QED
      BY <2>1, <2>2
  <1>7. ASSUME NEW d \in Call, NEW next \in CallState, Unregister(d, next), c # d
        PROVE  calls'[c].request = calls[c].request /\ (CallKeeps(c) \/ CallForgets(c))
    <2>1. calls'[c] = calls[c] \/ calls'[c] = [calls[c] EXCEPT !.promise = "broken"]
      BY <1>7, UnregisterFacts
    <2> QED
      BY <2>1, <1>0 DEF CallState
  <1>8. ASSUME NEW d \in Call, DoubleCheck(d)
        PROVE  /\ calls'[c].request = calls[c].request
               /\ CallKeeps(c) \/ CallForgets(c) \/ CallReadsTable(c)
    <2>1. CASE table[RequestOf(d)].state = "committed"
      <3> DEFINE next == Answered(d, Definite(table[RequestOf(d)].success))
      <3>1. Unregister(d, next) /\ next \in CallState /\ next.request = RequestOf(d)
            /\ next.promise = "none" /\ next.answer = Definite(table[RequestOf(d)].success)
        BY <1>8, <2>1, AnsweredFacts, DefiniteFacts DEF DoubleCheck
      <3> HIDE DEF next
      <3>2. CASE c = d
        BY <2>1, <3>1, <3>2, UnregisterFacts DEF RequestOf
      <3>3. CASE c # d
        BY <3>1, <3>3, <1>7
      <3> QED
        BY <3>2, <3>3
    <2>2. CASE table[RequestOf(d)].state # "committed"
      BY <1>2, <1>8, <2>2 DEF DoubleCheck
    <2> QED
      BY <2>1, <2>2
  <1>9. ASSUME NEW d \in Call, Expire(d)
        PROVE  calls'[c].request = calls[c].request /\ (CallKeeps(c) \/ CallForgets(c))
    <2> DEFINE next == [calls[d] EXCEPT !.pc = "last"]
    <2>1. next \in CallState /\ Unregister(d, next)
      BY <1>9, CallFacts DEF Expire, CallState
    <2>2. CASE c = d
      <3>1. calls'[c] = [calls[c] EXCEPT !.pc = "last"]
        BY <2>1, <2>2, UnregisterFacts
      <3> QED
        BY <3>1, <1>0 DEF CallState
    <2>3. CASE c # d
      <3> HIDE DEF next
      <3> QED
        BY <2>1, <2>3, <1>7
    <2> QED
      BY <2>2, <2>3
  <1>10. ASSUME NEW d \in Call, Wake(d)
         PROVE  /\ calls'[c].request = calls[c].request
                /\ CallKeeps(c) \/ CallForgets(c) \/ CallReadsPromise(c)
    <2> DEFINE answer == IF calls[d].promise = "broken" THEN "retry" ELSE calls[d].promise
    <2>1. answer \in {"ok", "failed", "retry"} /\ Answer(d, answer)
      BY <1>10, CallFacts DEF Wake, CallState
    <2>2. answer \in {"ok", "failed"} => answer = calls[d].promise
      OBVIOUS
    <2> HIDE DEF answer
    <2> QED
      BY <2>1, <2>2, <1>3
  <1>11. ASSUME NEW d \in Call, LastCheck(d)
         PROVE  /\ calls'[c].request = calls[c].request
                /\ CallKeeps(c) \/ CallForgets(c) \/ CallReadsTable(c)
    <2>1. CASE table[RequestOf(d)].state = "committed"
      BY <1>3, <1>11, <2>1, DefiniteFacts DEF LastCheck
    <2>2. CASE table[RequestOf(d)].state # "committed"
      BY <1>3, <1>11, <2>2 DEF LastCheck
    <2> QED
      BY <2>1, <2>2
  <1>12. CASE NotifyCommitListener
    BY <1>0, <1>12 DEF NotifyCommitListener, Listening, RequestOf, CallState
  <1>13. \/ UNCHANGED calls \/ NotifyCommitListener
         \/ \E d \in Call : Arrive(d) \/ Handler(d) \/ Expire(d)
    BY DEF Next, vars, ApplyEntry, StepDown, Commit, ForeignAppend, BecomeLeader
  <1> QED
    BY <1>1, <1>4, <1>5, <1>6, <1>8, <1>9, <1>10, <1>11, <1>12, <1>13 DEF Handler

\* No step makes the table, a promise, the notification or an answer claim what has not
\* happened.
LEMMA NewsStep ==
    TypeOK /\ Applying /\ NewsIsReal /\ AnswersAreReal /\ [Next]_vars
        => NewsIsReal' /\ AnswersAreReal'
  <1> SUFFICES ASSUME TypeOK, Applying, NewsIsReal, AnswersAreReal, [Next]_vars
               PROVE  NewsIsReal' /\ AnswersAreReal'
    OBVIOUS
  <1>1. ASSUME NEW c \in Call
        PROVE  /\ calls'[c].request = calls[c].request
               /\ calls'[c].promise \in {"ok", "failed"}
                      => Executed(applied', calls[c].request, calls'[c].promise)
               /\ calls'[c].answer \in {"ok", "failed"}
                      => Executed(applied', calls[c].request, calls'[c].answer)
    <2>1. /\ calls[c].promise \in {"ok", "failed"}
                 => Executed(applied', calls[c].request, calls[c].promise)
          /\ notifying # "nothing" => Executed(applied', log[applied_index + 1], notifying)
      BY ExecutedStays DEF NewsIsReal, RequestOf
    <2>2. table[RequestOf(c)].state = "committed"
              => Executed(applied', calls[c].request, Definite(table[RequestOf(c)].success))
      BY CallFacts, ExecutedStays DEF NewsIsReal, RequestOf
    <2>3. calls[c].answer \in {"ok", "failed"}
              => Executed(applied', calls[c].request, calls[c].answer)
      <3>1. calls[c].answer \in {"ok", "failed"}
                => Executed(applied, calls[c].request, calls[c].answer)
        BY DEF AnswersAreReal, RequestOf, Executed
      <3> QED
        BY <3>1, ExecutedStays
    <2> QED
      BY <2>1, <2>2, <2>3, CallChanges DEF CallKeeps, CallForgets, CallReadsTable,
         CallReadsPromise, CallIsNotified, RequestOf
  <1>2. NewsIsReal'
    BY <1>1, TableNewsStep, NotifyingNewsStep DEF NewsIsReal, RequestOf
  <1>3. AnswersAreReal'
    BY <1>1 DEF AnswersAreReal, RequestOf, Executed
  <1> QED
    BY <1>2, <1>3

\* A call that waits or is about to check again with its promise pending.
Pending(c) == calls[c].pc \in {"recheck", "wait"} /\ calls[c].promise = "none"

\* A pending call has its promise registered, and was pending before at the same point, has
\* just registered it, or has just found no committed record.
LEMMA PendingStep ==
    ASSUME TypeOK, [Next]_vars, NEW c \in Call, Pending(c)', Pending(c) => c \in listeners
    PROVE  /\ c \in listeners'
           /\ \/ /\ Pending(c) /\ calls'[c].pc = calls[c].pc
                 /\ NotifyCommitListener => log[applied_index + 1] # RequestOf(c)
              \/ calls'[c].pc = "recheck"
              \/ UNCHANGED <<nodeVars, dedupVars, applyVars>> /\ table[RequestOf(c)].state # "committed"
  <1> USE DEF Pending
  <1>0. calls[c] \in CallState
    BY CallFacts
  <1>1. CASE UNCHANGED <<calls, listeners>> /\ ~NotifyCommitListener
    BY <1>1
  <1>2. ASSUME NEW d \in Call, NEW answer \in {"ok", "failed", "retry"}, Answer(d, answer),
               UNCHANGED listeners
        PROVE  c \in listeners' /\ Pending(c) /\ calls'[c].pc = calls[c].pc
    BY <1>2, AnswerFacts, AnsweredFacts
  <1>3. ASSUME NEW d \in Call, NEW pc \in {"propose", "register"}, At(d, pc), UNCHANGED listeners
        PROVE  c \in listeners' /\ Pending(c) /\ calls'[c].pc = calls[c].pc
    <2>1. c # d
      <3>1. c = d => calls'[c] = [calls[c] EXCEPT !.pc = pc]
        BY <1>3, AtFacts
      <3>2. c = d => calls'[c].pc = pc
        BY <3>1, <1>0 DEF CallState
      <3> QED
        BY <3>2
    <2> QED
      BY <2>1, <1>3, AtFacts
  <1>4. ASSUME NEW d \in Call, NEW next \in CallState, Unregister(d, next),
               next.pc \notin {"recheck", "wait"}
        PROVE  c \in listeners' /\ Pending(c) /\ calls'[c].pc = calls[c].pc
    <2>1. c # d
      BY <1>4, UnregisterFacts
    <2>2. calls'[c] # [calls[c] EXCEPT !.promise = "broken"]
      BY <1>0 DEF CallState
    <2> QED
      BY <2>1, <2>2, <1>4, UnregisterFacts
  <1>5. ASSUME NEW d \in Call, Arrive(d)
        PROVE  c \in listeners' /\ Pending(c) /\ calls'[c].pc = calls[c].pc
    BY <1>2, <1>3, <1>5, DefiniteFacts DEF Arrive
  <1>6. ASSUME NEW d \in Call, Propose(d)
        PROVE  c \in listeners' /\ Pending(c) /\ calls'[c].pc = calls[c].pc
    BY <1>2, <1>3, <1>6 DEF Propose
  <1>7. ASSUME NEW d \in Call, RegisterCommitListener(d)
        PROVE  /\ c \in listeners'
               /\ calls'[c].pc = "recheck" \/ (Pending(c) /\ calls'[c].pc = calls[c].pc)
    <2>1. CASE Listening(RequestOf(d)) = {}
      <3>1. listeners' = listeners \cup {d} /\ At(d, "recheck")
        BY <1>7, <2>1 DEF RegisterCommitListener
      <3>2. CASE c = d
        BY <3>1, <3>2, <1>0, AtFacts DEF CallState
      <3>3. CASE c # d
        BY <3>1, <3>3, AtFacts
      <3> QED
        BY <3>2, <3>3
    <2>2. CASE Listening(RequestOf(d)) # {}
      <3>1. /\ calls' = [calls EXCEPT ![d].pc = "recheck", ![d].promise = "broken"]
            /\ UNCHANGED listeners
        BY <1>7, <2>2 DEF RegisterCommitListener
      <3>2. c # d
        <4>1. c = d => calls'[c] = [calls[c] EXCEPT !.pc = "recheck", !.promise = "broken"]
          BY <3>1, BrokenFacts
        <4>2. c = d => calls'[c].promise = "broken"
          BY <4>1, <1>0 DEF CallState
        <4> QED
          BY <4>2
      <3> QED
        BY <3>1, <3>2, BrokenFacts
    <2> QED
      BY <2>1, <2>2
  <1>8. ASSUME NEW d \in Call, DoubleCheck(d)
        PROVE  /\ c \in listeners'
               /\ \/ Pending(c) /\ calls'[c].pc = calls[c].pc
                  \/ UNCHANGED <<nodeVars, dedupVars, applyVars>> /\ table[RequestOf(c)].state # "committed"
    <2>1. CASE table[RequestOf(d)].state = "committed"
      <3> DEFINE next == Answered(d, Definite(table[RequestOf(d)].success))
      <3>1. Unregister(d, next) /\ next \in CallState /\ next.pc \in {"idle", "done"}
        BY <1>8, <2>1, AnsweredFacts, DefiniteFacts DEF DoubleCheck
      <3> HIDE DEF next
      <3> QED
        BY <3>1, <1>4
    <2>2. CASE table[RequestOf(d)].state # "committed"
      <3>1. /\ calls[d].pc = "recheck" /\ At(d, "wait") /\ UNCHANGED listeners
            /\ UNCHANGED <<nodeVars, dedupVars, applyVars>>
        BY <1>8, <2>2 DEF DoubleCheck
      <3>2. CASE c = d
        <4>1. calls'[c].promise = calls[c].promise
          BY <3>1, <3>2, <1>0, AtFacts DEF CallState
        <4> QED
          BY <4>1, <3>1, <3>2, <2>2
      <3>3. CASE c # d
        BY <3>1, <3>3, AtFacts
      <3> QED
        BY <3>2, <3>3
    <2> QED
      BY <2>1, <2>2
  <1>9. ASSUME NEW d \in Call, Expire(d)
        PROVE  c \in listeners' /\ Pending(c) /\ calls'[c].pc = calls[c].pc
    <2> DEFINE next == [calls[d] EXCEPT !.pc = "last"]
    <2>1. next \in CallState /\ Unregister(d, next) /\ next.pc = "last"
      BY <1>9, CallFacts DEF Expire, CallState
    <2> HIDE DEF next
    <2> QED
      BY <2>1, <1>4
  <1>10. ASSUME NEW d \in Call, Wake(d)
         PROVE  c \in listeners' /\ Pending(c) /\ calls'[c].pc = calls[c].pc
    <2> DEFINE answer == IF calls[d].promise = "broken" THEN "retry" ELSE calls[d].promise
    <2>1. answer \in {"ok", "failed", "retry"} /\ Answer(d, answer) /\ UNCHANGED listeners
      BY <1>10, CallFacts DEF Wake, CallState
    <2> HIDE DEF answer
    <2> QED
      BY <2>1, <1>2
  <1>11. ASSUME NEW d \in Call, LastCheck(d)
         PROVE  c \in listeners' /\ Pending(c) /\ calls'[c].pc = calls[c].pc
    BY <1>2, <1>11, DefiniteFacts DEF LastCheck
  <1>12. ASSUME NotifyCommitListener
         PROVE  /\ c \in listeners' /\ Pending(c) /\ calls'[c].pc = calls[c].pc
                /\ log[applied_index + 1] # RequestOf(c)
    <2>1. notifying \in {"ok", "failed"}
      BY <1>12 DEF TypeOK, NotifyCommitListener
    <2> DEFINE woken == Listening(log[applied_index + 1])
    <2>2. CASE c \in woken
      <3>1. calls'[c] = [calls[c] EXCEPT !.promise = notifying]
        BY <1>12, <2>2 DEF NotifyCommitListener
      <3> QED
        BY <3>1, <2>1, <1>0 DEF CallState
    <2>3. CASE c \notin woken
      <3>1. calls'[c] = calls[c] /\ listeners' = listeners \ woken
        BY <1>12, <2>3 DEF NotifyCommitListener
      <3> QED
        BY <3>1, <2>3 DEF Listening
    <2> QED
      BY <2>2, <2>3
  <1>13. \/ UNCHANGED <<calls, listeners>> \/ NotifyCommitListener
         \/ \E d \in Call : Arrive(d) \/ Handler(d) \/ Expire(d)
    BY DEF Next, vars, ApplyEntry, StepDown, Commit, ForeignAppend, BecomeLeader
  <1>14. ASSUME NEW d \in Call, Arrive(d) \/ Handler(d) \/ Expire(d) PROVE ~NotifyCommitListener
    BY <1>14 DEF NotifyCommitListener, applyVars, Handler, Arrive, Propose, Expire,
       RegisterCommitListener, DoubleCheck, Wake, LastCheck
  <1> QED
    BY <1>1, <1>5, <1>6, <1>7, <1>8, <1>9, <1>10, <1>11, <1>12, <1>13, <1>14 DEF Handler

\* A record turns committed only with the execution of its request, which is then still to
\* be announced.
LEMMA CommittedStep ==
    ASSUME TypeOK, [Next]_vars, NEW s \in Request, table'[s].state = "committed"
    PROVE  \/ table[s].state = "committed"
           \/ ApplyEntry /\ notifying' # "nothing" /\ log'[applied_index' + 1] = s
  <1>1. CASE table'[s] \in {table[s], None}
    BY <1>1 DEF None
  <1>2. ASSUME NEW c \in Call, Propose(c) PROVE table'[s] \in {table[s], None}
    BY <1>2, ProposeTable
  <1>3. ASSUME ApplyEntry, log[applied_index + 1] # Noop, table'[s] \notin {table[s], None}
        PROVE  notifying' # "nothing" /\ log'[applied_index' + 1] = s
    <2> DEFINE r == log[applied_index + 1]
    <2>1. PICK success \in BOOLEAN :
              LET record == [state |-> "committed", index |-> applied_index + 1,
                             success |-> success]
              IN  /\ r \in Request /\ record \in DedupRecord
                  /\ Insert(r, record)
                  /\ notifying' = Definite(success)
      BY <1>3, ApplyFacts
    <2>2. s = r
      <3> DEFINE record == [state |-> "committed", index |-> applied_index + 1,
                            success |-> success]
      <3>1. record.state # "none" /\ r \in Request /\ record \in DedupRecord /\ Insert(r, record)
        BY <2>1
      <3> HIDE DEF record, r
      <3> QED
        BY <3>1, <1>3, InsertFacts
    <2> QED
      BY <2>1, <2>2, <1>3, DefiniteFacts DEF ApplyEntry, nodeVars
  <1>4. \/ table'[s] = table[s] \/ \E c \in Call : Propose(c)
        \/ ApplyEntry /\ log[applied_index + 1] # Noop
    BY DEF Next, vars, dedupVars, Handler, Arrive, RegisterCommitListener,
           DoubleCheck, Wake, Expire, LastCheck, NotifyCommitListener, StepDown, Commit,
           ForeignAppend, BecomeLeader, ApplyEntry
  <1> QED
    BY <1>1, <1>2, <1>3, <1>4

\* No step leaves a call waiting for an announcement that has been made.
LEMMA WakeupStep ==
    TypeOK /\ Applying /\ RecheckIsRegistered /\ NoLostWakeup /\ [Next]_vars
        => RecheckIsRegistered' /\ NoLostWakeup'
  <1> SUFFICES ASSUME TypeOK, Applying, RecheckIsRegistered, NoLostWakeup, [Next]_vars,
                      NEW c \in Call, Pending(c)'
               PROVE  /\ c \in listeners'
                      /\ calls'[c].pc = "wait" /\ table'[RequestOf(c)'].state = "committed" =>
                            notifying' # "nothing" /\ log'[applied_index' + 1] = RequestOf(c)'
    BY DEF RecheckIsRegistered, NoLostWakeup, Pending
  <1>1. Pending(c) => c \in listeners
    BY DEF RecheckIsRegistered, NoLostWakeup, Pending
  <1>2. RequestOf(c)' = RequestOf(c) /\ RequestOf(c) \in Request
    BY CallChanges, CallFacts DEF RequestOf
  <1>3. c \in listeners'
    BY <1>1, PendingStep
  <1>4. ASSUME calls'[c].pc = "wait", table'[RequestOf(c)].state = "committed"
        PROVE  notifying' # "nothing" /\ log'[applied_index' + 1] = RequestOf(c)
    <2>1. CASE UNCHANGED <<nodeVars, dedupVars, applyVars>> /\ table[RequestOf(c)].state # "committed"
      BY <2>1, <1>4 DEF dedupVars
    <2>2. CASE table[RequestOf(c)].state # "committed"
      BY <2>2, <1>2, <1>4, CommittedStep
    <2>3. CASE /\ table[RequestOf(c)].state = "committed" /\ Pending(c)
               /\ calls'[c].pc = calls[c].pc
               /\ NotifyCommitListener => log[applied_index + 1] # RequestOf(c)
      <3>1. notifying # "nothing" /\ log[applied_index + 1] = RequestOf(c)
        BY <2>3, <1>4 DEF NoLostWakeup, Pending
      <3>2. UNCHANGED <<notifying, applied_index>>
        BY <3>1, <2>3 DEF Next, vars, applyVars, Handler, Arrive, Propose,
           RegisterCommitListener, DoubleCheck, Wake, Expire, LastCheck, ApplyEntry, StepDown,
           Commit, ForeignAppend, BecomeLeader
      <3>3. applied_index + 1 \in 1..commit_index
        BY <3>1, LogFacts DEF Applying
      <3> QED
        BY <3>1, <3>2, <3>3, CommittedStays
    <2> QED
      BY <2>1, <2>2, <2>3, <1>1, <1>4, PendingStep
  <1> QED
    BY <1>2, <1>3, <1>4

(***************************************************************************)
(* At most one execution, under a leader that stays.                       *)
(***************************************************************************)

\* No two calls carry the request.
Sole(sent, r) == \A c, d \in Call : sent[c].request = r /\ sent[d].request = r => c = d

InLog(r) == \E i \in 1..Len(log) : log[i] = r

\* With the window large enough nothing is evicted: what was proposed stays known.
LoggedIsKnown == \A i \in 1..Len(log) : log[i] # Noop => table[log[i]].state # "none"
KnownIsSent == \A r \in Request : table[r].state # "none" => \E c \in Call : RequestOf(c) = r

\* A request that one call carries is in the log once, and not before that call proposes it.
ProposedOnce ==
    /\ \A c \in Call : calls[c].pc = "propose" /\ Sole(calls, RequestOf(c)) => ~InLog(RequestOf(c))
    /\ \A i, j \in 1..Len(log) : log[i] = log[j] /\ log[i] # Noop /\ Sole(calls, log[i]) => i = j

\* What was executed is in the log, at an index that was applied or is being announced.
AppliedIsLogged ==
    \A k \in DOMAIN applied : \E i \in 1..Len(log) :
        /\ log[i] = applied[k].request
        /\ i <= applied_index \/ (i = applied_index + 1 /\ notifying # "nothing")

AppliedOnce ==
    \A i, j \in DOMAIN applied :
        applied[i].request = applied[j].request /\ Sole(calls, applied[i].request) => i = j

OnceInv ==
    step_downs = 0 =>
        /\ leading
        /\ LoggedIsKnown /\ KnownIsSent /\ ProposedOnce /\ AppliedIsLogged /\ AppliedOnce

\* The requests that were sent fit the window.
LEMMA WindowSuffices ==
    ASSUME TypeOK, KnownIsSent, Cardinality(Call) <= WindowSize,
           NEW r \in Request, NEW record, \E c \in Call : RequestOf(c) = r
    PROVE  Cardinality(Present([table EXCEPT ![r] = record])) <= WindowSize
  <1> DEFINE tab == [table EXCEPT ![r] = record]
             T == {RequestOf(c) : c \in Call}
             f == [c \in Call |-> RequestOf(c)]
  <1>1. Present(tab) \subseteq T
    BY DEF Present, KnownIsSent, TypeOK
  <1>2. f \in Surjection(Call, T)
    BY DEF Surjection
  <1>3. IsFiniteSet(T) /\ Cardinality(T) <= Cardinality(Call)
    <2> HIDE DEF f, T
    <2> QED
      BY <1>2, FS_Surjection, ClientWriteAssumption
  <1>4. Cardinality(Present(tab)) <= Cardinality(T)
    <2> HIDE DEF T, tab
    <2> QED
      BY <1>1, <1>3, FS_Subset
  <1>5. /\ Cardinality(Present(tab)) \in Nat /\ Cardinality(T) \in Nat
        /\ Cardinality(Call) \in Nat
    <2> HIDE DEF T, tab
    <2> QED
      BY <1>1, <1>3, FS_Subset, FS_CardinalityType, ClientWriteAssumption
  <1> QED
    BY <1>3, <1>4, <1>5, ClientWriteAssumption

\* The requests of the calls never change, nor does which of them are sole.
LEMMA SoleStays ==
    ASSUME TypeOK, [Next]_vars
    PROVE  /\ \A c \in Call : RequestOf(c)' = RequestOf(c)
           /\ \A r : Sole(calls', r) <=> Sole(calls, r)
  <1>1. \A c \in Call : RequestOf(c)' = RequestOf(c)
    BY CallChanges DEF RequestOf
  <1> QED
    BY <1>1 DEF Sole, RequestOf

\* A step that leaves the log and the table alone, and lets no call reach Propose, keeps
\* what is known of them.
LEMMA OnceQuiet ==
    ASSUME TypeOK, [Next]_vars, OnceInv, step_downs = 0, UNCHANGED <<leading, log, table>>,
           \A c \in Call : calls'[c].pc = "propose" =>
               calls[c].pc = "propose" \/ table[RequestOf(c)].state = "none"
    PROVE  leading' /\ LoggedIsKnown' /\ KnownIsSent' /\ ProposedOnce'
  <1>1. leading /\ LoggedIsKnown /\ KnownIsSent /\ ProposedOnce
    BY DEF OnceInv
  <1>2. leading' /\ LoggedIsKnown' /\ KnownIsSent'
    BY <1>1, SoleStays DEF LoggedIsKnown, KnownIsSent
  <1>3. ASSUME NEW c \in Call, calls'[c].pc = "propose", Sole(calls', RequestOf(c)'), InLog(RequestOf(c))'
        PROVE  FALSE
    <2>1. InLog(RequestOf(c)) /\ Sole(calls, RequestOf(c)) /\ RequestOf(c) \in Request
      BY <1>3, SoleStays, CallFacts DEF InLog
    <2>2. table[RequestOf(c)].state # "none"
      BY <1>1, <2>1, ClientWriteAssumption DEF InLog, LoggedIsKnown
    <2> QED
      BY <1>1, <1>3, <2>1, <2>2 DEF ProposedOnce
  <1>4. ProposedOnce'
    BY <1>1, <1>3, SoleStays DEF ProposedOnce
  <1> QED
    BY <1>2, <1>4

LEMMA AppliedQuiet ==
    ASSUME TypeOK, [Next]_vars, AppliedIsLogged, AppliedOnce, UNCHANGED applied,
           \A i \in 1..Len(log) : i <= applied_index + 1 => i \in 1..Len(log') /\ log'[i] = log[i],
           \/ UNCHANGED <<applied_index, notifying>>
           \/ applied_index' = applied_index + 1
    PROVE  AppliedIsLogged' /\ AppliedOnce'
  <1>1. AppliedOnce'
    BY SoleStays DEF AppliedOnce
  <1>2. ASSUME NEW k \in DOMAIN applied
        PROVE  \E i \in 1..Len(log') :
                   /\ log'[i] = applied[k].request
                   /\ i <= applied_index' \/ (i = applied_index' + 1 /\ notifying' # "nothing")
    <2>1. PICK i \in 1..Len(log) :
              /\ log[i] = applied[k].request
              /\ i <= applied_index \/ (i = applied_index + 1 /\ notifying # "nothing")
      BY DEF AppliedIsLogged
    <2>2. i \in 1..Len(log') /\ log'[i] = log[i]
      BY <2>1, LogFacts
    <2>3. i <= applied_index' \/ (i = applied_index' + 1 /\ notifying' # "nothing")
      BY <2>1, LogFacts
    <2> QED
      BY <2>1, <2>2, <2>3
  <1> QED
    BY <1>1, <1>2 DEF AppliedIsLogged

LEMMA OncePropose ==
    ASSUME TypeOK, [Next]_vars, OnceInv, step_downs = 0, Cardinality(Call) <= WindowSize,
           NEW c \in Call, Propose(c)
    PROVE  /\ leading' /\ LoggedIsKnown' /\ KnownIsSent' /\ ProposedOnce'
           /\ AppliedIsLogged' /\ AppliedOnce'
  <1> DEFINE r == RequestOf(c)
             record == [state |-> "pending", index |-> Len(log) + 1, success |-> FALSE]
  <1>1. /\ leading /\ LoggedIsKnown /\ KnownIsSent /\ ProposedOnce /\ AppliedIsLogged
        /\ AppliedOnce
    BY DEF OnceInv
  <1>2. /\ log' = Append(log, r) /\ Len(log) < MaxLog /\ TrackPending(r, Len(log) + 1)
        /\ At(c, "register") /\ calls[c].pc = "propose"
        /\ UNCHANGED <<leading, applied_index, notifying, applied>>
    BY <1>1 DEF Propose, applyVars
  <1>3. r \in Request /\ r # Noop
    BY CallFacts, ClientWriteAssumption
  <1>4. /\ Len(log') = Len(log) + 1 /\ log'[Len(log) + 1] = r
        /\ \A i \in 1..Len(log) : log'[i] = log[i]
    <2>1. log \in Seq(Request \cup {Noop}) /\ r \in Request \cup {Noop}
      BY <1>3 DEF TypeOK
    <2> HIDE DEF r
    <2> QED
      BY <1>2, <2>1, AppendProperties
  <1>5. /\ table'[r].state # "none"
        /\ \A s \in Request : s # r => table'[s] = table[s]
    <2>1. CASE table[r].state # "none"
      BY <1>2, <1>3, <2>1 DEF TrackPending, dedupVars
    <2>2. CASE table[r].state = "none"
      <3>1. record \in DedupRecord /\ record.state # "none"
        BY <1>2, LogFacts, ClientWriteAssumption DEF DedupRecord
      <3>2. Insert(r, record)
        BY <1>2, <2>2 DEF TrackPending
      <3>3. Cardinality(Present([table EXCEPT ![r] = record])) <= WindowSize
        <4> HIDE DEF record
        <4> QED
          BY <1>1, <1>3, WindowSuffices
      <3>4. table' = [table EXCEPT ![r] = record]
        <4> HIDE DEF record, r
        <4> QED
          BY <1>3, <3>1, <3>2, <3>3, InsertFacts
      <3> QED
        BY <3>1, <3>4, <1>3 DEF TypeOK
    <2> QED
      BY <2>1, <2>2
  <1>7. LoggedIsKnown'
    <2>1. ASSUME NEW i \in 1..Len(log'), log'[i] # Noop PROVE table'[log'[i]].state # "none"
      <3>1. CASE i = Len(log) + 1
        BY <3>1, <1>4, <1>5
      <3>2. CASE i # Len(log) + 1
        <4>1. i \in 1..Len(log) /\ log'[i] = log[i]
          BY <3>2, <1>4, LogFacts
        <4>2. log[i] \in Request /\ table[log[i]].state # "none"
          BY <4>1, <2>1, <1>1, LogFacts DEF LoggedIsKnown
        <4>3. table'[log[i]].state # "none"
          <5> HIDE DEF r
          <5> QED
            BY <4>2, <1>5
        <4> QED
          BY <4>1, <4>3
      <3> QED
        BY <3>1, <3>2
    <2> QED
      BY <2>1 DEF LoggedIsKnown
  <1>8. KnownIsSent'
    <2>1. ASSUME NEW s \in Request, table'[s].state # "none"
          PROVE  \E d \in Call : RequestOf(d) = s
      <3>1. CASE s = r
        BY <3>1
      <3>2. CASE s # r
        <4>1. table'[s] = table[s]
          <5> HIDE DEF r
          <5> QED
            BY <3>2, <1>5
        <4> QED
          BY <4>1, <2>1, <1>1 DEF KnownIsSent
      <3> QED
        BY <3>1, <3>2
    <2> QED
      BY <2>1, SoleStays DEF KnownIsSent
  <1>9. ProposedOnce'
    <2>1. ASSUME NEW d \in Call, calls'[d].pc = "propose", Sole(calls', RequestOf(d)')
          PROVE  ~InLog(RequestOf(d))'
      <3>1. d # c
        <4>1. calls'[c].pc = "register"
          BY <1>2, AtFacts, CallFacts DEF CallState
        <4> QED
          BY <4>1, <2>1
      <3>2. calls[d].pc = "propose" /\ Sole(calls, RequestOf(d)) /\ RequestOf(d)' = RequestOf(d)
        BY <1>2, <2>1, <3>1, AtFacts, SoleStays
      <3>3. ~InLog(RequestOf(d))
        BY <1>1, <3>2 DEF ProposedOnce
      <3>4. RequestOf(d) # r
        BY <3>1, <3>2 DEF Sole, RequestOf
      <3> QED
        BY <3>2, <3>3, <3>4, <1>4, LogFacts DEF InLog
    <2>2. ASSUME NEW i \in 1..Len(log'), NEW j \in 1..Len(log'), log'[i] = log'[j],
                 log'[i] # Noop, Sole(calls', log'[i])
          PROVE  i = j
      <3>1. Sole(calls, log'[i])
        BY <2>2, SoleStays
      <3>2. \A k \in 1..Len(log') : k = Len(log) + 1 \/ (k \in 1..Len(log) /\ log'[k] = log[k])
        BY <1>4, LogFacts
      <3>3. log'[i] = r => ~InLog(r)
        BY <3>1, <1>1, <1>2 DEF ProposedOnce
      <3> QED
        BY <2>2, <3>1, <3>2, <3>3, <1>1, <1>4, LogFacts DEF ProposedOnce, InLog
    <2> QED
      BY <2>1, <2>2 DEF ProposedOnce
  <1>10. AppliedIsLogged' /\ AppliedOnce'
    <2>1. \A i \in 1..Len(log) : i \in 1..Len(log') /\ log'[i] = log[i]
      BY <1>4, LogFacts
    <2> QED
      BY <2>1, <1>1, <1>2, AppliedQuiet
  <1> QED
    BY <1>1, <1>2, <1>7, <1>8, <1>9, <1>10

LEMMA OnceApply ==
    ASSUME TypeOK, [Next]_vars, OnceInv, step_downs = 0, Cardinality(Call) <= WindowSize,
           ApplyEntry
    PROVE  /\ leading' /\ LoggedIsKnown' /\ KnownIsSent' /\ ProposedOnce'
           /\ AppliedIsLogged' /\ AppliedOnce'
  <1> DEFINE r == log[applied_index + 1]
  <1>1. /\ leading /\ LoggedIsKnown /\ KnownIsSent /\ ProposedOnce /\ AppliedIsLogged
        /\ AppliedOnce
    BY DEF OnceInv
  <1>2. /\ UNCHANGED <<leading, log, commit_index, calls>> /\ notifying = "nothing"
        /\ applied_index + 1 \in 1..Len(log)
    BY LogFacts DEF ApplyEntry, nodeVars
  <1>3. CASE r = Noop
    <2>1. applied_index' = applied_index + 1 /\ UNCHANGED <<table, notifying, applied>>
      BY <1>3 DEF ApplyEntry, dedupVars
    <2>2. AppliedIsLogged' /\ AppliedOnce'
      BY <2>1, <1>1, <1>2, AppliedQuiet
    <2> QED
      BY <2>1, <2>2, <1>2, OnceQuiet
  <1>4. CASE r # Noop
    <2>1. PICK success \in BOOLEAN :
              LET record == [state |-> "committed", index |-> applied_index + 1,
                             success |-> success]
              IN  /\ r \in Request /\ record \in DedupRecord
                  /\ Insert(r, record)
                  /\ notifying' = Definite(success)
                  /\ applied' = Append(applied, [request |-> r, success |-> success])
      BY <1>4, ApplyFacts
    <2> DEFINE record == [state |-> "committed", index |-> applied_index + 1,
                          success |-> success]
    <2>2. notifying' # "nothing" /\ UNCHANGED applied_index
      BY <1>4, <2>1, DefiniteFacts DEF ApplyEntry
    <2>3. table[r].state # "none" /\ \E c \in Call : RequestOf(c) = r
      BY <1>1, <1>2, <1>4, <2>1 DEF LoggedIsKnown, KnownIsSent
    <2>4. table' = [table EXCEPT ![r] = record]
      <3>1. record.state # "none" /\ r \in Request /\ record \in DedupRecord /\ Insert(r, record)
        BY <2>1
      <3> HIDE DEF record, r
      <3> QED
        BY <3>1, <1>1, <2>3, WindowSuffices, InsertFacts
    <2>5. \A s \in Request : table'[s].state # "none" <=> table[s].state # "none"
      <3>1. record.state = "committed"
        OBVIOUS
      <3> HIDE DEF record, r
      <3> QED
        BY <2>3, <2>4, <3>1 DEF TypeOK
    <2>6. LoggedIsKnown' /\ KnownIsSent' /\ ProposedOnce'
      <3>1. LoggedIsKnown'
        BY <1>1, <1>2, <2>5, LogFacts DEF LoggedIsKnown
      <3>2. KnownIsSent'
        BY <1>1, <2>5, SoleStays DEF KnownIsSent
      <3>3. ProposedOnce'
        BY <1>1, <1>2 DEF ProposedOnce, InLog, RequestOf
      <3> QED
        BY <3>1, <3>2, <3>3
    <2>7. /\ DOMAIN applied' = 1..(Len(applied) + 1) /\ DOMAIN applied = 1..Len(applied)
          /\ Len(applied) \in Nat
          /\ \A k \in 1..Len(applied) : applied'[k] = applied[k]
          /\ applied'[Len(applied) + 1].request = r
      <3>1. applied \in Seq([request: Request, success: BOOLEAN])
        BY DEF TypeOK
      <3>2. [request |-> r, success |-> success] \in [request: Request, success: BOOLEAN]
        BY <2>1
      <3> QED
        BY <2>1, <3>1, <3>2, AppendProperties, LenProperties
    <2>8. AppliedIsLogged'
      <3>1. ASSUME NEW k \in DOMAIN applied'
            PROVE  \E i \in 1..Len(log') : log'[i] = applied'[k].request /\ i <= applied_index' + 1
        <4>1. CASE k = Len(applied) + 1
          BY <4>1, <1>2, <2>2, <2>7, LogFacts
        <4>2. CASE k # Len(applied) + 1
          <5>1. k \in DOMAIN applied /\ applied'[k] = applied[k]
            BY <4>2, <2>7
          <5>2. PICK i \in 1..Len(log) : log[i] = applied[k].request /\ i <= applied_index
            BY <5>1, <1>1, <1>2 DEF AppliedIsLogged
          <5> QED
            BY <5>1, <5>2, <1>2, <2>2, LogFacts
        <4> QED
          BY <4>1, <4>2
      <3>2. \A i \in 1..Len(log') : i <= applied_index' + 1
                => i <= applied_index' \/ i = applied_index' + 1
        BY <1>2, <2>2, LogFacts
      <3> QED
        BY <3>1, <3>2, <2>2 DEF AppliedIsLogged
    <2>9. ASSUME Sole(calls, r) PROVE \A k \in DOMAIN applied : applied[k].request # r
      <3>1. SUFFICES ASSUME NEW k \in DOMAIN applied, applied[k].request = r PROVE FALSE
        OBVIOUS
      <3>2. PICK i \in 1..Len(log) : log[i] = r /\ i <= applied_index
        BY <3>1, <1>1, <1>2 DEF AppliedIsLogged
      <3>3. i = applied_index + 1
        BY <3>2, <2>9, <1>1, <1>2, <1>4 DEF ProposedOnce
      <3> QED
        BY <3>2, <3>3, LogFacts
    <2>10. AppliedOnce'
      <3>1. ASSUME NEW i \in DOMAIN applied', NEW j \in DOMAIN applied',
                   applied'[i].request = applied'[j].request, Sole(calls', applied'[i].request)
            PROVE  i = j
        <4>1. Sole(calls, applied'[i].request)
          BY <3>1, SoleStays
        <4>2. CASE i = Len(applied) + 1 /\ j = Len(applied) + 1
          BY <4>2
        <4>3. CASE i # Len(applied) + 1 /\ j # Len(applied) + 1
          <5>1. /\ i \in DOMAIN applied /\ j \in DOMAIN applied
                /\ applied'[i] = applied[i] /\ applied'[j] = applied[j]
            BY <4>3, <2>7
          <5> QED
            BY <5>1, <4>1, <3>1, <1>1 DEF AppliedOnce
        <4>4. CASE i = Len(applied) + 1 /\ j # Len(applied) + 1
          <5>1. j \in DOMAIN applied /\ applied'[j] = applied[j] /\ applied'[i].request = r
            BY <4>4, <2>7
          <5> HIDE DEF r
          <5> QED
            BY <5>1, <4>1, <3>1, <2>9
        <4>5. CASE i # Len(applied) + 1 /\ j = Len(applied) + 1
          <5>1. i \in DOMAIN applied /\ applied'[i] = applied[i] /\ applied'[j].request = r
            BY <4>5, <2>7
          <5> HIDE DEF r
          <5> QED
            BY <5>1, <4>1, <3>1, <2>9
        <4> QED
          BY <4>2, <4>3, <4>4, <4>5
      <3> QED
        BY <3>1 DEF AppliedOnce
    <2> QED
      BY <1>1, <1>2, <2>6, <2>8, <2>10
  <1> QED
    BY <1>3, <1>4

LEMMA OnceStep ==
    ASSUME TypeOK, [Next]_vars, OnceInv, Cardinality(Call) <= WindowSize
    PROVE  OnceInv'
  <1> SUFFICES ASSUME step_downs' = 0
               PROVE  /\ leading' /\ LoggedIsKnown' /\ KnownIsSent' /\ ProposedOnce'
                      /\ AppliedIsLogged' /\ AppliedOnce'
    BY DEF OnceInv
  <1>1. step_downs = 0
    <2>1. StepDown => step_downs' # 0
      BY ClientWriteAssumption DEF StepDown, TypeOK
    <2> QED
      BY <2>1 DEF Next, vars, nodeVars, Handler, Arrive, Propose, RegisterCommitListener,
         DoubleCheck, Wake, Expire, LastCheck, ApplyEntry, NotifyCommitListener,
         Commit, ForeignAppend, BecomeLeader
  <1>2. leading /\ AppliedIsLogged /\ AppliedOnce
    BY <1>1 DEF OnceInv
  <1>3. ASSUME UNCHANGED <<leading, log, table, applied>>,
               UNCHANGED <<applied_index, notifying>> \/ applied_index' = applied_index + 1,
               \A c \in Call : calls'[c].pc = "propose" =>
                   calls[c].pc = "propose" \/ table[RequestOf(c)].state = "none"
        PROVE  /\ leading' /\ LoggedIsKnown' /\ KnownIsSent' /\ ProposedOnce'
               /\ AppliedIsLogged' /\ AppliedOnce'
    BY <1>1, <1>2, <1>3, OnceQuiet, AppliedQuiet
  <1>4. ASSUME NEW d \in Call, NEW answer \in {"ok", "failed", "retry"}, Answer(d, answer), NEW c \in Call
        PROVE  calls'[c].pc = "propose" => calls[c].pc = "propose"
    BY <1>4, AnswerFacts, AnsweredFacts
  <1>5. ASSUME NEW d \in Call, NEW pc \in {"propose", "register", "recheck", "wait"}, At(d, pc), NEW c \in Call
        PROVE  calls'[c].pc = "propose" => calls[c].pc = "propose" \/ (c = d /\ pc = "propose")
    <2>1. calls[c] \in CallState
      BY <1>1, CallFacts
    <2>2. c = d => calls'[c] = [calls[c] EXCEPT !.pc = pc]
      BY <1>1, <1>5, AtFacts
    <2>3. c # d => calls'[c] = calls[c]
      BY <1>1, <1>5, AtFacts
    <2>4. c = d => calls'[c].pc = pc
      BY <2>1, <2>2 DEF CallState
    <2> QED
      BY <2>3, <2>4
  <1>6. ASSUME NEW d \in Call, NEW next \in CallState, Unregister(d, next), next.pc # "propose",
               NEW c \in Call
        PROVE  calls'[c].pc = "propose" => calls[c].pc = "propose"
    <2>1. CASE c = d
      BY <2>1, <1>6, UnregisterFacts
    <2>2. CASE c # d
      <3>1. calls'[c] = calls[c] \/ calls'[c] = [calls[c] EXCEPT !.promise = "broken"]
        BY <2>2, <1>6, UnregisterFacts
      <3> QED
        BY <3>1, CallFacts DEF CallState
    <2> QED
      BY <2>1, <2>2
  <1>7. ASSUME NEW d \in Call, Arrive(d), NEW c \in Call, calls'[c].pc = "propose"
        PROVE  calls[c].pc = "propose" \/ table[RequestOf(c)].state = "none"
    <2>1. CASE table[RequestOf(d)].state = "committed"
      BY <1>4, <1>7, <2>1, DefiniteFacts DEF Arrive
    <2>2. CASE table[RequestOf(d)].state = "pending"
      BY <1>5, <1>7, <2>2 DEF Arrive
    <2>3. CASE table[RequestOf(d)].state = "none"
      BY <1>5, <1>7, <2>3 DEF Arrive
    <2> QED
      BY <2>1, <2>2, <2>3, CallFacts DEF DedupRecord
  <1>8. ASSUME NEW d \in Call, RegisterCommitListener(d), NEW c \in Call, calls'[c].pc = "propose"
        PROVE  calls[c].pc = "propose"
    <2>1. CASE Listening(RequestOf(d)) = {}
      BY <1>5, <1>8, <2>1 DEF RegisterCommitListener
    <2>2. CASE Listening(RequestOf(d)) # {}
      <3>1. calls' = [calls EXCEPT ![d].pc = "recheck", ![d].promise = "broken"]
        BY <1>8, <2>2 DEF RegisterCommitListener
      <3>2. c # d
        <4>1. c = d => calls'[c] = [calls[c] EXCEPT !.pc = "recheck", !.promise = "broken"]
          BY <3>1, BrokenFacts
        <4>2. c = d => calls'[c].pc = "recheck"
          BY <4>1, CallFacts DEF CallState
        <4> QED
          BY <4>2, <1>8
      <3> QED
        BY <3>1, <3>2, <1>8, BrokenFacts
    <2> QED
      BY <2>1, <2>2
  <1>9. ASSUME NEW d \in Call, DoubleCheck(d), NEW c \in Call, calls'[c].pc = "propose"
        PROVE  calls[c].pc = "propose"
    <2>1. CASE table[RequestOf(d)].state = "committed"
      <3> DEFINE next == Answered(d, Definite(table[RequestOf(d)].success))
      <3>1. Unregister(d, next) /\ next \in CallState /\ next.pc \in {"idle", "done"}
        BY <1>9, <2>1, AnsweredFacts, DefiniteFacts DEF DoubleCheck
      <3> HIDE DEF next
      <3> QED
        BY <3>1, <1>6, <1>9
    <2>2. CASE table[RequestOf(d)].state # "committed"
      BY <1>5, <1>9, <2>2 DEF DoubleCheck
    <2> QED
      BY <2>1, <2>2
  <1>10. ASSUME NEW d \in Call, Expire(d), NEW c \in Call, calls'[c].pc = "propose"
         PROVE  calls[c].pc = "propose"
    <2> DEFINE next == [calls[d] EXCEPT !.pc = "last"]
    <2>1. next \in CallState /\ Unregister(d, next) /\ next.pc = "last"
      BY <1>10, CallFacts DEF Expire, CallState
    <2> HIDE DEF next
    <2> QED
      BY <2>1, <1>6, <1>10
  <1>11. ASSUME NEW d \in Call, Wake(d), NEW c \in Call, calls'[c].pc = "propose"
         PROVE  calls[c].pc = "propose"
    <2> DEFINE answer == IF calls[d].promise = "broken" THEN "retry" ELSE calls[d].promise
    <2>1. answer \in {"ok", "failed", "retry"} /\ Answer(d, answer)
      BY <1>11, CallFacts DEF Wake, CallState
    <2> HIDE DEF answer
    <2> QED
      BY <2>1, <1>4, <1>11
  <1>12. ASSUME NEW d \in Call, LastCheck(d), NEW c \in Call, calls'[c].pc = "propose"
         PROVE  calls[c].pc = "propose"
    BY <1>4, <1>12, DefiniteFacts DEF LastCheck
  <1>13. ASSUME NotifyCommitListener, NEW c \in Call, calls'[c].pc = "propose"
         PROVE  calls[c].pc = "propose"
    BY <1>13, CallFacts DEF NotifyCommitListener, CallState
  <1>14. CASE \E d \in Call : Arrive(d) \/ RegisterCommitListener(d) \/ DoubleCheck(d)
                 \/ Expire(d) \/ Wake(d) \/ LastCheck(d)
    <2>1. UNCHANGED <<leading, log, table, applied, applied_index, notifying>>
      BY <1>14 DEF Arrive, RegisterCommitListener, DoubleCheck, Expire, Wake, LastCheck,
         nodeVars, dedupVars, applyVars
    <2>2. \A c \in Call : calls'[c].pc = "propose" =>
              calls[c].pc = "propose" \/ table[RequestOf(c)].state = "none"
      BY <1>14, <1>7, <1>8, <1>9, <1>10, <1>11, <1>12
    <2> QED
      BY <2>1, <2>2, <1>3
  <1>15. CASE NotifyCommitListener
    <2>1. UNCHANGED <<leading, log, table, applied>> /\ applied_index' = applied_index + 1
      BY <1>15 DEF NotifyCommitListener, nodeVars, dedupVars
    <2> QED
      BY <2>1, <1>3, <1>13, <1>15
  <1>16. CASE Commit
    BY <1>16, <1>3 DEF Commit, dedupVars, applyVars
  <1>17. CASE UNCHANGED vars
    BY <1>17, <1>3 DEF vars, nodeVars, dedupVars, applyVars
  <1>18. ~StepDown /\ ~ForeignAppend /\ ~BecomeLeader
    BY <1>1, <1>2 DEF StepDown, ForeignAppend, BecomeLeader
  <1> QED
    BY <1>1, <1>14, <1>15, <1>16, <1>17, <1>18, OncePropose, OnceApply DEF Next, Handler

(***************************************************************************)
(* The theorems.                                                           *)
(***************************************************************************)

\* The handlers, the DedupTable and the apply thread of a node keep WriteInv: what a call
\* is told has happened, and a waiting call has its promise registered.
THEOREM WriteInvariant == Spec => []WriteInv
  <1>1. Init => WriteInv
    <2> SUFFICES ASSUME Init PROVE WriteInv
      OBVIOUS
    <2>1. TypeOK
      BY InitTypes
    <2>2. \A c \in Call : calls[c].pc = "idle" /\ calls[c].promise = "none" /\ calls[c].answer = "none"
      BY DEF Init, Idle
    <2>3. \A r \in Request : table[r].state = "none"
      BY DEF Init, None
    <2>4. notifying = "nothing"
      BY DEF Init
    <2> QED
      BY <2>1, <2>2, <2>3, <2>4 DEF WriteInv, Applying, NewsIsReal, AnswersAreReal,
         RecheckIsRegistered, NoLostWakeup
  <1>2. WriteInv /\ [Next]_vars => WriteInv'
    BY TypeStep, ApplyingStep, NewsStep, WakeupStep DEF WriteInv
  <1> QED
    BY <1>1, <1>2, PTL DEF Spec

\* A client is only told what really happened, by the first Check of HandleClientWrite, by
\* its promise, by the second Check or by the one after the timeout.
THEOREM AnswersReal == Spec => []AnswersAreReal
  <1>1. WriteInv => AnswersAreReal
    BY DEF WriteInv
  <1> QED
    BY <1>1, WriteInvariant, PTL

\* A handler of ClientWrite never waits for a commit that was announced before it listened.
THEOREM NoWakeupLost == Spec => []NoLostWakeup
  <1>1. WriteInv => NoLostWakeup
    BY DEF WriteInv
  <1> QED
    BY <1>1, WriteInvariant, PTL

\* Under a leader that stays, and with no more calls than window_size_, a request is
\* executed at most once however often its client sends it: Propose leaves a pending record
\* that is not evicted before the outcome replaces it.  (With more requests than places in
\* the window a pending record may be evicted, and its request proposed again.)
THEOREM ExecutedOnce ==
    ASSUME Cardinality(Call) <= WindowSize
    PROVE  Spec => []AtMostOnce
  <1>1. Init => OnceInv
    <2> SUFFICES ASSUME Init PROVE OnceInv
      OBVIOUS
    <2>1. /\ log = <<Noop>> /\ leading /\ applied = <<>>
          /\ \A r \in Request : table[r].state = "none"
          /\ \A c \in Call : calls[c].pc = "idle"
      BY DEF Init, None, Idle
    <2>2. Len(log) = 1 /\ log[1] = Noop /\ DOMAIN applied = {}
      BY <2>1
    <2> QED
      BY <2>1, <2>2 DEF OnceInv, LoggedIsKnown, KnownIsSent, ProposedOnce, InLog,
         AppliedIsLogged, AppliedOnce
  <1>2. TypeOK /\ OnceInv /\ [Next]_vars => OnceInv'
    BY OnceStep
  <1>3. OnceInv => AtMostOnce
    BY DEF OnceInv, AtMostOnce, AppliedOnce, Sole, RequestOf
  <1>4. WriteInv => TypeOK
    BY DEF WriteInv
  <1> QED
    BY <1>1, <1>2, <1>3, <1>4, WriteInvariant, PTL DEF Spec
=============================================================================
