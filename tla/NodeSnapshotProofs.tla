------------------------- MODULE NodeSnapshotProofs -------------------------
(***************************************************************************)
(* What the snapshots of a node leave on disk and in memory, for any       *)
(* number of installs, entries and restarts, until an install is           *)
(* Disturbed: every crash finds a snapshot that can be loaded and a log    *)
(* that continues it, and nothing applied is lost.                         *)
(*                                                                         *)
(* And what is in such a snapshot: the vector index it is saved from and   *)
(* loaded into, for any keys, writes, levels, capacities and connectivity, *)
(* beside the maintenance thread.                                          *)
(***************************************************************************)
EXTENDS NodeSnapshot, VectorIndex, SequenceTheorems, FiniteSetTheorems, WellFoundedInduction, NaturalsInduction, TLAPS

(***************************************************************************)
(* The invariant.                                                          *)
(***************************************************************************)

\* While nothing is Disturbed one task at a time works in snapshot_dir.
OneTask == \A s, t \in Tasks : Busy(s) /\ Busy(t) => s = t

\* A complete file with the entries up to i.
Holds(data, i) == data \in SUBSET Entry /\ 1..i \subseteq data

\* The control points at which snapshot.tmp is complete, dedup.bin.tmp is complete, and
\* snapshot.meta is that of the task.
FileReady(t) ==
    IF t = Local THEN {"term", "check", "file"} ELSE {"dedup_open", "dedup_write", "check", "file"}
TableReady(t) ==
    IF t = Local THEN {"dedup_rename"} ELSE {"check", "file", "meta", "dedup_rename"}
Finalized(t) ==
    IF t = Local THEN {"dedup_open", "dedup_write", "dedup_rename", "publish", "truncate"}
    ELSE {"dedup_rename", "load", "truncate", "applied", "commit", "load_dedup"}

\* What a task that is under way has on disk, and where its index lies.
TaskInv(t) ==
    LET pc == tasks[t].pc
        i == tasks[t].index
    IN
    /\ i \in 1..MaxIndex /\ meta <= i /\ last_snapshot_index <= i
    /\ pc \in {"open", "write"} => 1..i \subseteq tasks[t].data
    /\ pc = "write" => tasks[t].fd = "snapshot.tmp"
    /\ pc = "dedup_write" => tasks[t].fd = "dedup.bin.tmp"
    /\ pc \in FileReady(t) => Holds(disk["snapshot.tmp"], i)
    /\ pc \in {"file", "meta"} => meta_tmp = i
    /\ pc = "meta" => Holds(disk["snapshot.usearch"], i)
    /\ pc \in TableReady(t) =>
          Holds(disk["dedup.bin.tmp"], IF t = Local /\ forgot THEN 0 ELSE i)
    /\ pc \in Finalized(t) => meta = i

LocalInv ==
    LET task == tasks[Local] IN
    /\ task.pc \in {"init", "clone"} => /\ task.object \in 1..Len(objects)
                                        /\ 1..task.index \subseteq objects[task.object]
    /\ task.pc = "truncate" => last_snapshot_index = task.index
    /\ task.index <= applied_index /\ (apply.pc # "idle" => task.index <= apply.index)
    /\ (task.pc = "dedup_write" /\ ~forgot) => 1..task.index \subseteq task.data

\* The handler brings what is up to its index; once the index is swapped the apply thread is
\* not beyond it.
InstallInv(h) ==
    LET pc == tasks[h].pc
        i == tasks[h].index
    IN
    /\ pc \in {"init", "dedup_open", "dedup_write"} => 1..i \subseteq tasks[h].data
    /\ pc \in {"load", "truncate", "applied", "commit", "load_dedup"} => Holds(disk["dedup.bin"], i)
    /\ pc \in {"truncate", "applied", "commit", "load_dedup"} =>
          /\ 1..i \subseteq Live
          /\ apply.pc # "idle" => apply.index <= i
    /\ pc \in {"commit", "load_dedup"} => applied_index <= i
    /\ pc = "load_dedup" => last_snapshot_index = i

TasksInv ==
    /\ OneTask /\ \A t \in Tasks : Busy(t) => TaskInv(t)
    /\ Busy(Local) => LocalInv
    /\ \A h \in Installers : Busy(h) => InstallInv(h)

\* snapshot.meta never runs ahead of snapshot.usearch, and the node knows its snapshot.
DiskInv ==
    /\ running
    /\ disk["snapshot.usearch"] # Torn /\ disk["dedup.bin"] # Torn
    /\ meta # 0 => Holds(disk["snapshot.usearch"], meta)
    /\ (\A t \in Tasks : tasks[t].pc \notin Finalized(t)) => meta = last_snapshot_index

\* The log, the last snapshot or the one that is being installed reaches i.
InstallReaches(ts, i) ==
    \E h \in Installers : ts[h].pc \in {"applied", "commit"} /\ i <= ts[h].index
Reaches(i) == i <= wal.last \/ i <= last_snapshot_index \/ InstallReaches(tasks, i)

\* The new index is in place, the old applied_index_ still is.
Swapping == \E h \in Installers : tasks[h].pc \in {"truncate", "applied"}

LogInv ==
    /\ wal = EmptyWal \/ wal.first <= wal.last
    /\ (meta + 1)..applied_index \subseteq wal.first..wal.last
    /\ Reaches(applied_index)
    /\ ~Swapping => 1..applied_index \subseteq Live

\* Between the new applied_index_ and the new table the one the node has is too old.
TableFresh == ~forgot /\ \A h \in Installers : tasks[h].pc \notin {"commit", "load_dedup"}

\* The apply thread with an entry in hand.
ApplyInv ==
    apply.pc # "idle" =>
        /\ apply.index \in 1..MaxIndex
        /\ (meta + 1)..apply.index \subseteq wal.first..wal.last
        /\ Reaches(apply.index)
        /\ 1..(apply.index - 1) \subseteq Live
        /\ apply.pc \in {"record", "store"} => apply.index \in Live
        /\ apply.pc = "execute" => /\ apply.object \in 1..Len(objects)
                                   /\ apply.object = Len(objects) \/ apply.index \in Live
        /\ TableFresh => /\ 1..(apply.index - 1) \subseteq dedup
                         /\ apply.pc = "store" => apply.index \in dedup

\* The table on disk is too old between the renames of snapshot.meta and dedup.bin.
TableOnDisk == (~forgot /\ meta # 0 /\ ~HalfSaved) => Holds(disk["dedup.bin"], meta)

TableInMemory == TableFresh => 1..applied_index \subseteq dedup

DedupInv == TableOnDisk /\ TableInMemory

SnapshotInv == NodeOK /\ TasksInv /\ DiskInv /\ LogInv /\ ApplyInv /\ DedupInv

(***************************************************************************)
(* Facts about types.                                                      *)
(***************************************************************************)

LEMMA HoldsFacts ==
    ASSUME NEW data, NEW i, Holds(data, i)
    PROVE  /\ data \in SUBSET Entry /\ 1..i \subseteq data /\ data \in Contents
           /\ data # Missing /\ data # Torn /\ data \notin {Missing, Torn}
  BY SnapshotAssumption DEF Holds, Contents

\* Fewer entries are held as well.
LEMMA HoldsFewer ==
    ASSUME NEW data, NEW i \in Nat, NEW j \in Nat, j <= i, Holds(data, i)
    PROVE  Holds(data, j)
  <1>1. 1..j \subseteq 1..i
    OBVIOUS
  <1> QED
    BY <1>1 DEF Holds

LEMMA LaterRange ==
    ASSUME NEW m \in Nat, NEW n \in Nat, m <= n, NEW k \in Nat
    PROVE  (n + 1)..k \subseteq (m + 1)..k
  <1> SUFFICES ASSUME NEW x \in (n + 1)..k PROVE x \in (m + 1)..k
    OBVIOUS
  <1> QED
    OBVIOUS

LEMMA LogicalFacts ==
    ASSUME wal.last \in Nat, last_snapshot_index \in Nat
    PROVE  /\ LogicalLastIndex \in Nat
           /\ LogicalLastIndex >= wal.last /\ LogicalLastIndex >= last_snapshot_index
           /\ LogicalLastIndex = wal.last \/ LogicalLastIndex = last_snapshot_index
  <1> DEFINE a == wal.last
             b == last_snapshot_index
             T == {a, b}
  <1> HIDE DEF a, b
  <1>1. a \in Nat /\ b \in Nat
    BY DEF a, b
  <1>2. \E x \in T : \A y \in T : x >= y
    <2>1. CASE a >= b
      BY <1>1, <2>1
    <2>2. CASE ~(a >= b)
      BY <1>1, <2>2
    <2> QED
      BY <2>1, <2>2
  <1>3. Max(T) \in T /\ \A y \in T : Max(T) >= y
    BY <1>2 DEF Max
  <1>4. LogicalLastIndex = Max(T)
    BY DEF LogicalLastIndex, a, b
  <1> QED
    BY <1>1, <1>3, <1>4 DEF a, b

LEMMA TypeFacts ==
    ASSUME NodeOK
    PROVE  /\ MaxIndex \in Nat /\ MaxRestarts \in Nat
           /\ wal.first \in Nat /\ wal.last \in Nat /\ wal.first >= 1
           /\ commit_index \in Nat /\ applied_index \in Nat /\ last_snapshot_index \in Nat
           /\ meta \in Nat /\ meta_tmp \in Nat /\ apply.index \in Nat
           /\ Len(objects) \in Nat /\ Len(objects) >= 1 /\ Live \subseteq Entry
           /\ \A k \in 1..Len(objects) : objects[k] \subseteq Entry
           /\ Local \in Tasks /\ \A h \in Installers : h \in Tasks /\ h # Local
           /\ \A t \in Tasks : t = Local \/ t \in Installers
           /\ \A t \in Tasks : /\ tasks[t] \in Task /\ tasks[t].index \in Nat
                               /\ tasks[t].data \subseteq Entry /\ tasks[t].object \in Nat
  <1>1. MaxIndex \in Nat /\ MaxRestarts \in Nat
    BY SnapshotAssumption
  <1>2. /\ wal.first \in Nat /\ wal.last \in Nat /\ wal.first >= 1
        /\ commit_index \in Nat /\ applied_index \in Nat /\ last_snapshot_index \in Nat
        /\ meta \in Nat /\ meta_tmp \in Nat /\ apply.index \in Nat
    BY <1>1 DEF NodeOK
  <1>3. /\ Len(objects) \in Nat /\ Len(objects) >= 1
        /\ \A k \in 1..Len(objects) : objects[k] \subseteq Entry
    <2>1. objects \in Seq(SUBSET Entry) /\ objects # <<>>
      BY DEF NodeOK
    <2>2. Len(objects) \in Nat /\ Len(objects) # 0
      BY <2>1, LenProperties, EmptySeq
    <2>3. \A k \in 1..Len(objects) : objects[k] \in SUBSET Entry
      BY <2>1, ElementOfSeq
    <2> QED
      BY <2>2, <2>3
  <1>4. Live \subseteq Entry
    BY <1>3 DEF Live
  <1>5. /\ Local \in Tasks /\ \A h \in Installers : h \in Tasks /\ h # Local
        /\ \A t \in Tasks : t = Local \/ t \in Installers
    BY SnapshotAssumption DEF Tasks
  <1>6. \A t \in Tasks : /\ tasks[t] \in Task /\ tasks[t].index \in Nat
                         /\ tasks[t].data \subseteq Entry /\ tasks[t].object \in Nat
    <2> SUFFICES ASSUME NEW t \in Tasks
                 PROVE  /\ tasks[t] \in Task /\ tasks[t].index \in Nat
                        /\ tasks[t].data \subseteq Entry /\ tasks[t].object \in Nat
      OBVIOUS
    <2>1. tasks[t] \in Task
      BY DEF NodeOK
    <2> QED
      BY <1>1, <2>1 DEF Task
  <1> QED
    BY <1>1, <1>2, <1>3, <1>4, <1>5, <1>6

\* The steps of a task, in their order.
LEMMA AfterFacts ==
    /\ LocalAfter["init"] = "clone" /\ LocalAfter["clone"] = "open"
    /\ LocalAfter["open"] = "write" /\ LocalAfter["write"] = "term"
    /\ LocalAfter["term"] = "check" /\ LocalAfter["check"] = "file"
    /\ LocalAfter["file"] = "meta" /\ LocalAfter["meta"] = "dedup_open"
    /\ LocalAfter["dedup_open"] = "dedup_write" /\ LocalAfter["dedup_write"] = "dedup_rename"
    /\ LocalAfter["dedup_rename"] = "publish" /\ LocalAfter["publish"] = "truncate"
    /\ InstallAfter["init"] = "open" /\ InstallAfter["open"] = "write"
    /\ InstallAfter["write"] = "dedup_open" /\ InstallAfter["dedup_open"] = "dedup_write"
    /\ InstallAfter["dedup_write"] = "check" /\ InstallAfter["check"] = "file"
    /\ InstallAfter["file"] = "meta" /\ InstallAfter["meta"] = "dedup_rename"
    /\ InstallAfter["dedup_rename"] = "load" /\ InstallAfter["load"] = "truncate"
    /\ InstallAfter["truncate"] = "applied" /\ InstallAfter["applied"] = "commit"
    /\ InstallAfter["commit"] = "load_dedup"
  BY DEF LocalAfter, InstallAfter

\* The next control point of a task is one of its own.
LEMMA AfterType ==
    ASSUME NodeOK, NEW t \in Tasks, Busy(t), tasks[t].pc \notin {"load_dedup"},
           ~(t = Local /\ tasks[t].pc = "truncate")
    PROVE  /\ After(t) \in LocalSteps \cup InstallSteps
           /\ t = Local => After(t) \in LocalSteps
           /\ t # Local => After(t) \in InstallSteps
  <1>1. CASE t = Local
    <2>1. tasks[t].pc \in LocalSteps \ {"idle", "truncate"}
      BY <1>1 DEF NodeOK, Busy
    <2>2. LocalAfter[tasks[t].pc] \in LocalSteps
      BY <2>1, AfterFacts DEF LocalSteps
    <2> QED
      BY <1>1, <2>2 DEF After
  <1>2. CASE t # Local
    <2>1. tasks[t].pc \in InstallSteps \ {"idle", "done", "load_dedup"}
      BY <1>2, TypeFacts DEF NodeOK, Busy
    <2>2. InstallAfter[tasks[t].pc] \in InstallSteps
      BY <2>1, AfterFacts DEF InstallSteps
    <2> QED
      BY <1>2, <2>2 DEF After
  <1> QED
    BY <1>1, <1>2

LEMMA IdleFacts ==
    /\ IdleTask \in Task /\ IdleTask.pc = "idle"
    /\ [IdleTask EXCEPT !.pc = "done"] \in Task /\ [IdleTask EXCEPT !.pc = "done"].pc = "done"
    /\ IdleApply.pc = "idle"
    /\ IdleApply \in [pc : {"idle", "fetch", "execute", "record", "store"}, index : 0..MaxIndex,
                      object : Nat]
  <1>1. MaxIndex \in Nat
    BY SnapshotAssumption
  <1> QED
    BY <1>1 DEF IdleTask, IdleApply, Task, LocalSteps, InstallSteps

\* Handles move with their files; nothing else of a task does.
SameButHandles(new) ==
    /\ new \in [Tasks -> Task]
    /\ \A s \in Tasks : /\ new[s].pc = tasks[s].pc /\ new[s].index = tasks[s].index
                        /\ new[s].object = tasks[s].object /\ new[s].data = tasks[s].data

LEMMA UnlinkFacts ==
    ASSUME NodeOK, NEW names
    PROVE  SameButHandles(Unlink(names))
  <1> DEFINE v(t) == IF tasks[t].fd \in names THEN [tasks[t] EXCEPT !.fd = "unlinked"] ELSE tasks[t]
  <1>1. ASSUME NEW t \in Tasks
        PROVE  /\ v(t) \in Task /\ v(t).pc = tasks[t].pc /\ v(t).index = tasks[t].index
               /\ v(t).object = tasks[t].object /\ v(t).data = tasks[t].data
    <2>1. tasks[t] \in Task
      BY DEF NodeOK
    <2> QED
      BY <2>1 DEF Task
  <1>2. Unlink(names) = [t \in Tasks |-> v(t)]
    BY DEF Unlink
  <1> HIDE DEF v
  <1> QED
    BY <1>1, <1>2 DEF SameButHandles

LEMMA RenameFacts ==
    ASSUME NodeOK, NEW from \in Files, NEW to \in Files
    PROVE  SameButHandles(RenameHandles(from, to))
  <1> DEFINE fd(t) == IF tasks[t].fd = to THEN "unlinked"
                      ELSE IF tasks[t].fd = from THEN to ELSE tasks[t].fd
             v(t) == [tasks[t] EXCEPT !.fd = fd(t)]
  <1>1. ASSUME NEW t \in Tasks
        PROVE  /\ v(t) \in Task /\ v(t).pc = tasks[t].pc /\ v(t).index = tasks[t].index
               /\ v(t).object = tasks[t].object /\ v(t).data = tasks[t].data
    <2>1. tasks[t] \in Task
      BY DEF NodeOK
    <2>2. fd(t) \in Files \cup {"closed", "unlinked"}
      BY <2>1 DEF Task
    <2> HIDE DEF fd
    <2> QED
      BY <2>1, <2>2 DEF Task
  <1>2. RenameHandles(from, to) = [t \in Tasks |-> v(t)]
    BY DEF RenameHandles
  <1> HIDE DEF v
  <1> QED
    BY <1>1, <1>2 DEF SameButHandles

\* One task moves to the control point `to', and at most the handles of others change.
Moves(t, new, to) ==
    /\ new \in [Tasks -> Task]
    /\ \A s \in Tasks : /\ new[s].pc = IF s = t THEN to ELSE tasks[s].pc
                        /\ new[s].index = tasks[s].index
                        /\ new[s].object = tasks[s].object

LEMMA AdvanceFacts ==
    ASSUME NodeOK, NEW t \in Tasks, NEW ts, SameButHandles(ts),
           After(t) \in LocalSteps \cup InstallSteps
    PROVE  /\ Moves(t, Advance(t, ts), After(t))
           /\ \A s \in Tasks : /\ Advance(t, ts)[s].data = tasks[s].data
                               /\ Advance(t, ts)[s].fd = ts[s].fd
  <1> DEFINE v == [ts[t] EXCEPT !.pc = After(t)]
  <1>1. ts[t] \in Task
    BY DEF SameButHandles
  <1>2. /\ v \in Task /\ v.pc = After(t) /\ v.index = tasks[t].index
        /\ v.object = tasks[t].object /\ v.data = tasks[t].data /\ v.fd = ts[t].fd
    BY <1>1 DEF Task, SameButHandles
  <1>3. Advance(t, ts) = [ts EXCEPT ![t] = v]
    BY DEF Advance
  <1> HIDE DEF v
  <1>4. /\ Advance(t, ts) \in [Tasks -> Task] /\ Advance(t, ts)[t] = v
        /\ \A s \in Tasks : s # t => Advance(t, ts)[s] = ts[s]
    BY <1>2, <1>3 DEF SameButHandles
  <1> QED
    BY <1>2, <1>4 DEF Moves, SameButHandles

\* Another file handle, and perhaps other data, in the hands of the task that moves.
LEMMA HandleFacts ==
    ASSUME NEW t \in Tasks, NEW ts, NEW to, Moves(t, ts, to),
           NEW fd \in Files \cup {"closed", "unlinked"}, NEW data \in SUBSET Entry
    PROVE  LET new == [ts EXCEPT ![t] = [ts[t] EXCEPT !.fd = fd, !.data = data]] IN
           Moves(t, new, to) /\ new[t].fd = fd /\ new[t].data = data
  <1> DEFINE v == [ts[t] EXCEPT !.fd = fd, !.data = data]
             new == [ts EXCEPT ![t] = v]
  <1>1. ts[t] \in Task
    BY DEF Moves
  <1>2. /\ v \in Task /\ v.pc = ts[t].pc /\ v.index = ts[t].index /\ v.object = ts[t].object
        /\ v.fd = fd /\ v.data = data
    BY <1>1 DEF Task
  <1> HIDE DEF v
  <1>3. /\ new \in [Tasks -> Task] /\ new[t] = v /\ \A s \in Tasks : s # t => new[s] = ts[s]
    BY <1>2 DEF Moves
  <1> HIDE DEF new
  <1>4. Moves(t, new, to) /\ new[t].fd = fd /\ new[t].data = data
    BY <1>2, <1>3 DEF Moves
  <1> QED
    BY <1>4 DEF new, v

(***************************************************************************)
(* What a step of one task leaves alone.                                   *)
(***************************************************************************)

OthersRest(t) == \A s \in Tasks : s # t => tasks'[s].pc = tasks[s].pc

LEMMA TaskStep ==
    ASSUME SnapshotInv, NEW t \in Tasks, Busy(t), OthersRest(t),
           Busy(t)' => /\ TaskInv(t)' /\ (t = Local => LocalInv')
                       /\ (t # Local => InstallInv(t)')
    PROVE  TasksInv'
  <1>1. \A s \in Tasks : s # t => ~Busy(s)
    BY DEF SnapshotInv, TasksInv, OneTask
  <1>2. \A s \in Tasks : s # t => ~Busy(s)'
    BY <1>1 DEF OthersRest, Busy
  <1>3. Local \in Tasks /\ \A h \in Installers : h \in Tasks /\ h # Local
    BY TypeFacts DEF SnapshotInv
  <1>4. OneTask'
    BY <1>2 DEF OneTask
  <1>5. \A s \in Tasks : Busy(s)' => TaskInv(s)'
    BY <1>2
  <1>6. Busy(Local)' => LocalInv'
    BY <1>2, <1>3
  <1>7. \A h \in Installers : Busy(h)' => InstallInv(h)'
    BY <1>2, <1>3
  <1> QED
    BY <1>4, <1>5, <1>6, <1>7 DEF TasksInv

\* Steps on the files: the log and the apply thread go on as before.
LEMMA FileFrame ==
    ASSUME SnapshotInv, NEW t \in Tasks, Busy(t), OthersRest(t),
           UNCHANGED <<wal, memory, apply, restarts, forgot>>,
           tasks[t].pc \notin {"applied", "commit", "load_dedup"},
           tasks'[t].pc \notin {"applied", "commit", "load_dedup"},
           t # Local => tasks[t].pc # "truncate",
           meta' \in Nat, meta <= meta', TableOnDisk'
    PROVE  LogInv' /\ ApplyInv' /\ DedupInv'
  <1>1. UNCHANGED <<wal, commit_index, applied_index, last_snapshot_index, objects, dedup, apply,
                    restarts, forgot, Live>>
    BY DEF memory, Live
  <1>2. \A h \in Installers : h \in Tasks
    BY DEF Tasks
  <1>3. /\ \A h \in Installers : /\ tasks[h].pc \notin {"applied", "commit", "load_dedup"}
                                 /\ tasks'[h].pc \notin {"applied", "commit", "load_dedup"}
        /\ ~Swapping
    <2>1. ASSUME NEW h \in Installers
          PROVE  /\ tasks[h].pc \notin {"truncate", "applied", "commit", "load_dedup"}
                 /\ tasks'[h].pc \notin {"applied", "commit", "load_dedup"}
      <3>1. CASE h = t
        <4>1. t # Local
          BY <3>1, SnapshotAssumption
        <4> QED
          BY <3>1, <4>1
      <3>2. CASE h # t
        <4>1. ~Busy(h) /\ tasks'[h].pc = tasks[h].pc
          BY <1>2, <3>2 DEF SnapshotInv, TasksInv, OneTask, OthersRest
        <4> QED
          BY <4>1 DEF Busy
      <3> QED
        BY <3>1, <3>2
    <2> QED
      BY <2>1 DEF Swapping
  <1>4. meta \in Nat /\ applied_index \in Nat /\ apply.index \in Nat
    BY TypeFacts DEF SnapshotInv
  <1>6. /\ (meta' + 1)..applied_index \subseteq (meta + 1)..applied_index
        /\ (meta' + 1)..apply.index \subseteq (meta + 1)..apply.index
    BY <1>4, LaterRange
  <1>7. LogInv'
    <2>1. Reaches(applied_index)'
      BY <1>1, <1>3 DEF SnapshotInv, LogInv, Reaches, InstallReaches
    <2> QED
      BY <1>1, <1>3, <1>6, <2>1 DEF SnapshotInv, LogInv
  <1>8. ApplyInv'
    <2>1. apply.pc # "idle" => Reaches(apply.index)'
      BY <1>1, <1>3 DEF SnapshotInv, ApplyInv, Reaches, InstallReaches
    <2>9. TableFresh' => TableFresh
      BY <1>1, <1>3 DEF TableFresh
    <2> QED
      BY <1>1, <1>6, <2>1, <2>9 DEF SnapshotInv, ApplyInv
  <1>9. DedupInv'
    BY <1>1, <1>3 DEF SnapshotInv, DedupInv, TableFresh, TableInMemory
  <1> QED
    BY <1>7, <1>8, <1>9

\* The node still knows its snapshot.
LEMMA KnownFrame ==
    ASSUME SnapshotInv, NEW t \in Tasks, OthersRest(t),
           tasks[t].pc \in Finalized(t) => tasks'[t].pc \in Finalized(t),
           UNCHANGED <<meta, last_snapshot_index>>
    PROVE  (\A s \in Tasks : tasks'[s].pc \notin Finalized(s)) => meta' = last_snapshot_index'
  BY DEF SnapshotInv, DiskInv, OthersRest

\* dedup.bin is still the table of the snapshot.
LEMMA TableFrame ==
    ASSUME SnapshotInv, NEW t \in Tasks, OthersRest(t), UNCHANGED <<meta, forgot>>,
           disk'["dedup.bin"] = disk["dedup.bin"], tasks[t].pc # "dedup_rename",
           t = Local => /\ tasks[t].pc = "dedup_open" => tasks'[t].pc = "dedup_write"
                        /\ tasks[t].pc = "dedup_write" => tasks'[t].pc = "dedup_rename"
    PROVE  TableOnDisk'
  <1>1. Local \in Tasks /\ \A h \in Installers : h \in Tasks /\ h # Local
    BY TypeFacts DEF SnapshotInv
  <1>2. HalfSaved => HalfSaved'
    BY <1>1 DEF HalfSaved, OthersRest
  <1> QED
    BY <1>2 DEF SnapshotInv, DedupInv, TableOnDisk

\* What TaskInv and LocalInv say of memory, after a step on the files.
LEMMA MemoryFrame ==
    ASSUME SnapshotInv, NEW t \in Tasks, Busy(t), UNCHANGED <<wal, memory, apply>>,
           tasks'[t].index = tasks[t].index
    PROVE  /\ tasks'[t].index \in 1..MaxIndex /\ last_snapshot_index' <= tasks'[t].index
           /\ t = Local => /\ tasks'[t].index <= applied_index'
                           /\ apply'.pc # "idle" => tasks'[t].index <= apply'.index
  <1>1. TaskInv(t) /\ (t = Local => LocalInv)
    BY DEF SnapshotInv, TasksInv
  <1> QED
    BY <1>1 DEF TaskInv, LocalInv, memory

\* The type invariant, when a task has moved and files have changed.
LEMMA TypeFrame ==
    ASSUME NodeOK, NEW t \in Tasks, tasks' \in [Tasks -> Task], OthersRest(t),
           t = Local => tasks'[t].pc \in LocalSteps, t # Local => tasks'[t].pc \in InstallSteps,
           UNCHANGED <<running, wal, memory, apply, restarts, forgot>>,
           disk' \in [Files -> Contents], meta' \in 0..MaxIndex, meta_tmp' \in 0..MaxIndex
    PROVE  NodeOK'
  <1>1. Local \in Tasks /\ \A h \in Installers : h \in Tasks /\ h # Local
    BY TypeFacts
  <1>2. tasks'[Local].pc \in LocalSteps /\ \A h \in Installers : tasks'[h].pc \in InstallSteps
    BY <1>1 DEF OthersRest, NodeOK
  <1> QED
    BY <1>2 DEF NodeOK, memory

\* A crash at this instant would find the files in order.
SoundDisk ==
    /\ disk["snapshot.usearch"] # Torn /\ disk["dedup.bin"] # Torn
    /\ meta # 0 => Holds(disk["snapshot.usearch"], meta)

\* A step of one task on the files, which leaves snapshot.meta alone or moves it on.
LEMMA FileStepInv ==
    ASSUME SnapshotInv, NEW t \in Tasks, Busy(t), OthersRest(t), tasks' \in [Tasks -> Task],
           UNCHANGED <<running, wal, memory, apply, restarts, forgot>>,
           t = Local => tasks'[t].pc \in LocalSteps, t # Local => tasks'[t].pc \in InstallSteps,
           tasks[t].pc \notin {"applied", "commit", "load_dedup"},
           tasks'[t].pc \notin {"applied", "commit", "load_dedup"},
           t # Local => tasks[t].pc # "truncate",
           disk' \in [Files -> Contents], meta_tmp' \in 0..MaxIndex, SoundDisk', TableOnDisk',
           \/ meta' = meta /\ tasks[t].pc \notin Finalized(t)
           \/ meta' \in meta..MaxIndex /\ tasks'[t].pc \in Finalized(t),
           Busy(t)' => /\ TaskInv(t)' /\ (t = Local => LocalInv')
                       /\ (t # Local => InstallInv(t)')
    PROVE  SnapshotInv'
  <1>1. NodeOK /\ meta \in Nat /\ meta \in 0..MaxIndex /\ MaxIndex \in Nat
    BY TypeFacts DEF SnapshotInv, NodeOK
  <1>2. meta' \in 0..MaxIndex /\ meta' \in Nat /\ meta <= meta'
    BY <1>1
  <1>3. NodeOK'
    BY <1>1, <1>2, TypeFrame
  <1>4. TasksInv'
    BY TaskStep
  <1>5. DiskInv'
    <2>1. (\A s \in Tasks : tasks'[s].pc \notin Finalized(s)) => meta' = last_snapshot_index'
      <3>1. CASE tasks'[t].pc \in Finalized(t)
        BY <3>1
      <3>2. CASE ~(tasks'[t].pc \in Finalized(t))
        <4>1. UNCHANGED <<meta, last_snapshot_index>> /\ tasks[t].pc \notin Finalized(t)
          BY <3>2 DEF memory
        <4> QED
          BY <4>1, KnownFrame
      <3> QED
        BY <3>1, <3>2
    <2> QED
      BY <2>1 DEF SnapshotInv, DiskInv, SoundDisk
  <1>6. LogInv' /\ ApplyInv' /\ DedupInv'
    BY <1>2, FileFrame
  <1> QED
    BY <1>3, <1>4, <1>5, <1>6 DEF SnapshotInv

(***************************************************************************)
(* The steps on the files.                                                 *)
(***************************************************************************)

LEMMA StepsFacts ==
    ASSUME NodeOK, NEW t \in Tasks
    PROVE  /\ tasks[t].pc \in {"term", "clone", "publish"} => t = Local
           /\ tasks[t].pc \in {"load", "applied", "commit", "load_dedup", "done"} => t # Local
           /\ t # Local <=> t \in Installers
  BY TypeFacts DEF NodeOK, LocalSteps, InstallSteps

LEMMA WithoutFacts ==
    ASSUME NodeOK
    PROVE  LET new == WithoutFiles(TemporaryFiles) IN
           /\ new \in [Files -> Contents]
           /\ new["snapshot.usearch"] = disk["snapshot.usearch"]
           /\ new["dedup.bin"] = disk["dedup.bin"]
  BY DEF NodeOK, WithoutFiles, TemporaryFiles, Files, Contents

LEMMA InvInitialize == ASSUME SnapshotInv, NEW t \in Tasks, Initialize(t) PROVE SnapshotInv'
  <1>1. NodeOK /\ tasks[t].pc = "init" /\ Busy(t)
    BY DEF SnapshotInv, Initialize, At, Busy
  <1>2. After(t) = IF t = Local THEN "clone" ELSE "open"
    BY <1>1, AfterFacts DEF After
  <1>3. Moves(t, tasks', After(t)) /\ \A s \in Tasks : tasks'[s].data = tasks[s].data
    <2>1. SameButHandles(Unlink(TemporaryFiles))
      BY <1>1, UnlinkFacts
    <2>2. After(t) \in LocalSteps \cup InstallSteps
      BY <1>2 DEF LocalSteps, InstallSteps
    <2>3. tasks' = Advance(t, Unlink(TemporaryFiles))
      BY DEF Initialize
    <2> QED
      BY <1>1, <2>1, <2>2, <2>3, AdvanceFacts
  <1>4. /\ tasks' \in [Tasks -> Task] /\ OthersRest(t) /\ tasks'[t].index = tasks[t].index
        /\ tasks'[t].object = tasks[t].object /\ tasks'[t].data = tasks[t].data
        /\ tasks'[t].pc = IF t = Local THEN "clone" ELSE "open"
    BY <1>2, <1>3 DEF Moves, OthersRest
  <1>5. /\ disk' \in [Files -> Contents]
        /\ disk'["snapshot.usearch"] = disk["snapshot.usearch"]
        /\ disk'["dedup.bin"] = disk["dedup.bin"]
    BY <1>1, WithoutFacts DEF Initialize
  <1>6. UNCHANGED <<running, wal, memory, apply, meta, restarts, forgot>> /\ meta_tmp' = 0
    BY DEF Initialize
  <1>7. UNCHANGED <<objects, last_snapshot_index>> /\ meta \in Nat /\ MaxIndex \in Nat
    BY <1>1, <1>6, TypeFacts DEF memory
  <1>8. (t = Local => tasks'[t].pc \in LocalSteps) /\ (t # Local => tasks'[t].pc \in InstallSteps)
    BY <1>4 DEF LocalSteps, InstallSteps
  <1>9. /\ tasks'[t].index \in 1..MaxIndex /\ last_snapshot_index' <= tasks'[t].index
        /\ t = Local => /\ tasks'[t].index <= applied_index'
                        /\ apply'.pc # "idle" => tasks'[t].index <= apply'.index
    BY <1>1, <1>4, <1>6, MemoryFrame
  <1>10. TaskInv(t) /\ (t = Local => LocalInv) /\ (t # Local => InstallInv(t))
    BY <1>1, StepsFacts DEF SnapshotInv, TasksInv
  <1>11. t # Local => 1..tasks'[t].index \subseteq tasks'[t].data
    BY <1>1, <1>4, <1>10 DEF InstallInv
  <1>12. TaskInv(t)'
    BY <1>4, <1>6, <1>9, <1>10, <1>11 DEF TaskInv, FileReady, TableReady, Finalized
  <1>13. t = Local => LocalInv'
    BY <1>1, <1>4, <1>7, <1>9, <1>10 DEF LocalInv
  <1>14. t # Local => InstallInv(t)'
    BY <1>4, <1>9 DEF InstallInv
  <1>15. /\ tasks[t].pc \notin {"applied", "commit", "load_dedup"}
         /\ tasks'[t].pc \notin {"applied", "commit", "load_dedup"}
         /\ tasks[t].pc \notin Finalized(t) /\ meta_tmp' \in 0..MaxIndex
    BY <1>1, <1>4, <1>6, <1>7 DEF Finalized
  <1>16. SoundDisk'
    BY <1>5, <1>6 DEF SnapshotInv, DiskInv, SoundDisk
  <1>17. TableOnDisk'
    BY <1>1, <1>4, <1>5, <1>6, TableFrame
  <1> QED
    BY <1>1, <1>4, <1>5, <1>6, <1>8, <1>12, <1>13, <1>14, <1>15, <1>16, <1>17, FileStepInv

\* What the invariant says of a task that is under way.
LEMMA BusyFacts ==
    ASSUME SnapshotInv, NEW t \in Tasks, Busy(t)
    PROVE  /\ NodeOK /\ meta \in Nat /\ meta \in 0..MaxIndex /\ meta_tmp \in 0..MaxIndex
           /\ MaxIndex \in Nat /\ tasks[t].index \in Nat /\ tasks[t].index \in 1..MaxIndex
           /\ meta <= tasks[t].index /\ disk \in [Files -> Contents] /\ SoundDisk
           /\ TaskInv(t) /\ (t = Local => LocalInv) /\ (t # Local => InstallInv(t))
  <1>1. NodeOK
    BY DEF SnapshotInv
  <1>2. TaskInv(t) /\ (t = Local => LocalInv) /\ (t # Local => InstallInv(t))
    BY <1>1, StepsFacts DEF SnapshotInv, TasksInv
  <1>3. /\ meta \in 0..MaxIndex /\ meta_tmp \in 0..MaxIndex /\ disk \in [Files -> Contents]
        /\ meta \in Nat /\ MaxIndex \in Nat /\ tasks[t].index \in Nat
    BY <1>1, TypeFacts DEF NodeOK
  <1>4. SoundDisk
    BY DEF SnapshotInv, DiskInv, SoundDisk
  <1> QED
    BY <1>1, <1>2, <1>3, <1>4 DEF TaskInv

\* A new file handle in the hands of the task that moves.
LEMMA FdFacts ==
    ASSUME NEW t \in Tasks, NEW ts, NEW to, Moves(t, ts, to),
           NEW fd \in Files \cup {"closed", "unlinked"}
    PROVE  LET new == [ts EXCEPT ![t].fd = fd] IN
           Moves(t, new, to) /\ new[t].fd = fd /\ new[t].data = ts[t].data
  <1> DEFINE v == [ts[t] EXCEPT !.fd = fd]
             new == [ts EXCEPT ![t] = v]
  <1>1. ts[t] \in Task
    BY DEF Moves
  <1>2. /\ v \in Task /\ v.pc = ts[t].pc /\ v.index = ts[t].index /\ v.object = ts[t].object
        /\ v.fd = fd /\ v.data = ts[t].data
    BY <1>1 DEF Task
  <1> HIDE DEF v
  <1>3. /\ new \in [Tasks -> Task] /\ new[t] = v /\ \A s \in Tasks : s # t => new[s] = ts[s]
    BY <1>2 DEF Moves
  <1> HIDE DEF new
  <1>4. Moves(t, new, to) /\ new[t].fd = fd /\ new[t].data = ts[t].data
    BY <1>2, <1>3 DEF Moves
  <1> QED
    BY <1>4 DEF new, v

\* New data in the hands of the task that moves.
LEMMA DataFacts ==
    ASSUME NEW t \in Tasks, NEW ts, NEW to, Moves(t, ts, to), NEW data \in SUBSET Entry
    PROVE  LET new == [ts EXCEPT ![t].data = data] IN
           Moves(t, new, to) /\ new[t].fd = ts[t].fd /\ new[t].data = data
  <1> DEFINE v == [ts[t] EXCEPT !.data = data]
             new == [ts EXCEPT ![t] = v]
  <1>1. ts[t] \in Task
    BY DEF Moves
  <1>2. /\ v \in Task /\ v.pc = ts[t].pc /\ v.index = ts[t].index /\ v.object = ts[t].object
        /\ v.fd = ts[t].fd /\ v.data = data
    BY <1>1 DEF Task
  <1> HIDE DEF v
  <1>3. /\ new \in [Tasks -> Task] /\ new[t] = v /\ \A s \in Tasks : s # t => new[s] = ts[s]
    BY <1>2 DEF Moves
  <1> HIDE DEF new
  <1>4. Moves(t, new, to) /\ new[t].fd = ts[t].fd /\ new[t].data = data
    BY <1>2, <1>3 DEF Moves
  <1> QED
    BY <1>4 DEF new, v

LEMMA SameTasks == ASSUME NodeOK PROVE SameButHandles(tasks)
  BY DEF NodeOK, SameButHandles

\* One file gets other content.
LEMMA DiskFacts ==
    ASSUME NodeOK, NEW name \in Files, NEW data \in Contents
    PROVE  LET new == [disk EXCEPT ![name] = data] IN
           /\ new \in [Files -> Contents] /\ new[name] = data
           /\ \A f \in Files : f # name => new[f] = disk[f]
  BY DEF NodeOK

LEMMA RenamedFacts ==
    ASSUME NodeOK, NEW from \in Files, NEW to \in Files, from # to
    PROVE  LET new == WithRenamed(from, to) IN
           /\ new \in [Files -> Contents] /\ new[to] = disk[from] /\ new[from] = Missing
           /\ \A f \in Files : f \notin {from, to} => new[f] = disk[f]
  <1>1. disk[from] \in Contents /\ Missing \in Contents
    BY DEF NodeOK, Contents
  <1> QED
    BY <1>1 DEF NodeOK, WithRenamed

LEMMA InvOpenSnapshot == ASSUME SnapshotInv, NEW t \in Tasks, OpenSnapshot(t) PROVE SnapshotInv'
  <1>1. NodeOK /\ tasks[t].pc = "open" /\ Busy(t)
    BY DEF SnapshotInv, OpenSnapshot, At, Busy
  <1>2. After(t) = "write" /\ After(t) \in LocalSteps \cup InstallSteps
    BY <1>1, AfterFacts DEF After, LocalSteps
  <1> DEFINE ts == IF t = Local THEN Unlink({"snapshot.tmp"}) ELSE tasks
  <1>3. SameButHandles(ts)
    BY <1>1, SameTasks, UnlinkFacts
  <1>4. tasks' = [Advance(t, ts) EXCEPT ![t].fd = "snapshot.tmp"]
    BY DEF OpenSnapshot
  <1> HIDE DEF ts
  <1>5. Moves(t, Advance(t, ts), After(t)) /\ Advance(t, ts)[t].data = tasks[t].data
    BY <1>1, <1>2, <1>3, AdvanceFacts
  <1>6. /\ Moves(t, tasks', "write") /\ tasks'[t].fd = "snapshot.tmp"
        /\ tasks'[t].data = tasks[t].data
    <2>1. "snapshot.tmp" \in Files \cup {"closed", "unlinked"}
      BY DEF Files
    <2> QED
      BY <1>2, <1>4, <1>5, <2>1, FdFacts
  <1>7. /\ tasks' \in [Tasks -> Task] /\ OthersRest(t) /\ tasks'[t].index = tasks[t].index
        /\ tasks'[t].pc = "write"
    BY <1>6 DEF Moves, OthersRest
  <1>8. /\ disk' \in [Files -> Contents]
        /\ disk'["snapshot.usearch"] = disk["snapshot.usearch"]
        /\ disk'["dedup.bin"] = disk["dedup.bin"]
    <2>1. disk' = [disk EXCEPT !["snapshot.tmp"] = Torn] /\ Torn \in Contents
      BY DEF OpenSnapshot, Contents
    <2> QED
      BY <1>1, <2>1, DiskFacts DEF Files
  <1>9. UNCHANGED <<running, wal, memory, apply, meta, meta_tmp, restarts, forgot>>
    BY DEF OpenSnapshot
  <1>10. /\ tasks'[t].index \in 1..MaxIndex /\ last_snapshot_index' <= tasks'[t].index
         /\ t = Local => /\ tasks'[t].index <= applied_index'
                         /\ apply'.pc # "idle" => tasks'[t].index <= apply'.index
    BY <1>1, <1>7, <1>9, MemoryFrame
  <1>11. 1..tasks'[t].index \subseteq tasks'[t].data /\ meta' <= tasks'[t].index
    BY <1>1, <1>6, <1>7, <1>9, BusyFacts DEF TaskInv
  <1>12. TaskInv(t)'
    BY <1>6, <1>7, <1>10, <1>11 DEF TaskInv, FileReady, TableReady, Finalized
  <1>13. (t = Local => LocalInv') /\ (t # Local => InstallInv(t)')
    BY <1>7, <1>10 DEF InstallInv, LocalInv
  <1>14. /\ tasks[t].pc \notin {"applied", "commit", "load_dedup"}
         /\ tasks'[t].pc \notin {"applied", "commit", "load_dedup"}
         /\ tasks[t].pc \notin Finalized(t) /\ meta_tmp' \in 0..MaxIndex
         /\ tasks'[t].pc \in LocalSteps /\ tasks'[t].pc \in InstallSteps
    BY <1>1, <1>7, <1>9, BusyFacts DEF Finalized, LocalSteps, InstallSteps
  <1>15. SoundDisk'
    BY <1>1, <1>8, <1>9, BusyFacts DEF SoundDisk
  <1>16. TableOnDisk'
    BY <1>1, <1>7, <1>8, <1>9, TableFrame
  <1> QED
    BY <1>1, <1>7, <1>8, <1>9, <1>12, <1>13, <1>14, <1>15, <1>16, FileStepInv

LEMMA InvWriteFile == ASSUME SnapshotInv, NEW t \in Tasks, WriteFile(t) PROVE SnapshotInv'
  <1>1. NodeOK /\ tasks[t].pc \in {"write", "dedup_write"} /\ Busy(t)
    BY DEF SnapshotInv, WriteFile, Busy
  <1>2. /\ tasks[t].pc = "write" => After(t) = IF t = Local THEN "term" ELSE "dedup_open"
        /\ tasks[t].pc = "dedup_write" => After(t) = IF t = Local THEN "dedup_rename" ELSE "check"
        /\ After(t) \in LocalSteps \cup InstallSteps
    BY <1>1, AfterFacts DEF After, LocalSteps, InstallSteps
  <1>3. Moves(t, Advance(t, tasks), After(t)) /\ Advance(t, tasks)[t].data = tasks[t].data
    BY <1>1, <1>2, SameTasks, AdvanceFacts
  <1>4. Moves(t, tasks', After(t)) /\ tasks'[t].data = tasks[t].data
    <2>1. "closed" \in Files \cup {"closed", "unlinked"}
      OBVIOUS
    <2>2. tasks' = [Advance(t, tasks) EXCEPT ![t].fd = "closed"]
      BY DEF WriteFile
    <2> QED
      BY <1>3, <2>1, <2>2, FdFacts
  <1>5. /\ tasks' \in [Tasks -> Task] /\ OthersRest(t) /\ tasks'[t].index = tasks[t].index
        /\ tasks'[t].pc = After(t)
    BY <1>4 DEF Moves, OthersRest
  <1>6. UNCHANGED <<running, wal, memory, apply, meta, meta_tmp, restarts, forgot>>
    BY DEF WriteFile
  <1>7. /\ tasks'[t].index \in 1..MaxIndex /\ last_snapshot_index' <= tasks'[t].index
        /\ t = Local => /\ tasks'[t].index <= applied_index'
                        /\ apply'.pc # "idle" => tasks'[t].index <= apply'.index
    BY <1>1, <1>5, <1>6, MemoryFrame
  <1>8. TaskInv(t) /\ (t # Local => InstallInv(t)) /\ meta' <= tasks'[t].index
    BY <1>1, <1>5, <1>6, BusyFacts
  <1>9. tasks[t].data \in SUBSET Entry /\ tasks[t].data \in Contents
    BY <1>1, TypeFacts DEF Contents
  <1>10. /\ disk' \in [Files -> Contents]
         /\ disk'[tasks[t].fd] = tasks[t].data
         /\ \A f \in Files : f # tasks[t].fd => disk'[f] = disk[f]
         /\ tasks[t].fd = IF tasks[t].pc = "write" THEN "snapshot.tmp" ELSE "dedup.bin.tmp"
    <2>1. tasks[t].fd = IF tasks[t].pc = "write" THEN "snapshot.tmp" ELSE "dedup.bin.tmp"
      BY <1>1, <1>8 DEF TaskInv
    <2>2. tasks[t].fd \in Files
      BY <2>1 DEF Files
    <2>3. disk' = [disk EXCEPT ![tasks[t].fd] = tasks[t].data]
      BY <2>2 DEF WriteFile
    <2> QED
      BY <1>1, <1>9, <2>1, <2>2, <2>3, DiskFacts
  <1>11. /\ disk'["snapshot.usearch"] = disk["snapshot.usearch"]
         /\ disk'["dedup.bin"] = disk["dedup.bin"]
    BY <1>10 DEF Files
  <1>12. SoundDisk'
    BY <1>1, <1>6, <1>11, BusyFacts DEF SoundDisk
  <1>15. TableOnDisk'
    BY <1>1, <1>2, <1>5, <1>6, <1>11, TableFrame
  <1>13. CASE tasks[t].pc = "write"
    <2>1. tasks'[t].pc = IF t = Local THEN "term" ELSE "dedup_open"
      BY <1>2, <1>5, <1>13
    <2>2. 1..tasks'[t].index \subseteq tasks'[t].data
      BY <1>4, <1>5, <1>8, <1>13 DEF TaskInv
    <2>3. Holds(disk'["snapshot.tmp"], tasks'[t].index)
      BY <1>4, <1>9, <1>10, <1>13, <2>2 DEF Holds
    <2>4. TaskInv(t)'
      BY <1>7, <1>8, <2>1, <2>2, <2>3 DEF TaskInv, FileReady, TableReady, Finalized
    <2>5. (t = Local => LocalInv') /\ (t # Local => InstallInv(t)')
      BY <1>7, <2>1, <2>2 DEF InstallInv, LocalInv
    <2>6. /\ tasks[t].pc \notin {"applied", "commit", "load_dedup"}
          /\ tasks'[t].pc \notin {"applied", "commit", "load_dedup"}
          /\ tasks[t].pc \notin Finalized(t) /\ meta_tmp' \in 0..MaxIndex
          /\ t = Local => tasks'[t].pc \in LocalSteps
          /\ t # Local => tasks'[t].pc \in InstallSteps
      BY <1>1, <1>6, <1>13, <2>1, BusyFacts DEF Finalized, LocalSteps, InstallSteps
    <2> QED
      BY <1>1, <1>5, <1>6, <1>10, <1>12, <1>13, <1>15, <2>4, <2>5, <2>6, FileStepInv
  <1>14. CASE tasks[t].pc = "dedup_write"
    <2>1. tasks'[t].pc = IF t = Local THEN "dedup_rename" ELSE "check"
      BY <1>2, <1>5, <1>14
    <2>2. disk'["dedup.bin.tmp"] = tasks[t].data /\ disk'["snapshot.tmp"] = disk["snapshot.tmp"]
      BY <1>10, <1>14 DEF Files
    <2>3. (t = Local => ~forgot) => 1..tasks'[t].index \subseteq tasks[t].data
      BY <1>1, <1>5, <1>8, <1>14, BusyFacts DEF InstallInv, LocalInv
    <2>4. t # Local => Holds(disk'["snapshot.tmp"], tasks'[t].index)
      BY <1>5, <1>8, <1>14, <2>2 DEF TaskInv, FileReady
    <2>5. Holds(disk'["dedup.bin.tmp"], IF t = Local /\ forgot' THEN 0 ELSE tasks'[t].index)
      BY <1>6, <1>9, <2>2, <2>3 DEF Holds
    <2>6. t = Local => meta' = tasks'[t].index
      BY <1>5, <1>6, <1>8, <1>14 DEF TaskInv, Finalized
    <2>7. TaskInv(t)'
      BY <1>7, <1>8, <2>1, <2>4, <2>5, <2>6 DEF TaskInv, FileReady, TableReady, Finalized
    <2>8. (t = Local => LocalInv') /\ (t # Local => InstallInv(t)')
      BY <1>7, <2>1 DEF InstallInv, LocalInv
    <2>9. /\ tasks[t].pc \notin {"applied", "commit", "load_dedup"}
          /\ tasks'[t].pc \notin {"applied", "commit", "load_dedup"}
          /\ meta_tmp' \in 0..MaxIndex
          /\ t = Local => tasks'[t].pc \in LocalSteps
          /\ t # Local => tasks'[t].pc \in InstallSteps
      BY <1>1, <1>6, <1>14, <2>1, BusyFacts DEF LocalSteps, InstallSteps
    <2>10. \/ meta' = meta /\ tasks[t].pc \notin Finalized(t)
           \/ meta' \in meta..MaxIndex /\ tasks'[t].pc \in Finalized(t)
      BY <1>1, <1>6, <1>14, <2>1, BusyFacts DEF Finalized
    <2> QED
      BY <1>1, <1>5, <1>6, <1>10, <1>12, <1>14, <1>15, <2>7, <2>8, <2>9, <2>10, FileStepInv
  <1> QED
    BY <1>1, <1>13, <1>14

LEMMA InvOpenDedup == ASSUME SnapshotInv, NEW t \in Tasks, OpenDedup(t) PROVE SnapshotInv'
  <1>1. NodeOK /\ tasks[t].pc = "dedup_open" /\ Busy(t)
    BY DEF SnapshotInv, OpenDedup, At, Busy
  <1>2. After(t) = "dedup_write" /\ After(t) \in LocalSteps \cup InstallSteps
    BY <1>1, AfterFacts DEF After, LocalSteps
  <1> DEFINE ts == Advance(t, tasks)
             opened == [ts EXCEPT ![t].fd = "dedup.bin.tmp"]
             data == IF t = Local THEN dedup ELSE tasks[t].data
  <1>3. Moves(t, ts, After(t)) /\ ts[t].data = tasks[t].data
    BY <1>1, <1>2, SameTasks, AdvanceFacts
  <1>4. Moves(t, opened, After(t)) /\ opened[t].fd = "dedup.bin.tmp" /\ opened[t].data = tasks[t].data
    <2> HIDE DEF ts
    <2>1. "dedup.bin.tmp" \in Files \cup {"closed", "unlinked"}
      BY DEF Files
    <2> QED
      BY <1>3, <2>1, FdFacts
  <1>5. data \in SUBSET Entry
    BY <1>1, TypeFacts DEF NodeOK
  <1>6. tasks' = [opened EXCEPT ![t].data = data]
    <2>1. tasks' = [opened EXCEPT ![t].data = IF t = Local THEN dedup ELSE opened[t].data]
      BY DEF OpenDedup
    <2> QED
      BY <1>4, <2>1
  <1> HIDE DEF ts, opened, data
  <1>7. Moves(t, tasks', "dedup_write") /\ tasks'[t].fd = "dedup.bin.tmp" /\ tasks'[t].data = data
    BY <1>2, <1>4, <1>5, <1>6, DataFacts
  <1>8. /\ tasks' \in [Tasks -> Task] /\ OthersRest(t) /\ tasks'[t].index = tasks[t].index
        /\ tasks'[t].pc = "dedup_write"
    BY <1>7 DEF Moves, OthersRest
  <1>9. /\ disk' \in [Files -> Contents]
        /\ disk'["snapshot.usearch"] = disk["snapshot.usearch"]
        /\ disk'["dedup.bin"] = disk["dedup.bin"]
        /\ disk'["snapshot.tmp"] = disk["snapshot.tmp"]
    <2>1. disk' = [disk EXCEPT !["dedup.bin.tmp"] = Torn] /\ Torn \in Contents
      BY DEF OpenDedup, Contents
    <2> QED
      BY <1>1, <2>1, DiskFacts DEF Files
  <1>10. UNCHANGED <<running, wal, memory, apply, meta, meta_tmp, restarts, forgot>>
    BY DEF OpenDedup
  <1>11. /\ tasks'[t].index \in 1..MaxIndex /\ last_snapshot_index' <= tasks'[t].index
         /\ t = Local => /\ tasks'[t].index <= applied_index'
                         /\ apply'.pc # "idle" => tasks'[t].index <= apply'.index
    BY <1>1, <1>8, <1>10, MemoryFrame
  <1>12. TaskInv(t) /\ (t # Local => InstallInv(t)) /\ meta' <= tasks'[t].index
    BY <1>1, <1>8, <1>10, BusyFacts
  <1>13. t # Local => /\ 1..tasks'[t].index \subseteq tasks'[t].data
                      /\ Holds(disk'["snapshot.tmp"], tasks'[t].index)
    BY <1>1, <1>7, <1>8, <1>9, <1>12 DEF InstallInv, TaskInv, FileReady, data
  <1>14. t = Local => meta' = tasks'[t].index
    BY <1>1, <1>8, <1>10, <1>12 DEF TaskInv, Finalized
  <1>15. TaskInv(t)'
    BY <1>7, <1>8, <1>11, <1>12, <1>13, <1>14 DEF TaskInv, FileReady, TableReady, Finalized
  <1>16. (t = Local => LocalInv') /\ (t # Local => InstallInv(t)')
    <2>1. (t = Local /\ ~forgot) => 1..tasks'[t].index \subseteq tasks'[t].data
      <3> SUFFICES ASSUME t = Local, ~forgot PROVE 1..tasks'[t].index \subseteq tasks'[t].data
        OBVIOUS
      <3>1. \A h \in Installers : tasks[h].pc \notin {"commit", "load_dedup"}
        <4> SUFFICES ASSUME NEW h \in Installers PROVE tasks[h].pc \notin {"commit", "load_dedup"}
          OBVIOUS
        <4>1. h \in Tasks /\ h # t
          BY SnapshotAssumption DEF Tasks
        <4> QED
          BY <1>1, <4>1 DEF SnapshotInv, TasksInv, OneTask, Busy
      <3>2. 1..applied_index \subseteq dedup
        BY <3>1 DEF SnapshotInv, DedupInv, TableFresh, TableInMemory
      <3>3. tasks'[t].index <= applied_index /\ applied_index \in Nat /\ tasks'[t].index \in Nat
        BY <1>1, <1>8, <1>10, <1>11, BusyFacts, TypeFacts DEF memory
      <3>4. 1..tasks'[t].index \subseteq 1..applied_index
        BY <3>3
      <3> QED
        BY <1>7, <3>2, <3>4 DEF data
    <2> QED
      BY <1>8, <1>10, <1>11, <1>13, <2>1 DEF InstallInv, LocalInv
  <1>17. /\ tasks[t].pc \notin {"applied", "commit", "load_dedup"}
         /\ tasks'[t].pc \notin {"applied", "commit", "load_dedup"}
         /\ meta_tmp' \in 0..MaxIndex
         /\ tasks'[t].pc \in LocalSteps /\ tasks'[t].pc \in InstallSteps
    BY <1>1, <1>8, <1>10, BusyFacts DEF LocalSteps, InstallSteps
  <1>18. \/ meta' = meta /\ tasks[t].pc \notin Finalized(t)
         \/ meta' \in meta..MaxIndex /\ tasks'[t].pc \in Finalized(t)
    BY <1>1, <1>8, <1>10, BusyFacts DEF Finalized
  <1>19. SoundDisk'
    BY <1>1, <1>9, <1>10, BusyFacts DEF SoundDisk
  <1>20. TableOnDisk'
    BY <1>1, <1>8, <1>9, <1>10, TableFrame
  <1> QED
    BY <1>1, <1>8, <1>9, <1>10, <1>15, <1>16, <1>17, <1>18, <1>19, <1>20, FileStepInv

LEMMA InvFinalizeCheck == ASSUME SnapshotInv, NEW t \in Tasks, FinalizeCheck(t) PROVE SnapshotInv'
  <1>1. NodeOK /\ tasks[t].pc = "check" /\ Busy(t)
    BY DEF SnapshotInv, FinalizeCheck, At, Busy
  <1>2. After(t) = "file" /\ After(t) \in LocalSteps \cup InstallSteps
    BY <1>1, AfterFacts DEF After, LocalSteps
  <1>3. TaskInv(t) /\ (t # Local => InstallInv(t))
    BY <1>1, BusyFacts
  <1>4. Holds(disk["snapshot.tmp"], tasks[t].index)
    BY <1>1, <1>3 DEF TaskInv, FileReady
  <1>5. t # Local => Holds(disk["dedup.bin.tmp"], tasks[t].index)
    BY <1>1, <1>3 DEF TaskInv, TableReady
  <1>6. disk["snapshot.tmp"] # Missing
    BY <1>4, HoldsFacts
  <1>7. /\ meta_tmp' = tasks[t].index /\ tasks' = Advance(t, tasks) /\ disk' = disk
        /\ UNCHANGED <<running, wal, memory, apply, meta, restarts, forgot>>
    BY <1>6 DEF FinalizeCheck
  <1>8. Moves(t, tasks', After(t))
    BY <1>1, <1>2, <1>7, SameTasks, AdvanceFacts
  <1>9. /\ tasks' \in [Tasks -> Task] /\ OthersRest(t) /\ tasks'[t].index = tasks[t].index
        /\ tasks'[t].pc = "file"
    BY <1>2, <1>8 DEF Moves, OthersRest
  <1>10. /\ tasks'[t].index \in 1..MaxIndex /\ last_snapshot_index' <= tasks'[t].index
         /\ t = Local => /\ tasks'[t].index <= applied_index'
                         /\ apply'.pc # "idle" => tasks'[t].index <= apply'.index
    BY <1>1, <1>7, <1>9, MemoryFrame
  <1>11. meta' <= tasks'[t].index /\ meta_tmp' \in 0..MaxIndex /\ disk' \in [Files -> Contents]
    BY <1>1, <1>7, <1>9, BusyFacts
  <1>12. TaskInv(t)'
    BY <1>4, <1>5, <1>7, <1>9, <1>10, <1>11 DEF TaskInv, FileReady, TableReady, Finalized
  <1>13. (t = Local => LocalInv') /\ (t # Local => InstallInv(t)')
    BY <1>9, <1>10 DEF InstallInv, LocalInv
  <1>14. /\ tasks[t].pc \notin {"applied", "commit", "load_dedup"}
         /\ tasks'[t].pc \notin {"applied", "commit", "load_dedup"}
         /\ tasks[t].pc \notin Finalized(t)
         /\ tasks'[t].pc \in LocalSteps /\ tasks'[t].pc \in InstallSteps
    BY <1>1, <1>9 DEF Finalized, LocalSteps, InstallSteps
  <1>15. SoundDisk'
    BY <1>1, <1>7, BusyFacts DEF SoundDisk
  <1>16. TableOnDisk'
    BY <1>1, <1>7, <1>9, TableFrame
  <1> QED
    BY <1>1, <1>7, <1>9, <1>11, <1>12, <1>13, <1>14, <1>15, <1>16, FileStepInv

LEMMA InvFinalizeFile == ASSUME SnapshotInv, NEW t \in Tasks, FinalizeFile(t) PROVE SnapshotInv'
  <1>1. NodeOK /\ tasks[t].pc = "file" /\ Busy(t)
    BY DEF SnapshotInv, FinalizeFile, At, Busy
  <1>2. After(t) = "meta" /\ After(t) \in LocalSteps \cup InstallSteps
    BY <1>1, AfterFacts DEF After, LocalSteps
  <1>3. TaskInv(t) /\ (t # Local => InstallInv(t))
    BY <1>1, BusyFacts
  <1>4. Holds(disk["snapshot.tmp"], tasks[t].index) /\ meta_tmp = tasks[t].index
    BY <1>1, <1>3 DEF TaskInv, FileReady
  <1>5. t # Local => Holds(disk["dedup.bin.tmp"], tasks[t].index)
    BY <1>1, <1>3 DEF TaskInv, TableReady
  <1>6. disk["snapshot.tmp"] # Missing /\ disk["snapshot.tmp"] # Torn
    BY <1>4, HoldsFacts
  <1>7. /\ tasks' = Advance(t, RenameHandles("snapshot.tmp", "snapshot.usearch"))
        /\ disk' = WithRenamed("snapshot.tmp", "snapshot.usearch")
        /\ UNCHANGED <<running, wal, memory, apply, meta, meta_tmp, restarts, forgot>>
    BY <1>6 DEF FinalizeFile
  <1>8. Moves(t, tasks', After(t))
    <2>1. SameButHandles(RenameHandles("snapshot.tmp", "snapshot.usearch"))
      BY <1>1, RenameFacts DEF Files
    <2> QED
      BY <1>1, <1>2, <1>7, <2>1, AdvanceFacts
  <1>9. /\ tasks' \in [Tasks -> Task] /\ OthersRest(t) /\ tasks'[t].index = tasks[t].index
        /\ tasks'[t].pc = "meta"
    BY <1>2, <1>8 DEF Moves, OthersRest
  <1>10. /\ disk' \in [Files -> Contents] /\ disk'["snapshot.usearch"] = disk["snapshot.tmp"]
         /\ disk'["dedup.bin"] = disk["dedup.bin"]
         /\ disk'["dedup.bin.tmp"] = disk["dedup.bin.tmp"]
    BY <1>1, <1>7, RenamedFacts DEF Files
  <1>11. /\ tasks'[t].index \in 1..MaxIndex /\ last_snapshot_index' <= tasks'[t].index
         /\ t = Local => /\ tasks'[t].index <= applied_index'
                         /\ apply'.pc # "idle" => tasks'[t].index <= apply'.index
    BY <1>1, <1>7, <1>9, MemoryFrame
  <1>12. meta' <= tasks'[t].index /\ meta_tmp' \in 0..MaxIndex
    BY <1>1, <1>7, <1>9, BusyFacts
  <1>13. TaskInv(t)'
    BY <1>4, <1>5, <1>7, <1>9, <1>10, <1>11, <1>12 DEF TaskInv, FileReady, TableReady, Finalized
  <1>14. (t = Local => LocalInv') /\ (t # Local => InstallInv(t)')
    BY <1>9, <1>11 DEF InstallInv, LocalInv
  <1>15. /\ tasks[t].pc \notin {"applied", "commit", "load_dedup"}
         /\ tasks'[t].pc \notin {"applied", "commit", "load_dedup"}
         /\ tasks[t].pc \notin Finalized(t)
         /\ tasks'[t].pc \in LocalSteps /\ tasks'[t].pc \in InstallSteps
    BY <1>1, <1>9 DEF Finalized, LocalSteps, InstallSteps
  <1>16. SoundDisk'
    <2>1. Holds(disk["snapshot.tmp"], meta)
      BY <1>1, <1>4, BusyFacts, HoldsFewer
    <2> QED
      BY <1>1, <1>6, <1>7, <1>10, <2>1, BusyFacts DEF SoundDisk
  <1>17. TableOnDisk'
    BY <1>1, <1>7, <1>9, <1>10, TableFrame
  <1> QED
    BY <1>1, <1>7, <1>9, <1>10, <1>12, <1>13, <1>14, <1>15, <1>16, <1>17, FileStepInv

LEMMA InvFinalizeMeta == ASSUME SnapshotInv, NEW t \in Tasks, FinalizeMeta(t) PROVE SnapshotInv'
  <1>1. NodeOK /\ tasks[t].pc = "meta" /\ Busy(t)
    BY DEF SnapshotInv, FinalizeMeta, At, Busy
  <1>2. /\ After(t) = IF t = Local THEN "dedup_open" ELSE "dedup_rename"
        /\ After(t) \in LocalSteps \cup InstallSteps
    BY <1>1, AfterFacts DEF After, LocalSteps
  <1>3. TaskInv(t) /\ (t # Local => InstallInv(t))
    BY <1>1, BusyFacts
  <1>4. Holds(disk["snapshot.usearch"], tasks[t].index) /\ meta_tmp = tasks[t].index
    BY <1>1, <1>3 DEF TaskInv
  <1>5. t # Local => Holds(disk["dedup.bin.tmp"], tasks[t].index)
    BY <1>1, <1>3 DEF TaskInv, TableReady
  <1>6. meta_tmp # 0 /\ meta_tmp \in meta..MaxIndex
    BY <1>1, <1>4, BusyFacts
  <1>7. /\ tasks' = Advance(t, tasks) /\ disk' = disk /\ meta' = meta_tmp /\ meta_tmp' = 0
        /\ UNCHANGED <<running, wal, memory, apply, restarts, forgot>>
    BY <1>6 DEF FinalizeMeta
  <1>8. Moves(t, tasks', After(t))
    BY <1>1, <1>2, <1>7, SameTasks, AdvanceFacts
  <1>9. /\ tasks' \in [Tasks -> Task] /\ OthersRest(t) /\ tasks'[t].index = tasks[t].index
        /\ tasks'[t].pc = IF t = Local THEN "dedup_open" ELSE "dedup_rename"
    BY <1>2, <1>8 DEF Moves, OthersRest
  <1>10. /\ tasks'[t].index \in 1..MaxIndex /\ last_snapshot_index' <= tasks'[t].index
         /\ t = Local => /\ tasks'[t].index <= applied_index'
                         /\ apply'.pc # "idle" => tasks'[t].index <= apply'.index
    BY <1>1, <1>7, <1>9, MemoryFrame
  <1>11. /\ meta' = tasks'[t].index /\ meta' <= tasks'[t].index /\ meta_tmp' \in 0..MaxIndex
         /\ disk' \in [Files -> Contents]
    BY <1>1, <1>4, <1>7, <1>9, BusyFacts
  <1>12. TaskInv(t)'
    BY <1>5, <1>7, <1>9, <1>10, <1>11 DEF TaskInv, FileReady, TableReady, Finalized
  <1>13. (t = Local => LocalInv') /\ (t # Local => InstallInv(t)')
    BY <1>9, <1>10 DEF InstallInv, LocalInv
  <1>14. /\ tasks[t].pc \notin {"applied", "commit", "load_dedup"}
         /\ tasks'[t].pc \notin {"applied", "commit", "load_dedup"}
         /\ tasks'[t].pc \in Finalized(t) /\ meta' \in meta..MaxIndex
         /\ tasks'[t].pc \in LocalSteps /\ tasks'[t].pc \in InstallSteps
    BY <1>1, <1>6, <1>7, <1>9 DEF Finalized, LocalSteps, InstallSteps
  <1>15. SoundDisk'
    BY <1>1, <1>4, <1>7, BusyFacts DEF SoundDisk
  <1>16. TableOnDisk'
    <2>1. HalfSaved'
      BY <1>1, <1>9, StepsFacts DEF HalfSaved
    <2> QED
      BY <2>1 DEF TableOnDisk
  <1> QED
    BY <1>1, <1>7, <1>9, <1>11, <1>12, <1>13, <1>14, <1>15, <1>16, FileStepInv

LEMMA InvRenameDedup == ASSUME SnapshotInv, NEW t \in Tasks, RenameDedup(t) PROVE SnapshotInv'
  <1>1. NodeOK /\ tasks[t].pc = "dedup_rename" /\ Busy(t)
    BY DEF SnapshotInv, RenameDedup, At, Busy
  <1>2. /\ After(t) = IF t = Local THEN "publish" ELSE "load"
        /\ After(t) \in LocalSteps \cup InstallSteps
    BY <1>1, AfterFacts DEF After, LocalSteps, InstallSteps
  <1>3. TaskInv(t) /\ (t # Local => InstallInv(t))
    BY <1>1, BusyFacts
  <1>4. /\ Holds(disk["dedup.bin.tmp"], IF t = Local /\ forgot THEN 0 ELSE tasks[t].index)
        /\ meta = tasks[t].index
    BY <1>1, <1>3 DEF TaskInv, TableReady, Finalized
  <1>5. disk["dedup.bin.tmp"] # Missing /\ disk["dedup.bin.tmp"] # Torn
    BY <1>4, HoldsFacts
  <1>6. /\ tasks' = Advance(t, RenameHandles("dedup.bin.tmp", "dedup.bin"))
        /\ disk' = WithRenamed("dedup.bin.tmp", "dedup.bin")
        /\ UNCHANGED <<running, wal, memory, apply, meta, meta_tmp, restarts, forgot>>
    BY <1>5 DEF RenameDedup
  <1>7. Moves(t, tasks', After(t))
    <2>1. SameButHandles(RenameHandles("dedup.bin.tmp", "dedup.bin"))
      BY <1>1, RenameFacts DEF Files
    <2> QED
      BY <1>1, <1>2, <1>6, <2>1, AdvanceFacts
  <1>8. /\ tasks' \in [Tasks -> Task] /\ OthersRest(t) /\ tasks'[t].index = tasks[t].index
        /\ tasks'[t].pc = IF t = Local THEN "publish" ELSE "load"
    BY <1>2, <1>7 DEF Moves, OthersRest
  <1>9. /\ disk' \in [Files -> Contents]
        /\ disk'["snapshot.usearch"] = disk["snapshot.usearch"]
        /\ disk'["dedup.bin"] = disk["dedup.bin.tmp"]
    BY <1>1, <1>6, RenamedFacts DEF Files
  <1>10. /\ tasks'[t].index \in 1..MaxIndex /\ last_snapshot_index' <= tasks'[t].index
         /\ t = Local => /\ tasks'[t].index <= applied_index'
                         /\ apply'.pc # "idle" => tasks'[t].index <= apply'.index
    BY <1>1, <1>6, <1>8, MemoryFrame
  <1>11. meta' <= tasks'[t].index /\ meta_tmp' \in 0..MaxIndex /\ meta' = tasks'[t].index
    BY <1>1, <1>4, <1>6, <1>8, BusyFacts
  <1>12. TaskInv(t)'
    BY <1>8, <1>10, <1>11 DEF TaskInv, FileReady, TableReady, Finalized
  <1>13. t # Local => Holds(disk'["dedup.bin"], tasks'[t].index)
    BY <1>4, <1>8, <1>9
  <1>14. (t = Local => LocalInv') /\ (t # Local => InstallInv(t)')
    BY <1>8, <1>10, <1>13 DEF InstallInv, LocalInv
  <1>15. /\ tasks[t].pc \notin {"applied", "commit", "load_dedup"}
         /\ tasks'[t].pc \notin {"applied", "commit", "load_dedup"}
         /\ tasks'[t].pc \in Finalized(t) /\ meta' \in meta..MaxIndex
         /\ t = Local => tasks'[t].pc \in LocalSteps
         /\ t # Local => tasks'[t].pc \in InstallSteps
    BY <1>1, <1>6, <1>8, BusyFacts DEF Finalized, LocalSteps, InstallSteps
  <1>16. SoundDisk'
    BY <1>1, <1>5, <1>6, <1>9, BusyFacts DEF SoundDisk
  <1>17. TableOnDisk'
    BY <1>4, <1>6, <1>9 DEF TableOnDisk
  <1> QED
    BY <1>1, <1>6, <1>8, <1>9, <1>11, <1>12, <1>14, <1>15, <1>16, <1>17, FileStepInv

\* A task is over: its record is replaced as a whole.
LEMMA EndFacts ==
    ASSUME NEW t \in Tasks, NEW ts, SameButHandles(ts), NEW r \in Task
    PROVE  LET new == [ts EXCEPT ![t] = r] IN
           /\ new \in [Tasks -> Task] /\ new[t] = r
           /\ \A s \in Tasks : s # t => new[s].pc = tasks[s].pc
  BY DEF SameButHandles

LEMMA InvLocalClone == ASSUME SnapshotInv, LocalClone PROVE SnapshotInv'
  <1> DEFINE t == Local
             data == objects[tasks[t].object]
  <1>1. NodeOK /\ tasks[t].pc = "clone" /\ Busy(t) /\ t \in Tasks
    BY TypeFacts DEF SnapshotInv, LocalClone, At, Busy
  <1>2. After(t) = "open" /\ After(t) \in LocalSteps \cup InstallSteps
    BY <1>1, AfterFacts DEF After, LocalSteps
  <1>3. TaskInv(t) /\ LocalInv
    BY <1>1, BusyFacts
  <1>4. data \in SUBSET Entry /\ 1..tasks[t].index \subseteq data
    BY <1>1, <1>3, TypeFacts DEF LocalInv
  <1>5. /\ tasks' = [Advance(t, tasks) EXCEPT ![t].data = data]
        /\ UNCHANGED <<running, wal, memory, apply, disk, meta, meta_tmp, restarts, forgot>>
    BY DEF LocalClone, files
  <1> HIDE DEF data
  <1>6. Moves(t, Advance(t, tasks), After(t))
    BY <1>1, <1>2, SameTasks, AdvanceFacts
  <1>7. Moves(t, tasks', "open") /\ tasks'[t].data = data
    <2> DEFINE ts == Advance(t, tasks)
    <2>1. Moves(t, ts, "open")
      BY <1>2, <1>6
    <2>2. tasks' = [ts EXCEPT ![t].data = data]
      BY <1>5
    <2> HIDE DEF ts
    <2>3. LET new == [ts EXCEPT ![t].data = data] IN Moves(t, new, "open") /\ new[t].data = data
      BY <1>1, <1>4, <2>1, DataFacts
    <2> QED
      BY <2>2, <2>3
  <1>8. /\ tasks' \in [Tasks -> Task] /\ OthersRest(t) /\ tasks'[t].index = tasks[t].index
        /\ tasks'[t].pc = "open"
    BY <1>1, <1>7 DEF Moves, OthersRest
  <1>9. /\ tasks'[t].index \in 1..MaxIndex /\ last_snapshot_index' <= tasks'[t].index
        /\ tasks'[t].index <= applied_index'
        /\ apply'.pc # "idle" => tasks'[t].index <= apply'.index
    BY <1>1, <1>5, <1>8, MemoryFrame
  <1>10. meta' <= tasks'[t].index /\ meta_tmp' \in 0..MaxIndex /\ disk' \in [Files -> Contents]
    BY <1>1, <1>5, <1>8, BusyFacts
  <1>11. TaskInv(t)'
    BY <1>4, <1>7, <1>8, <1>9, <1>10 DEF TaskInv, FileReady, TableReady, Finalized
  <1>12. LocalInv'
    BY <1>8, <1>9 DEF LocalInv
  <1>13. /\ tasks[t].pc \notin {"applied", "commit", "load_dedup"}
         /\ tasks'[t].pc \notin {"applied", "commit", "load_dedup"}
         /\ tasks[t].pc \notin Finalized(t) /\ tasks'[t].pc \in LocalSteps
    BY <1>1, <1>8 DEF Finalized, LocalSteps
  <1>14. SoundDisk'
    BY <1>1, <1>5, BusyFacts DEF SoundDisk
  <1>15. TableOnDisk'
    BY <1>1, <1>5, <1>8, TableFrame
  <1> QED
    BY <1>1, <1>5, <1>8, <1>10, <1>11, <1>12, <1>13, <1>14, <1>15, FileStepInv

LEMMA InvLocalTerm == ASSUME SnapshotInv, LocalTerm PROVE SnapshotInv'
  <1> DEFINE t == Local
  <1>1. NodeOK /\ tasks[t].pc = "term" /\ Busy(t) /\ t \in Tasks
    BY TypeFacts DEF SnapshotInv, LocalTerm, At, Busy
  <1>2. UNCHANGED <<running, wal, memory, apply, disk, meta, meta_tmp, restarts, forgot>>
    BY DEF LocalTerm, files
  <1>3. SoundDisk' /\ meta_tmp' \in 0..MaxIndex /\ disk' \in [Files -> Contents]
    BY <1>1, <1>2, BusyFacts DEF SoundDisk
  <1>4. /\ tasks[t].pc \notin {"applied", "commit", "load_dedup"}
        /\ tasks[t].pc \notin Finalized(t)
    BY <1>1 DEF Finalized
  <1>5. CASE InWal(tasks[t].index)
    <2>1. After(t) = "check" /\ After(t) \in LocalSteps \cup InstallSteps
      BY <1>1, AfterFacts DEF After, LocalSteps
    <2>2. Moves(t, tasks', "check")
      BY <1>1, <1>5, <2>1, SameTasks, AdvanceFacts DEF LocalTerm
    <2>3. /\ tasks' \in [Tasks -> Task] /\ OthersRest(t) /\ tasks'[t].index = tasks[t].index
          /\ tasks'[t].pc = "check"
      BY <1>1, <2>2 DEF Moves, OthersRest
    <2>4. /\ tasks'[t].index \in 1..MaxIndex /\ last_snapshot_index' <= tasks'[t].index
          /\ tasks'[t].index <= applied_index'
          /\ apply'.pc # "idle" => tasks'[t].index <= apply'.index
      BY <1>1, <1>2, <2>3, MemoryFrame
    <2>5. meta' <= tasks'[t].index
      BY <1>1, <1>2, <2>3, BusyFacts
    <2>6. TaskInv(t)
      BY <1>1, BusyFacts
    <2>7. Holds(disk'["snapshot.tmp"], tasks'[t].index)
      BY <1>1, <1>2, <2>3, <2>6 DEF TaskInv, FileReady
    <2>8. TaskInv(t)'
      BY <2>3, <2>4, <2>5, <2>7 DEF TaskInv, FileReady, TableReady, Finalized
    <2>9. LocalInv'
      BY <2>3, <2>4 DEF LocalInv
    <2>10. tasks'[t].pc \notin {"applied", "commit", "load_dedup"} /\ tasks'[t].pc \in LocalSteps
      BY <2>3 DEF LocalSteps
    <2>11. TableOnDisk'
      BY <1>1, <1>2, <2>3, TableFrame
    <2> QED
      BY <1>1, <1>2, <1>3, <1>4, <2>3, <2>8, <2>9, <2>10, <2>11, FileStepInv
  <1>6. CASE ~InWal(tasks[t].index)
    <2>1. tasks' = [tasks EXCEPT ![t] = IdleTask]
      BY <1>6 DEF LocalTerm
    <2>2. tasks' \in [Tasks -> Task] /\ OthersRest(t) /\ tasks'[t].pc = "idle"
      BY <1>1, <2>1, SameTasks, EndFacts, IdleFacts DEF OthersRest
    <2>3. /\ tasks'[t].pc \notin {"applied", "commit", "load_dedup"} /\ tasks'[t].pc \in LocalSteps
          /\ ~Busy(t)'
      BY <2>2 DEF LocalSteps, Busy
    <2>4. TableOnDisk'
      BY <1>1, <1>2, <2>2, TableFrame
    <2> QED
      BY <1>1, <1>2, <1>3, <1>4, <2>2, <2>3, <2>4, FileStepInv
  <1> QED
    BY <1>5, <1>6

LEMMA InvInstallAbort == ASSUME SnapshotInv, NEW h \in Installers, InstallAbort(h) PROVE SnapshotInv'
  <1>1. /\ NodeOK /\ tasks[h].pc \in {"open", "write", "dedup_open", "dedup_write"} /\ Busy(h)
        /\ h \in Tasks /\ h # Local
    BY TypeFacts DEF SnapshotInv, InstallAbort, Busy
  <1>2. UNCHANGED <<running, wal, memory, apply, meta, meta_tmp, restarts, forgot>>
    BY DEF InstallAbort
  <1>3. /\ tasks' = [Unlink(TemporaryFiles) EXCEPT ![h] = [IdleTask EXCEPT !.pc = "done"]]
        /\ disk' = WithoutFiles(TemporaryFiles)
    BY <1>1 DEF InstallAbort, Fail
  <1>4. tasks' \in [Tasks -> Task] /\ OthersRest(h) /\ tasks'[h].pc = "done"
    <2>1. SameButHandles(Unlink(TemporaryFiles))
      BY <1>1, UnlinkFacts
    <2> QED
      BY <1>1, <1>3, <2>1, EndFacts, IdleFacts DEF OthersRest
  <1>5. /\ disk' \in [Files -> Contents]
        /\ disk'["snapshot.usearch"] = disk["snapshot.usearch"]
        /\ disk'["dedup.bin"] = disk["dedup.bin"]
    BY <1>1, <1>3, WithoutFacts
  <1>6. SoundDisk' /\ meta_tmp' \in 0..MaxIndex
    BY <1>1, <1>2, <1>5, BusyFacts DEF SoundDisk
  <1>7. /\ tasks[h].pc \notin {"applied", "commit", "load_dedup"}
        /\ tasks'[h].pc \notin {"applied", "commit", "load_dedup"}
        /\ tasks[h].pc \notin Finalized(h) /\ tasks'[h].pc \in InstallSteps /\ ~Busy(h)'
    BY <1>1, <1>4 DEF Finalized, InstallSteps, Busy
  <1>8. TableOnDisk'
    BY <1>1, <1>2, <1>4, <1>5, TableFrame
  <1> QED
    BY <1>1, <1>2, <1>4, <1>5, <1>6, <1>7, <1>8, FileStepInv

(***************************************************************************)
(* The steps of a task on memory and on the log.                           *)
(***************************************************************************)

OnlyTask(t) == \A s \in Tasks : s # t => tasks[s].pc \in {"idle", "done"}

LEMMA BusyIsOnly == ASSUME SnapshotInv, NEW t \in Tasks, Busy(t) PROVE OnlyTask(t)
  BY DEF SnapshotInv, TasksInv, OneTask, Busy, OnlyTask

\* What all tasks have in common is what the only one that works has.
LEMMA OnlyFacts ==
    ASSUME NodeOK, NEW t \in Tasks, OnlyTask(t), OthersRest(t)
    PROVE  /\ \A i : InstallReaches(tasks, i)
                    <=> t # Local /\ tasks[t].pc \in {"applied", "commit"} /\ i <= tasks[t].index
           /\ \A i : InstallReaches(tasks', i)
                    <=> t # Local /\ tasks'[t].pc \in {"applied", "commit"} /\ i <= tasks'[t].index
           /\ Swapping <=> t # Local /\ tasks[t].pc \in {"truncate", "applied"}
           /\ Swapping' <=> t # Local /\ tasks'[t].pc \in {"truncate", "applied"}
           /\ HalfSaved <=> tasks[t].pc \in IF t = Local
                                            THEN {"dedup_open", "dedup_write", "dedup_rename"}
                                            ELSE {"dedup_rename"}
           /\ HalfSaved' <=> tasks'[t].pc \in IF t = Local
                                              THEN {"dedup_open", "dedup_write", "dedup_rename"}
                                              ELSE {"dedup_rename"}
           /\ (\A h \in Installers : tasks[h].pc \notin {"commit", "load_dedup"})
              <=> t = Local \/ tasks[t].pc \notin {"commit", "load_dedup"}
           /\ (\A h \in Installers : tasks'[h].pc \notin {"commit", "load_dedup"})
              <=> t = Local \/ tasks'[t].pc \notin {"commit", "load_dedup"}
           /\ (\A s \in Tasks : tasks[s].pc \notin Finalized(s)) <=> tasks[t].pc \notin Finalized(t)
           /\ (\A s \in Tasks : tasks'[s].pc \notin Finalized(s)) <=> tasks'[t].pc \notin Finalized(t)
  <1>1. /\ Local \in Tasks /\ \A h \in Installers : h \in Tasks /\ h # Local
        /\ t = Local \/ t \in Installers
    BY TypeFacts
  <1>2. \A s \in Tasks : s # t => /\ tasks[s].pc \in {"idle", "done"}
                                  /\ tasks'[s].pc \in {"idle", "done"}
    BY DEF OnlyTask, OthersRest
  <1>3. /\ \A i : InstallReaches(tasks, i)
                 <=> t # Local /\ tasks[t].pc \in {"applied", "commit"} /\ i <= tasks[t].index
        /\ \A i : InstallReaches(tasks', i)
                 <=> t # Local /\ tasks'[t].pc \in {"applied", "commit"} /\ i <= tasks'[t].index
    BY <1>1, <1>2 DEF InstallReaches
  <1>4. /\ Swapping <=> t # Local /\ tasks[t].pc \in {"truncate", "applied"}
        /\ Swapping' <=> t # Local /\ tasks'[t].pc \in {"truncate", "applied"}
    BY <1>1, <1>2 DEF Swapping
  <1>10. HalfSaved <=> tasks[t].pc \in IF t = Local
                                      THEN {"dedup_open", "dedup_write", "dedup_rename"}
                                      ELSE {"dedup_rename"}
    <2>1. CASE t = Local
      BY <1>1, <1>2, <2>1 DEF HalfSaved
    <2>2. CASE t # Local
      BY <1>1, <1>2, <2>2 DEF HalfSaved
    <2> QED
      BY <2>1, <2>2
  <1>11. HalfSaved' <=> tasks'[t].pc \in IF t = Local
                                        THEN {"dedup_open", "dedup_write", "dedup_rename"}
                                        ELSE {"dedup_rename"}
    <2>1. CASE t = Local
      BY <1>1, <1>2, <2>1 DEF HalfSaved
    <2>2. CASE t # Local
      BY <1>1, <1>2, <2>2 DEF HalfSaved
    <2> QED
      BY <2>1, <2>2
  <1>5. (\A h \in Installers : tasks[h].pc \notin {"commit", "load_dedup"})
        <=> t = Local \/ tasks[t].pc \notin {"commit", "load_dedup"}
    BY <1>1, <1>2
  <1>6. (\A h \in Installers : tasks'[h].pc \notin {"commit", "load_dedup"})
        <=> t = Local \/ tasks'[t].pc \notin {"commit", "load_dedup"}
    BY <1>1, <1>2
  <1>7. \A s \in Tasks : "idle" \notin Finalized(s) /\ "done" \notin Finalized(s)
    BY DEF Finalized
  <1>8. (\A s \in Tasks : tasks[s].pc \notin Finalized(s)) <=> tasks[t].pc \notin Finalized(t)
    BY <1>2, <1>7
  <1>9. (\A s \in Tasks : tasks'[s].pc \notin Finalized(s)) <=> tasks'[t].pc \notin Finalized(t)
    BY <1>2, <1>7
  <1> QED
    BY <1>3, <1>4, <1>5, <1>6, <1>8, <1>9, <1>10, <1>11

\* The invariant of the tasks when only one of them works, or begins to.
LEMMA OnlyStep ==
    ASSUME NodeOK, NEW t \in Tasks, OnlyTask(t), OthersRest(t),
           Busy(t)' => /\ TaskInv(t)' /\ (t = Local => LocalInv')
                       /\ (t # Local => InstallInv(t)')
    PROVE  TasksInv'
  <1>1. \A s \in Tasks : s # t => ~Busy(s)'
    BY DEF OnlyTask, OthersRest, Busy
  <1>2. Local \in Tasks /\ \A h \in Installers : h \in Tasks /\ h # Local
    BY TypeFacts
  <1>3. OneTask'
    BY <1>1 DEF OneTask
  <1>4. \A s \in Tasks : Busy(s)' => TaskInv(s)'
    BY <1>1
  <1>5. Busy(Local)' => LocalInv'
    BY <1>1, <1>2
  <1>6. \A h \in Installers : Busy(h)' => InstallInv(h)'
    BY <1>1, <1>2
  <1> QED
    BY <1>3, <1>4, <1>5, <1>6 DEF TasksInv

\* The part of the type invariant that is about the tasks.
LEMMA TasksType ==
    ASSUME NodeOK, NEW t \in Tasks, OthersRest(t),
           t = Local => tasks'[t].pc \in LocalSteps, t # Local => tasks'[t].pc \in InstallSteps
    PROVE  tasks'[Local].pc \in LocalSteps /\ \A h \in Installers : tasks'[h].pc \in InstallSteps
  <1>1. Local \in Tasks /\ \A h \in Installers : h \in Tasks /\ h # Local
    BY TypeFacts
  <1> QED
    BY <1>1 DEF OthersRest, NodeOK

LEMMA InvLocalPublish == ASSUME SnapshotInv, LocalPublish PROVE SnapshotInv'
  <1> DEFINE t == Local
             i == tasks[t].index
  <1>1. NodeOK /\ tasks[t].pc = "publish" /\ Busy(t) /\ t \in Tasks /\ OnlyTask(t)
    BY TypeFacts, BusyIsOnly DEF SnapshotInv, LocalPublish, At, Busy
  <1>2. After(t) = "truncate" /\ After(t) \in LocalSteps \cup InstallSteps
    BY <1>1, AfterFacts DEF After, LocalSteps
  <1>3. Moves(t, tasks', "truncate")
    BY <1>1, <1>2, SameTasks, AdvanceFacts DEF LocalPublish
  <1>4. /\ tasks' \in [Tasks -> Task] /\ OthersRest(t) /\ tasks'[t].index = i
        /\ tasks'[t].pc = "truncate"
    BY <1>1, <1>3 DEF Moves, OthersRest
  <1>5. /\ last_snapshot_index' = i
        /\ UNCHANGED <<running, wal, commit_index, applied_index, objects, dedup, apply, disk,
                       meta, meta_tmp, restarts, forgot, Live>>
    BY DEF LocalPublish, files, Live
  <1>6. /\ meta = i /\ last_snapshot_index <= i /\ i \in 1..MaxIndex /\ i \in Nat
        /\ MaxIndex \in Nat /\ i <= applied_index /\ (apply.pc # "idle" => i <= apply.index)
    BY <1>1, BusyFacts DEF TaskInv, Finalized, LocalInv
  <1>7. NodeOK'
    <2>1. tasks'[Local].pc \in LocalSteps /\ \A h \in Installers : tasks'[h].pc \in InstallSteps
      BY <1>1, <1>4, TasksType DEF LocalSteps
    <2>2. last_snapshot_index' \in 0..MaxIndex
      BY <1>5, <1>6
    <2> QED
      BY <1>1, <1>4, <1>5, <2>1, <2>2 DEF NodeOK
  <1>8. TaskInv(t)' /\ LocalInv'
    <2>1. TaskInv(t)'
      BY <1>4, <1>5, <1>6 DEF TaskInv, FileReady, TableReady, Finalized
    <2>2. LocalInv'
      BY <1>4, <1>5, <1>6 DEF LocalInv
    <2> QED
      BY <2>1, <2>2
  <1>9. TasksInv'
    BY <1>1, <1>4, <1>8, OnlyStep
  <1>10. /\ \A k : ~InstallReaches(tasks, k) /\ ~InstallReaches(tasks', k)
         /\ ~Swapping /\ ~HalfSaved /\ ~(\A s \in Tasks : tasks'[s].pc \notin Finalized(s))
         /\ \A h \in Installers : tasks[h].pc \notin {"commit", "load_dedup"}
    BY <1>1, <1>4, OnlyFacts DEF Finalized
  <1>11. DiskInv'
    BY <1>5, <1>10 DEF SnapshotInv, DiskInv
  <1>12. applied_index \in Nat /\ apply.index \in Nat /\ last_snapshot_index \in Nat
    BY <1>1, TypeFacts
  <1>13. LogInv'
    <2>1. Reaches(applied_index)'
      BY <1>5, <1>6, <1>10, <1>12 DEF SnapshotInv, LogInv, Reaches
    <2> QED
      BY <1>5, <1>10, <2>1 DEF SnapshotInv, LogInv
  <1>14. ApplyInv'
    <2>1. apply.pc # "idle" => Reaches(apply.index)'
      BY <1>5, <1>6, <1>10, <1>12 DEF SnapshotInv, ApplyInv, Reaches
    <2>9. TableFresh' => TableFresh
      BY <1>5, <1>10 DEF TableFresh
    <2> QED
      BY <1>5, <2>1, <2>9 DEF SnapshotInv, ApplyInv
  <1>15. DedupInv'
    BY <1>5, <1>10 DEF SnapshotInv, DedupInv, TableFresh, TableInMemory, TableOnDisk
  <1> QED
    BY <1>7, <1>9, <1>11, <1>13, <1>14, <1>15 DEF SnapshotInv

\* Truncating the log before an index that the snapshot covers keeps what lies beyond.
LEMMA TruncateKeeps ==
    ASSUME NodeOK, NEW m \in {meta, meta + 1}, TruncateBefore(m), wal = EmptyWal \/ wal.first <= wal.last
    PROVE  /\ wal' \in [first : 1..(MaxIndex + 1), last : 0..MaxIndex]
           /\ wal' = EmptyWal \/ wal'.first <= wal'.last
           /\ \A k \in Nat : (meta + 1)..k \subseteq wal.first..wal.last
                             => /\ (meta + 1)..k \subseteq wal'.first..wal'.last
                                /\ k <= wal'.last \/ k <= meta
  <1>1. /\ wal.first \in Nat /\ wal.last \in Nat /\ wal.first >= 1 /\ meta \in Nat
        /\ m \in Nat /\ m <= meta + 1
        /\ MaxIndex \in Nat /\ wal \in [first : 1..(MaxIndex + 1), last : 0..MaxIndex]
    BY TypeFacts DEF NodeOK
  <1>2. CASE wal.last < m
    <2>1. wal' = EmptyWal /\ wal'.first = 1 /\ wal'.last = 0
      BY <1>2 DEF TruncateBefore, EmptyWal
    <2>2. ASSUME NEW k \in Nat, (meta + 1)..k \subseteq wal.first..wal.last PROVE k <= meta
      <3> SUFFICES ASSUME k > meta PROVE FALSE
        BY <1>1
      <3>1. meta + 1 \in (meta + 1)..k
        BY <1>1
      <3>2. meta + 1 \in wal.first..wal.last
        BY <2>2, <3>1
      <3> QED
        BY <1>1, <1>2, <3>2
    <2>3. ASSUME NEW k \in Nat, k <= meta PROVE (meta + 1)..k \subseteq wal'.first..wal'.last
      BY <1>1, <2>3
    <2>4. wal' \in [first : 1..(MaxIndex + 1), last : 0..MaxIndex]
      BY <1>1, <2>1 DEF EmptyWal
    <2> QED
      BY <2>1, <2>2, <2>3, <2>4
  <1>3. CASE ~(wal.last < m)
    <2>1. PICK f \in wal.first..wal.last : f <= m /\ wal' = [wal EXCEPT !.first = f]
      BY <1>3 DEF TruncateBefore
    <2>2. /\ wal'.first = f /\ wal'.last = wal.last /\ f \in Nat /\ f <= wal.last
          /\ wal' \in [first : 1..(MaxIndex + 1), last : 0..MaxIndex]
      BY <1>1, <2>1
    <2>3. ASSUME NEW k \in Nat, (meta + 1)..k \subseteq wal.first..wal.last
          PROVE  (meta + 1)..k \subseteq f..wal.last
      <3> SUFFICES ASSUME NEW x \in (meta + 1)..k PROVE x \in f..wal.last
        OBVIOUS
      <3>1. x \in wal.first..wal.last
        BY <2>3
      <3> QED
        BY <1>1, <2>1, <2>2, <3>1
    <2>4. ASSUME NEW k \in Nat, (meta + 1)..k \subseteq wal.first..wal.last
          PROVE  k <= wal.last \/ k <= meta
      <3> SUFFICES ASSUME k > meta PROVE k <= wal.last
        BY <1>1
      <3>1. k \in (meta + 1)..k
        BY <1>1
      <3>2. k \in wal.first..wal.last
        BY <2>4, <3>1
      <3> QED
        BY <1>1, <3>2
    <2> QED
      BY <2>2, <2>3, <2>4
  <1> QED
    BY <1>2, <1>3

LEMMA InvLocalTruncate == ASSUME SnapshotInv, LocalTruncate PROVE SnapshotInv'
  <1> DEFINE t == Local
             i == tasks[t].index
  <1>1. NodeOK /\ tasks[t].pc = "truncate" /\ Busy(t) /\ t \in Tasks /\ OnlyTask(t)
    BY TypeFacts, BusyIsOnly DEF SnapshotInv, LocalTruncate, At, Busy
  <1>2. tasks' = [tasks EXCEPT ![t] = IdleTask]
    BY DEF LocalTruncate
  <1>3. tasks' \in [Tasks -> Task] /\ OthersRest(t) /\ tasks'[t].pc = "idle"
    BY <1>1, <1>2, SameTasks, EndFacts, IdleFacts DEF OthersRest
  <1>4. UNCHANGED <<running, commit_index, applied_index, last_snapshot_index, objects, dedup,
                    apply, disk, meta, meta_tmp, restarts, forgot, Live>>
    BY DEF LocalTruncate, files, memory, Live
  <1>5. meta = i /\ last_snapshot_index = meta
    BY <1>1, BusyFacts DEF TaskInv, LocalInv, Finalized
  <1>6. /\ wal' \in [first : 1..(MaxIndex + 1), last : 0..MaxIndex]
        /\ wal' = EmptyWal \/ wal'.first <= wal'.last
        /\ \A k \in Nat : (meta + 1)..k \subseteq wal.first..wal.last
                          => /\ (meta + 1)..k \subseteq wal'.first..wal'.last
                             /\ k <= wal'.last \/ k <= meta
    BY <1>1, <1>5, TruncateKeeps DEF LocalTruncate, SnapshotInv, LogInv
  <1>7. NodeOK'
    <2>1. tasks'[Local].pc \in LocalSteps /\ \A h \in Installers : tasks'[h].pc \in InstallSteps
      BY <1>1, <1>3, TasksType DEF LocalSteps
    <2> QED
      BY <1>1, <1>3, <1>4, <1>6, <2>1 DEF NodeOK
  <1>8. TasksInv'
    <2>1. ~Busy(t)'
      BY <1>3 DEF Busy
    <2> QED
      BY <1>1, <1>3, <2>1, OnlyStep
  <1>9. /\ \A h \in Installers : tasks[h].pc \notin {"commit", "load_dedup"}
        /\ ~Swapping /\ ~HalfSaved
    BY <1>1, <1>3, OnlyFacts
  <1>10. DiskInv'
    BY <1>4, <1>5 DEF SnapshotInv, DiskInv
  <1>11. applied_index \in Nat /\ apply.index \in Nat
    BY <1>1, TypeFacts
  <1>12. LogInv'
    <2>1. Reaches(applied_index)'
      BY <1>4, <1>5, <1>6, <1>11 DEF SnapshotInv, LogInv, Reaches
    <2> QED
      BY <1>4, <1>6, <1>9, <1>11, <2>1 DEF SnapshotInv, LogInv
  <1>13. ApplyInv'
    <2>1. apply.pc # "idle" => Reaches(apply.index)'
      BY <1>4, <1>5, <1>6, <1>11 DEF SnapshotInv, ApplyInv, Reaches
    <2>9. TableFresh' => TableFresh
      BY <1>4, <1>9 DEF TableFresh
    <2> QED
      BY <1>4, <1>6, <1>11, <2>1, <2>9 DEF SnapshotInv, ApplyInv
  <1>14. DedupInv'
    BY <1>4, <1>9 DEF SnapshotInv, DedupInv, TableFresh, TableInMemory, TableOnDisk
  <1> QED
    BY <1>7, <1>8, <1>10, <1>12, <1>13, <1>14 DEF SnapshotInv

LEMMA NothingBetween ==
    ASSUME NEW m \in Nat, NEW k \in Nat, k <= m, NEW S
    PROVE  (m + 1)..k \subseteq S
  <1>1. (m + 1)..k = {}
    OBVIOUS
  <1> QED
    BY <1>1

LEMMA FewerEntries ==
    ASSUME NEW i \in Nat, NEW j \in Nat, j <= i, NEW S, 1..i \subseteq S
    PROVE  1..j \subseteq S /\ 1..(j - 1) \subseteq S /\ (j >= 1 => j \in S)
  <1>1. 1..j \subseteq 1..i /\ 1..(j - 1) \subseteq 1..i /\ (j >= 1 => j \in 1..i)
    OBVIOUS
  <1> QED
    BY <1>1

LEMMA InvInstallBegin ==
    ASSUME SnapshotInv, NEW h \in Installers, InstallBegin(h), ~Disturbed'
    PROVE  SnapshotInv'
  <1>1. NodeOK /\ tasks[h].pc = "idle" /\ h \in Tasks /\ h # Local
    BY TypeFacts DEF SnapshotInv, InstallBegin, At
  <1>3. PICK k \in Entry : \E c \in k..MaxIndex :
          tasks' = [tasks EXCEPT ![h] = [IdleTask EXCEPT !.pc = "init", !.index = k,
                                                         !.data = 1..c]]
    BY DEF InstallBegin
  <1> PICK c \in k..MaxIndex :
          tasks' = [tasks EXCEPT ![h] = [IdleTask EXCEPT !.pc = "init", !.index = k,
                                                         !.data = 1..c]]
    BY <1>3
  <1>4. /\ MaxIndex \in Nat /\ k \in Nat /\ c \in Nat /\ k \in 1..MaxIndex /\ k \in 0..MaxIndex
        /\ c <= MaxIndex /\ k <= c
    BY SnapshotAssumption DEF Entry
  <1>5. 1..c \subseteq Entry /\ 1..k \subseteq 1..c
    BY <1>4 DEF Entry
  <1> DEFINE r == [IdleTask EXCEPT !.pc = "init", !.index = k, !.data = 1..c]
  <1>6. /\ r \in Task /\ r.pc = "init" /\ r.index = k /\ r.data = 1..c
    BY <1>4, <1>5 DEF IdleTask, Task, LocalSteps
  <1>7. tasks' = [tasks EXCEPT ![h] = r]
    BY <1>3
  <1> HIDE DEF r
  <1>8. /\ tasks' \in [Tasks -> Task] /\ OthersRest(h) /\ tasks'[h].pc = "init"
        /\ tasks'[h].index = k /\ tasks'[h].data = 1..c
    BY <1>1, <1>6, <1>7, SameTasks, EndFacts DEF OthersRest
  <1>9. UNCHANGED <<running, wal, commit_index, applied_index, last_snapshot_index, objects, dedup,
                    apply, disk, meta, meta_tmp, restarts, forgot, Live>>
    BY DEF InstallBegin, files, memory, Live
  <1>2. OnlyTask(h) /\ ~(k < meta)
    <2>1. Busy(h)' /\ ~Meeting' /\ ~Older'
      BY <1>8 DEF Busy, Disturbed
    <2>2. ASSUME NEW s \in Tasks, s # h PROVE tasks[s].pc \in {"idle", "done"}
      BY <1>1, <1>8, <2>1, <2>2 DEF Meeting, Busy, OthersRest
    <2>3. ~(k < meta)
      BY <1>8, <1>9, <2>1 DEF Older
    <2> QED
      BY <2>2, <2>3 DEF OnlyTask
  <1>10. /\ \A j : ~InstallReaches(tasks, j) /\ ~InstallReaches(tasks', j)
         /\ ~Swapping /\ ~HalfSaved
         /\ \A g \in Installers : tasks[g].pc \notin {"commit", "load_dedup"}
         /\ \A s \in Tasks : tasks[s].pc \notin Finalized(s)
    BY <1>1, <1>2, <1>8, OnlyFacts DEF Finalized
  <1>11. /\ wal.last \in Nat /\ last_snapshot_index \in Nat /\ applied_index \in Nat
         /\ apply.index \in Nat
    BY <1>1, TypeFacts
  <1>13. meta = last_snapshot_index
    BY <1>10 DEF SnapshotInv, DiskInv
  <1>15. NodeOK'
    <2>1. tasks'[Local].pc \in LocalSteps /\ \A g \in Installers : tasks'[g].pc \in InstallSteps
      BY <1>1, <1>8, TasksType DEF InstallSteps
    <2> QED
      BY <1>1, <1>8, <1>9, <2>1 DEF NodeOK
  <1>16. TasksInv'
    <2>1. meta <= k /\ last_snapshot_index <= k
      BY <1>2, <1>4, <1>11, <1>13
    <2>2. TaskInv(h)'
      BY <1>1, <1>4, <1>8, <1>9, <2>1 DEF TaskInv, FileReady, TableReady, Finalized
    <2>3. InstallInv(h)'
      BY <1>5, <1>8 DEF InstallInv
    <2> QED
      BY <1>1, <1>2, <1>8, <2>2, <2>3, OnlyStep
  <1>17. DiskInv'
    BY <1>9, <1>13 DEF SnapshotInv, DiskInv
  <1>18. LogInv' /\ ApplyInv'
    <2>1. LogInv'
      BY <1>9, <1>10 DEF SnapshotInv, LogInv, Reaches
    <2>2. ApplyInv'
      <3>1. TableFresh' => TableFresh
        BY <1>9, <1>10 DEF TableFresh
      <3> QED
        BY <1>9, <1>10, <3>1 DEF SnapshotInv, ApplyInv, Reaches
    <2> QED
      BY <2>1, <2>2
  <1>19. DedupInv'
    BY <1>9, <1>10 DEF SnapshotInv, DedupInv, TableFresh, TableInMemory, TableOnDisk
  <1> QED
    BY <1>15, <1>16, <1>17, <1>18, <1>19 DEF SnapshotInv

\* What is known of a handler that has put its snapshot on disk.
LEMMA InstalledFacts ==
    ASSUME SnapshotInv, NEW h \in Installers,
           tasks[h].pc \in {"load", "truncate", "applied", "commit", "load_dedup"}
    PROVE  /\ NodeOK /\ Busy(h) /\ h \in Tasks /\ h # Local /\ OnlyTask(h)
           /\ MaxIndex \in Nat /\ tasks[h].index \in Nat /\ tasks[h].index \in 1..MaxIndex
           /\ meta = tasks[h].index /\ last_snapshot_index <= tasks[h].index
           /\ tasks[h].pc \in {"commit", "load_dedup"} => applied_index <= tasks[h].index
           /\ (apply.pc # "idle" /\ tasks[h].pc # "load") => apply.index <= tasks[h].index
           /\ apply.pc # "idle" => apply.index \in 1..MaxIndex
           /\ Holds(disk["dedup.bin"], tasks[h].index)
           /\ Holds(disk["snapshot.usearch"], tasks[h].index)
           /\ tasks[h].pc # "load" => 1..tasks[h].index \subseteq Live
           /\ applied_index \in Nat /\ apply.index \in Nat /\ meta \in Nat /\ wal.last \in Nat
           /\ last_snapshot_index \in Nat
  <1>1. NodeOK /\ Busy(h) /\ h \in Tasks /\ h # Local /\ OnlyTask(h)
    BY TypeFacts, BusyIsOnly DEF SnapshotInv, Busy
  <1>2. TaskInv(h) /\ InstallInv(h) /\ SoundDisk
    BY <1>1, BusyFacts
  <1>3. /\ MaxIndex \in Nat /\ tasks[h].index \in Nat /\ applied_index \in Nat
        /\ apply.index \in Nat /\ meta \in Nat /\ wal.last \in Nat /\ last_snapshot_index \in Nat
    BY <1>1, TypeFacts
  <1>4. /\ meta = tasks[h].index /\ last_snapshot_index <= tasks[h].index
        /\ tasks[h].index \in 1..MaxIndex
    BY <1>1, <1>2 DEF TaskInv, Finalized
  <1>5. Holds(disk["snapshot.usearch"], tasks[h].index)
    BY <1>2, <1>3, <1>4 DEF SoundDisk
  <1>6. apply.pc # "idle" => apply.index \in 1..MaxIndex
    BY DEF SnapshotInv, ApplyInv
  <1> QED
    BY <1>1, <1>2, <1>3, <1>4, <1>5, <1>6 DEF InstallInv

LEMMA InvInstallLoad ==
    ASSUME SnapshotInv, NEW h \in Installers, InstallLoad(h), ~Disturbed'
    PROVE  SnapshotInv'
  <1> DEFINE i == tasks[h].index
             file == disk["snapshot.usearch"]
  <1>1. tasks[h].pc = "load"
    BY DEF InstallLoad, At
  <1>2. /\ NodeOK /\ Busy(h) /\ h \in Tasks /\ h # Local /\ OnlyTask(h)
        /\ MaxIndex \in Nat /\ i \in Nat /\ i \in 1..MaxIndex
        /\ meta = i /\ last_snapshot_index <= i
        /\ apply.pc # "idle" => apply.index \in 1..MaxIndex
        /\ Holds(disk["dedup.bin"], i) /\ Holds(file, i)
        /\ applied_index \in Nat /\ apply.index \in Nat
    BY <1>1, InstalledFacts
  <1>3. file \notin {Missing, Torn} /\ file \in SUBSET Entry /\ 1..i \subseteq file
    BY <1>2, HoldsFacts
  <1>4. objects' = Append(objects, file) /\ tasks' = Advance(h, tasks)
    BY <1>3 DEF InstallLoad
  <1>5. After(h) = "truncate" /\ After(h) \in LocalSteps \cup InstallSteps
    BY <1>1, <1>2, AfterFacts DEF After, LocalSteps
  <1>6. Moves(h, tasks', "truncate")
    BY <1>2, <1>4, <1>5, SameTasks, AdvanceFacts
  <1>7. /\ tasks' \in [Tasks -> Task] /\ OthersRest(h) /\ tasks'[h].index = i
        /\ tasks'[h].pc = "truncate"
    BY <1>2, <1>6 DEF Moves, OthersRest
  <1>8. UNCHANGED <<running, wal, commit_index, applied_index, last_snapshot_index, dedup,
                    apply, disk, meta, meta_tmp, restarts, forgot>>
    BY DEF InstallLoad, files
  <1>17. apply.pc # "idle" => apply.index <= i
    BY <1>2, <1>7, <1>8 DEF Disturbed, Crossing
  <1>9. /\ objects' \in Seq(SUBSET Entry) /\ objects' # <<>> /\ Len(objects') = Len(objects) + 1
        /\ Live' = file /\ Len(objects) \in Nat
    <2>1. objects \in Seq(SUBSET Entry)
      BY <1>2 DEF NodeOK
    <2>2. /\ objects' \in Seq(SUBSET Entry) /\ Len(objects') = Len(objects) + 1
          /\ objects'[Len(objects) + 1] = file /\ Len(objects) \in Nat
      BY <1>3, <1>4, <2>1, AppendProperties, LenProperties
    <2>3. objects' # <<>>
      BY <2>2, EmptySeq
    <2> QED
      BY <2>2, <2>3 DEF Live
  <1>10. NodeOK'
    <2>1. tasks'[Local].pc \in LocalSteps /\ \A g \in Installers : tasks'[g].pc \in InstallSteps
      BY <1>2, <1>7, TasksType DEF InstallSteps
    <2> QED
      BY <1>2, <1>7, <1>8, <1>9, <2>1 DEF NodeOK
  <1>11. TasksInv'
    <2>1. TaskInv(h)'
      BY <1>2, <1>7, <1>8 DEF TaskInv, FileReady, TableReady, Finalized
    <2>2. InstallInv(h)'
      BY <1>2, <1>3, <1>7, <1>8, <1>9, <1>17 DEF InstallInv
    <2> QED
      BY <1>2, <1>7, <2>1, <2>2, OnlyStep
  <1>12. /\ \A j : ~InstallReaches(tasks, j) /\ ~InstallReaches(tasks', j)
         /\ Swapping' /\ ~HalfSaved
         /\ \A g \in Installers : tasks[g].pc \notin {"commit", "load_dedup"}
         /\ ~(\A s \in Tasks : tasks'[s].pc \notin Finalized(s))
    BY <1>1, <1>2, <1>7, OnlyFacts DEF Finalized
  <1>13. DiskInv'
    BY <1>8, <1>12 DEF SnapshotInv, DiskInv
  <1>14. LogInv'
    BY <1>8, <1>12 DEF SnapshotInv, LogInv, Reaches
  <1>15. ApplyInv'
    <2> SUFFICES ASSUME apply.pc # "idle" PROVE ApplyInv'
      BY <1>8 DEF ApplyInv
    <2>1. 1..(apply.index - 1) \subseteq file /\ apply.index \in file
      BY <1>2, <1>3, <1>17, FewerEntries
    <2>2. apply.pc = "execute" => apply.object \in 1..Len(objects')
      BY <1>9 DEF SnapshotInv, ApplyInv
    <2>3. Reaches(apply.index)'
      BY <1>8, <1>12 DEF SnapshotInv, ApplyInv, Reaches
    <2>9. TableFresh' => TableFresh
      BY <1>8, <1>12 DEF TableFresh
    <2> QED
      BY <1>8, <1>9, <2>1, <2>2, <2>3, <2>9 DEF SnapshotInv, ApplyInv
  <1>16. DedupInv'
    BY <1>8, <1>12 DEF SnapshotInv, DedupInv, TableFresh, TableInMemory, TableOnDisk
  <1> QED
    BY <1>10, <1>11, <1>13, <1>14, <1>15, <1>16 DEF SnapshotInv

LEMMA InvInstallTruncate ==
    ASSUME SnapshotInv, NEW h \in Installers, InstallTruncate(h)
    PROVE  SnapshotInv'
  <1> DEFINE i == tasks[h].index
  <1>1. tasks[h].pc = "truncate"
    BY DEF InstallTruncate, At
  <1>2. /\ NodeOK /\ Busy(h) /\ h \in Tasks /\ h # Local /\ OnlyTask(h)
        /\ MaxIndex \in Nat /\ i \in Nat /\ i \in 1..MaxIndex
        /\ meta = i /\ last_snapshot_index <= i
        /\ apply.pc # "idle" => apply.index <= i
        /\ Holds(disk["dedup.bin"], i) /\ 1..i \subseteq Live
        /\ applied_index \in Nat /\ apply.index \in Nat /\ wal.last \in Nat
    BY <1>1, InstalledFacts
  <1>3. tasks' = Advance(h, tasks)
    BY DEF InstallTruncate
  <1>4. After(h) = "applied" /\ After(h) \in LocalSteps \cup InstallSteps
    BY <1>1, <1>2, AfterFacts DEF After, InstallSteps
  <1>5. Moves(h, tasks', "applied")
    BY <1>2, <1>3, <1>4, SameTasks, AdvanceFacts
  <1>6. /\ tasks' \in [Tasks -> Task] /\ OthersRest(h) /\ tasks'[h].index = i
        /\ tasks'[h].pc = "applied"
    BY <1>2, <1>5 DEF Moves, OthersRest
  <1>7. UNCHANGED <<running, commit_index, applied_index, last_snapshot_index, objects, dedup,
                    apply, disk, meta, meta_tmp, restarts, forgot, Live>>
    BY DEF InstallTruncate, files, memory, Live
  <1>8. /\ wal' \in [first : 1..(MaxIndex + 1), last : 0..MaxIndex]
        /\ wal' = EmptyWal \/ wal'.first <= wal'.last
        /\ \A k \in Nat : (meta + 1)..k \subseteq wal.first..wal.last
                          => /\ (meta + 1)..k \subseteq wal'.first..wal'.last
                             /\ k <= wal'.last \/ k <= meta
    <2>1. TruncateBefore(meta + 1)
      BY <1>2 DEF InstallTruncate
    <2> QED
      BY <1>2, <2>1, TruncateKeeps DEF SnapshotInv, LogInv
  <1>9. NodeOK'
    <2>1. tasks'[Local].pc \in LocalSteps /\ \A g \in Installers : tasks'[g].pc \in InstallSteps
      BY <1>2, <1>6, TasksType DEF InstallSteps
    <2> QED
      BY <1>2, <1>6, <1>7, <1>8, <2>1 DEF NodeOK
  <1>10. TasksInv'
    <2>1. TaskInv(h)'
      BY <1>2, <1>6, <1>7 DEF TaskInv, FileReady, TableReady, Finalized
    <2>2. InstallInv(h)'
      BY <1>2, <1>6, <1>7 DEF InstallInv
    <2> QED
      BY <1>2, <1>6, <2>1, <2>2, OnlyStep
  <1>11. /\ \A j : InstallReaches(tasks', j) <=> j <= i
         /\ Swapping' /\ ~HalfSaved /\ ~(\A s \in Tasks : tasks'[s].pc \notin Finalized(s))
         /\ \A g \in Installers : tasks[g].pc \notin {"commit", "load_dedup"}
    BY <1>1, <1>2, <1>6, OnlyFacts DEF Finalized
  <1>12. DiskInv'
    BY <1>7, <1>11 DEF SnapshotInv, DiskInv
  <1>13. LogInv'
    <2>1. /\ (meta + 1)..applied_index \subseteq wal'.first..wal'.last
          /\ applied_index <= wal'.last \/ applied_index <= meta
      BY <1>2, <1>8 DEF SnapshotInv, LogInv
    <2>2. Reaches(applied_index)'
      BY <1>2, <1>7, <1>11, <2>1 DEF Reaches
    <2> QED
      BY <1>7, <1>8, <1>11, <2>1, <2>2 DEF LogInv
  <1>14. ApplyInv'
    <2> SUFFICES ASSUME apply.pc # "idle" PROVE ApplyInv'
      BY <1>7 DEF ApplyInv
    <2>1. (meta + 1)..apply.index \subseteq wal'.first..wal'.last
      BY <1>2, NothingBetween
    <2>2. Reaches(apply.index)'
      BY <1>2, <1>7, <1>11 DEF Reaches
    <2>9. TableFresh' => TableFresh
      BY <1>7, <1>11 DEF TableFresh
    <2> QED
      BY <1>7, <2>1, <2>2, <2>9 DEF SnapshotInv, ApplyInv
  <1>15. DedupInv'
    BY <1>7, <1>11 DEF SnapshotInv, DedupInv, TableFresh, TableInMemory, TableOnDisk
  <1> QED
    BY <1>9, <1>10, <1>12, <1>13, <1>14, <1>15 DEF SnapshotInv

LEMMA InvInstallApplied ==
    ASSUME SnapshotInv, NEW h \in Installers, InstallApplied(h)
    PROVE  SnapshotInv'
  <1> DEFINE i == tasks[h].index
  <1>1. tasks[h].pc = "applied"
    BY DEF InstallApplied, At
  <1>2. /\ NodeOK /\ Busy(h) /\ h \in Tasks /\ h # Local /\ OnlyTask(h)
        /\ MaxIndex \in Nat /\ i \in Nat /\ i \in 1..MaxIndex
        /\ meta = i /\ last_snapshot_index <= i
        /\ apply.pc # "idle" => apply.index <= i
        /\ Holds(disk["dedup.bin"], i) /\ 1..i \subseteq Live
    BY <1>1, InstalledFacts
  <1>3. tasks' = Advance(h, tasks) /\ applied_index' = i
    BY DEF InstallApplied
  <1>4. After(h) = "commit" /\ After(h) \in LocalSteps \cup InstallSteps
    BY <1>1, <1>2, AfterFacts DEF After, InstallSteps
  <1>5. Moves(h, tasks', "commit")
    BY <1>2, <1>3, <1>4, SameTasks, AdvanceFacts
  <1>6. /\ tasks' \in [Tasks -> Task] /\ OthersRest(h) /\ tasks'[h].index = i
        /\ tasks'[h].pc = "commit"
    BY <1>2, <1>5 DEF Moves, OthersRest
  <1>7. UNCHANGED <<running, wal, commit_index, last_snapshot_index, objects, dedup,
                    apply, disk, meta, meta_tmp, restarts, forgot, Live>>
    BY DEF InstallApplied, files, Live
  <1>8. NodeOK'
    <2>1. tasks'[Local].pc \in LocalSteps /\ \A g \in Installers : tasks'[g].pc \in InstallSteps
      BY <1>2, <1>6, TasksType DEF InstallSteps
    <2>2. applied_index' \in 0..MaxIndex
      BY <1>2, <1>3
    <2> QED
      BY <1>2, <1>6, <1>7, <2>1, <2>2 DEF NodeOK
  <1>9. TasksInv'
    <2>1. TaskInv(h)'
      BY <1>2, <1>6, <1>7 DEF TaskInv, FileReady, TableReady, Finalized
    <2>2. applied_index' <= i
      BY <1>2, <1>3
    <2>3. InstallInv(h)'
      BY <1>2, <1>6, <1>7, <2>2 DEF InstallInv
    <2> QED
      BY <1>2, <1>6, <2>1, <2>3, OnlyStep
  <1>10. /\ \A j : InstallReaches(tasks', j) <=> j <= i
         /\ ~HalfSaved /\ ~(\A s \in Tasks : tasks'[s].pc \notin Finalized(s))
         /\ ~(\A g \in Installers : tasks'[g].pc \notin {"commit", "load_dedup"})
    BY <1>1, <1>2, <1>6, OnlyFacts DEF Finalized
  <1>11. DiskInv'
    BY <1>7, <1>10 DEF SnapshotInv, DiskInv
  <1>12. LogInv'
    <2>1. (meta' + 1)..applied_index' \subseteq wal'.first..wal'.last
      <3>1. (i + 1)..i \subseteq wal.first..wal.last
        BY <1>2, NothingBetween
      <3> QED
        BY <1>2, <1>3, <1>7, <3>1
    <2>2. Reaches(applied_index)'
      BY <1>2, <1>3, <1>10 DEF Reaches
    <2> QED
      BY <1>2, <1>3, <1>7, <2>1, <2>2 DEF SnapshotInv, LogInv
  <1>13. ApplyInv'
    <2>1. apply.pc # "idle" => Reaches(apply.index)'
      BY <1>2, <1>7, <1>10 DEF Reaches
    <2>9. ~TableFresh'
      BY <1>10 DEF TableFresh
    <2> QED
      BY <1>7, <2>1, <2>9 DEF SnapshotInv, ApplyInv
  <1>14. DedupInv'
    BY <1>7, <1>10 DEF SnapshotInv, DedupInv, TableFresh, TableInMemory, TableOnDisk
  <1> QED
    BY <1>8, <1>9, <1>11, <1>12, <1>13, <1>14 DEF SnapshotInv

LEMMA InvInstallCommit ==
    ASSUME SnapshotInv, NEW h \in Installers, InstallCommit(h)
    PROVE  SnapshotInv'
  <1> DEFINE i == tasks[h].index
  <1>1. tasks[h].pc = "commit"
    BY DEF InstallCommit, At
  <1>2. /\ NodeOK /\ Busy(h) /\ h \in Tasks /\ h # Local /\ OnlyTask(h)
        /\ MaxIndex \in Nat /\ i \in Nat /\ i \in 1..MaxIndex
        /\ meta = i /\ applied_index <= i
        /\ apply.pc # "idle" => apply.index <= i
        /\ Holds(disk["dedup.bin"], i) /\ 1..i \subseteq Live
    BY <1>1, InstalledFacts
  <1>3. tasks' = Advance(h, tasks) /\ commit_index' = i /\ last_snapshot_index' = i
    BY DEF InstallCommit
  <1>4. After(h) = "load_dedup" /\ After(h) \in LocalSteps \cup InstallSteps
    BY <1>1, <1>2, AfterFacts DEF After, InstallSteps
  <1>5. Moves(h, tasks', "load_dedup")
    BY <1>2, <1>3, <1>4, SameTasks, AdvanceFacts
  <1>6. /\ tasks' \in [Tasks -> Task] /\ OthersRest(h) /\ tasks'[h].index = i
        /\ tasks'[h].pc = "load_dedup"
    BY <1>2, <1>5 DEF Moves, OthersRest
  <1>7. UNCHANGED <<running, wal, applied_index, objects, dedup, apply, disk, meta, meta_tmp,
                    restarts, forgot, Live>>
    BY DEF InstallCommit, files, Live
  <1>8. NodeOK'
    <2>1. tasks'[Local].pc \in LocalSteps /\ \A g \in Installers : tasks'[g].pc \in InstallSteps
      BY <1>2, <1>6, TasksType DEF InstallSteps
    <2>2. commit_index' \in 0..MaxIndex /\ last_snapshot_index' \in 0..MaxIndex
      BY <1>2, <1>3
    <2> QED
      BY <1>2, <1>6, <1>7, <2>1, <2>2 DEF NodeOK
  <1>9. TasksInv'
    <2>1. last_snapshot_index' <= i
      BY <1>2, <1>3
    <2>2. TaskInv(h)'
      BY <1>2, <1>6, <1>7, <2>1 DEF TaskInv, FileReady, TableReady, Finalized
    <2>3. InstallInv(h)'
      BY <1>2, <1>3, <1>6, <1>7 DEF InstallInv
    <2> QED
      BY <1>2, <1>6, <2>2, <2>3, OnlyStep
  <1>10. /\ ~(\A s \in Tasks : tasks'[s].pc \notin Finalized(s))
         /\ ~(\A g \in Installers : tasks'[g].pc \notin {"commit", "load_dedup"})
         /\ ~Swapping /\ ~HalfSaved
    BY <1>1, <1>2, <1>6, OnlyFacts DEF Finalized
  <1>11. DiskInv'
    BY <1>7, <1>10 DEF SnapshotInv, DiskInv
  <1>12. LogInv'
    BY <1>2, <1>3, <1>7, <1>10 DEF SnapshotInv, LogInv, Reaches
  <1>13. ApplyInv'
    <2>1. ~TableFresh'
      BY <1>10 DEF TableFresh
    <2> QED
      BY <1>2, <1>3, <1>7, <2>1 DEF SnapshotInv, ApplyInv, Reaches
  <1>14. DedupInv'
    BY <1>7, <1>10 DEF SnapshotInv, DedupInv, TableFresh, TableInMemory, TableOnDisk
  <1> QED
    BY <1>8, <1>9, <1>11, <1>12, <1>13, <1>14 DEF SnapshotInv

LEMMA InvInstallDedup ==
    ASSUME SnapshotInv, NEW h \in Installers, InstallDedup(h)
    PROVE  SnapshotInv'
  <1> DEFINE i == tasks[h].index
             table == disk["dedup.bin"]
  <1>1. tasks[h].pc = "load_dedup"
    BY DEF InstallDedup, At
  <1>2. /\ NodeOK /\ Busy(h) /\ h \in Tasks /\ h # Local /\ OnlyTask(h)
        /\ MaxIndex \in Nat /\ i \in Nat /\ i \in 1..MaxIndex
        /\ meta = i /\ applied_index <= i
        /\ apply.pc # "idle" => apply.index <= i /\ apply.index \in 1..MaxIndex
        /\ Holds(table, i) /\ applied_index \in Nat /\ apply.index \in Nat
    BY <1>1, InstalledFacts
  <1>3. last_snapshot_index = meta
    BY <1>1, <1>2, BusyFacts DEF InstallInv
  <1>4. table # Missing /\ table # Torn /\ table \in SUBSET Entry /\ 1..i \subseteq table
    BY <1>2, HoldsFacts
  <1>5. dedup' = table /\ tasks' = [tasks EXCEPT ![h] = [IdleTask EXCEPT !.pc = "done"]]
    BY <1>4 DEF InstallDedup
  <1>6. tasks' \in [Tasks -> Task] /\ OthersRest(h) /\ tasks'[h].pc = "done"
    BY <1>2, <1>5, SameTasks, EndFacts, IdleFacts DEF OthersRest
  <1>7. UNCHANGED <<running, wal, commit_index, applied_index, last_snapshot_index, objects,
                    apply, disk, meta, meta_tmp, restarts, forgot, Live>>
    BY DEF InstallDedup, files, Live
  <1>8. NodeOK'
    <2>1. tasks'[Local].pc \in LocalSteps /\ \A g \in Installers : tasks'[g].pc \in InstallSteps
      BY <1>2, <1>6, TasksType DEF InstallSteps
    <2> QED
      BY <1>2, <1>4, <1>5, <1>6, <1>7, <2>1 DEF NodeOK
  <1>9. TasksInv'
    <2>1. ~Busy(h)'
      BY <1>6 DEF Busy
    <2> QED
      BY <1>2, <1>6, <2>1, OnlyStep
  <1>10. DiskInv'
    BY <1>3, <1>7 DEF SnapshotInv, DiskInv
  <1>11. (\A j : ~InstallReaches(tasks, j)) /\ ~Swapping /\ ~HalfSaved
    BY <1>1, <1>2, <1>6, OnlyFacts
  <1>12. LogInv'
    BY <1>7, <1>11 DEF SnapshotInv, LogInv, Reaches
  <1>13. ApplyInv'
    <2> SUFFICES ASSUME apply.pc # "idle" PROVE ApplyInv'
      BY <1>7 DEF ApplyInv
    <2>1. 1..(apply.index - 1) \subseteq table /\ apply.index \in table
      BY <1>2, <1>4, FewerEntries
    <2> QED
      BY <1>5, <1>7, <1>11, <2>1 DEF SnapshotInv, ApplyInv, Reaches
  <1>14. DedupInv'
    <2>1. 1..applied_index \subseteq table
      BY <1>2, <1>4, FewerEntries
    <2> QED
      BY <1>5, <1>7, <1>11, <2>1 DEF SnapshotInv, DedupInv, TableFresh, TableInMemory, TableOnDisk
  <1> QED
    BY <1>8, <1>9, <1>10, <1>12, <1>13, <1>14 DEF SnapshotInv

(***************************************************************************)
(* The log and the apply thread.                                           *)
(***************************************************************************)

LEMMA InvReceiveEntry == ASSUME SnapshotInv, ReceiveEntry PROVE SnapshotInv'
  <1> DEFINE i == LogicalLastIndex + 1
             first == IF wal = EmptyWal THEN i ELSE wal.first
  <1>1. NodeOK
    BY DEF SnapshotInv
  <1>2. /\ wal.first \in Nat /\ wal.last \in Nat /\ wal.first >= 1 /\ MaxIndex \in Nat
        /\ last_snapshot_index \in Nat /\ applied_index \in Nat /\ apply.index \in Nat
        /\ meta \in Nat
    BY <1>1, TypeFacts
  <1>3. /\ LogicalLastIndex \in Nat /\ i \in Nat /\ wal.last < i /\ last_snapshot_index < i
        /\ i \in 1..MaxIndex
    BY <1>2, LogicalFacts DEF ReceiveEntry, Entry
  <1>4. wal' = [first |-> first, last |-> i] /\ (wal = EmptyWal \/ i = wal.last + 1)
    BY DEF ReceiveEntry
  <1>5. UNCHANGED <<running, commit_index, applied_index, last_snapshot_index, objects, dedup,
                    apply, tasks, disk, meta, meta_tmp, restarts, forgot, Live>>
    BY DEF ReceiveEntry, files, memory, Live
  <1>6. wal = EmptyWal \/ wal.first <= wal.last
    BY DEF SnapshotInv, LogInv
  <1> HIDE DEF i
  <1>7. /\ wal'.last = i /\ wal'.first = first /\ first \in 1..(MaxIndex + 1) /\ first <= i
        /\ wal' \in [first : 1..(MaxIndex + 1), last : 0..MaxIndex]
    <2>1. CASE wal = EmptyWal
      BY <1>2, <1>3, <1>4, <2>1
    <2>2. CASE wal # EmptyWal
      BY <1>1, <1>2, <1>3, <1>4, <1>6, <2>2 DEF NodeOK
    <2> QED
      BY <2>1, <2>2
  <1>8. wal.first..wal.last \subseteq wal'.first..wal'.last
    <2>1. CASE wal = EmptyWal
      <3>1. wal.first = 1 /\ wal.last = 0
        BY <2>1 DEF EmptyWal
      <3> QED
        BY <3>1
    <2>2. CASE wal # EmptyWal
      <3> HIDE DEF first
      <3>1. wal.first..wal.last \subseteq wal.first..i
        BY <1>2, <1>3
      <3> QED
        BY <1>7, <2>2, <3>1 DEF first
    <2> QED
      BY <2>1, <2>2
  <1> HIDE DEF first
  <1>9. \A x \in Nat : Reaches(x) => (x <= wal'.last \/ x <= last_snapshot_index'
                                         \/ InstallReaches(tasks', x))
    BY <1>2, <1>3, <1>5, <1>7 DEF Reaches
  <1>10. NodeOK'
    BY <1>1, <1>5, <1>7 DEF NodeOK
  <1>11. TasksInv'
    <2>1. OneTask' /\ \A t \in Tasks : Busy(t)' => TaskInv(t)'
      BY <1>5 DEF SnapshotInv, TasksInv, OneTask, Busy, TaskInv
    <2>2. Busy(Local)' => LocalInv'
      BY <1>5 DEF SnapshotInv, TasksInv, Busy, LocalInv
    <2>3. \A h \in Installers : Busy(h)' => InstallInv(h)'
      BY <1>5 DEF SnapshotInv, TasksInv, Busy, InstallInv
    <2> QED
      BY <2>1, <2>2, <2>3 DEF TasksInv
  <1>12. DiskInv'
    BY <1>5 DEF SnapshotInv, DiskInv
  <1>13. LogInv'
    <2>1. Reaches(applied_index)'
      BY <1>2, <1>5, <1>9 DEF SnapshotInv, LogInv, Reaches
    <2>2. wal' = EmptyWal \/ wal'.first <= wal'.last
      BY <1>3, <1>7
    <2>3. (meta + 1)..applied_index \subseteq wal'.first..wal'.last
      BY <1>8 DEF SnapshotInv, LogInv
    <2>4. ~Swapping' => 1..applied_index \subseteq Live
      BY <1>5 DEF SnapshotInv, LogInv, Swapping
    <2> QED
      BY <1>5, <2>1, <2>2, <2>3, <2>4 DEF LogInv
  <1>14. ApplyInv'
    <2>1. apply.pc # "idle" => Reaches(apply.index)'
      BY <1>2, <1>5, <1>9 DEF SnapshotInv, ApplyInv, Reaches
    <2>2. TableFresh' <=> TableFresh
      BY <1>5 DEF TableFresh
    <2> QED
      BY <1>5, <1>8, <2>1, <2>2 DEF SnapshotInv, ApplyInv
  <1>15. DedupInv'
    BY <1>5 DEF SnapshotInv, DedupInv, TableOnDisk, TableInMemory, TableFresh, HalfSaved
  <1> QED
    BY <1>10, <1>11, <1>12, <1>13, <1>14, <1>15 DEF SnapshotInv

LEMMA InvAdvanceCommit == ASSUME SnapshotInv, AdvanceCommit PROVE SnapshotInv'
  <1>1. UNCHANGED <<running, wal, applied_index, last_snapshot_index, objects, dedup, apply, tasks,
                    disk, meta, meta_tmp, restarts, forgot, Live>>
    BY DEF AdvanceCommit, files, Live
  <1>2. NodeOK'
    <2>1. NodeOK
      BY DEF SnapshotInv
    <2>2. /\ wal.last \in Nat /\ last_snapshot_index \in Nat /\ commit_index \in Nat
          /\ wal.last <= MaxIndex /\ last_snapshot_index <= MaxIndex /\ MaxIndex \in Nat
      BY <2>1, TypeFacts DEF NodeOK
    <2>3. commit_index' \in 0..MaxIndex
      BY <2>2, LogicalFacts DEF AdvanceCommit
    <2> QED
      BY <1>1, <2>1, <2>3 DEF NodeOK
  <1>3. TasksInv'
    <2>1. OneTask' /\ \A t \in Tasks : Busy(t)' => TaskInv(t)'
      BY <1>1 DEF SnapshotInv, TasksInv, OneTask, Busy, TaskInv
    <2>2. Busy(Local)' => LocalInv'
      BY <1>1 DEF SnapshotInv, TasksInv, Busy, LocalInv
    <2>3. \A h \in Installers : Busy(h)' => InstallInv(h)'
      BY <1>1 DEF SnapshotInv, TasksInv, Busy, InstallInv
    <2> QED
      BY <2>1, <2>2, <2>3 DEF TasksInv
  <1>4. DiskInv' /\ LogInv' /\ ApplyInv' /\ DedupInv'
    <2>1. DiskInv'
      BY <1>1 DEF SnapshotInv, DiskInv
    <2>2. LogInv'
      BY <1>1 DEF SnapshotInv, LogInv, Reaches, Swapping
    <2>3. ApplyInv'
      BY <1>1 DEF SnapshotInv, ApplyInv, Reaches, TableFresh
    <2>4. DedupInv'
      BY <1>1 DEF SnapshotInv, DedupInv, TableOnDisk, TableInMemory, TableFresh, HalfSaved
    <2> QED
      BY <2>1, <2>2, <2>3, <2>4
  <1> QED
    BY <1>2, <1>3, <1>4 DEF SnapshotInv

\* The indices of the apply thread against those of the tasks, after a step of that thread.
InStep ==
    /\ Busy(Local) => /\ tasks[Local].index <= applied_index'
                      /\ apply'.pc # "idle" => tasks[Local].index <= apply'.index
    /\ \A h \in Installers :
          /\ tasks[h].pc \in {"truncate", "applied", "commit", "load_dedup"} =>
                (apply'.pc # "idle" => apply'.index <= tasks[h].index)
          /\ tasks[h].pc \in {"commit", "load_dedup"} => applied_index' <= tasks[h].index

\* A step of the apply thread leaves the tasks alone: the objects only grow, and a local
\* snapshot stays behind what is applied and an install ahead of it.
LEMMA ApplyFrame ==
    ASSUME SnapshotInv,
           UNCHANGED <<wal, last_snapshot_index, tasks, disk, meta, meta_tmp, forgot>>,
           Len(objects') = Len(objects), Live \subseteq Live',
           \A k \in 1..Len(objects) : objects[k] \subseteq objects'[k], InStep
    PROVE  TasksInv'
  <1>1. OneTask' /\ \A t \in Tasks : Busy(t)' => TaskInv(t)'
    BY DEF SnapshotInv, TasksInv, OneTask, Busy, TaskInv
  <1>2. Busy(Local)' => LocalInv'
    <2> SUFFICES ASSUME Busy(Local) PROVE LocalInv'
      BY DEF Busy
    <2>1. LocalInv
      BY DEF SnapshotInv, TasksInv
    <2> QED
      BY <2>1 DEF LocalInv, InStep
  <1>3. \A h \in Installers : Busy(h)' => InstallInv(h)'
    <2> SUFFICES ASSUME NEW h \in Installers, Busy(h) PROVE InstallInv(h)'
      BY DEF Busy
    <2>1. InstallInv(h)
      BY DEF SnapshotInv, TasksInv
    <2> QED
      BY <2>1 DEF InstallInv, InStep
  <1> QED
    BY <1>1, <1>2, <1>3 DEF TasksInv

\* A handler past the swap is busy, and knows where the apply thread may be.
LEMMA InstallAhead ==
    ASSUME SnapshotInv, NEW h \in Installers,
           tasks[h].pc \in {"truncate", "applied", "commit", "load_dedup"}
    PROVE  /\ Busy(h) /\ 1..tasks[h].index \subseteq Live
           /\ apply.pc # "idle" => apply.index <= tasks[h].index
           /\ tasks[h].pc \in {"commit", "load_dedup"} => applied_index <= tasks[h].index
  <1>1. Busy(h)
    BY DEF Busy
  <1>2. InstallInv(h)
    BY <1>1 DEF SnapshotInv, TasksInv
  <1> QED
    BY <1>1, <1>2 DEF InstallInv

\* The entry in hand stays the same, or is stored.
LEMMA EntryInHand ==
    ASSUME SnapshotInv, apply.pc # "idle",
           \/ applied_index' = applied_index /\ apply'.index = apply.index
           \/ applied_index' = apply.index /\ apply'.pc = "idle"
    PROVE  InStep
  <1>1. Busy(Local) => /\ tasks[Local].index <= applied_index
                       /\ tasks[Local].index <= apply.index
    BY DEF SnapshotInv, TasksInv, LocalInv
  <1>2. ASSUME NEW h \in Installers,
               tasks[h].pc \in {"truncate", "applied", "commit", "load_dedup"}
        PROVE  /\ apply.index <= tasks[h].index
               /\ tasks[h].pc \in {"commit", "load_dedup"} => applied_index <= tasks[h].index
    BY <1>2, InstallAhead
  <1> QED
    BY <1>1, <1>2 DEF InStep

LEMMA InvApplyRead == ASSUME SnapshotInv, ~Disturbed', ApplyRead PROVE SnapshotInv'
  <1> DEFINE i == applied_index + 1
  <1>1. NodeOK
    BY DEF SnapshotInv
  <1>2. /\ wal.first \in Nat /\ wal.last \in Nat /\ wal.first >= 1 /\ MaxIndex \in Nat
        /\ applied_index \in Nat /\ meta \in Nat /\ wal.last <= MaxIndex
    BY <1>1, TypeFacts DEF NodeOK
  <1>3. i \in wal.first..wal.last /\ i <= wal.last /\ i \in 1..MaxIndex
    BY <1>2 DEF ApplyRead, InWal
  <1>4. UNCHANGED <<running, wal, commit_index, applied_index, last_snapshot_index, objects, dedup,
                    tasks, disk, meta, meta_tmp, restarts, forgot, Live>>
    BY DEF ApplyRead, files, memory, Live
  <1>5. /\ apply' \in [pc : {"idle", "fetch", "execute", "record", "store"}, index : 0..MaxIndex,
                       object : Nat]
        /\ apply'.pc = "fetch" /\ apply'.index = i
    <2>1. apply' = [apply EXCEPT !.pc = "fetch", !.index = i] /\ i \in 0..MaxIndex
      BY <1>2, <1>3 DEF ApplyRead
    <2> HIDE DEF i
    <2> QED
      BY <1>1, <2>1 DEF NodeOK
  <1>6. NodeOK'
    BY <1>1, <1>4, <1>5 DEF NodeOK
  <1>7. \A h \in Installers : tasks[h].pc \in {"truncate", "applied", "commit", "load_dedup"}
                                  => i <= tasks[h].index
    <2> SUFFICES ASSUME NEW h \in Installers,
                        tasks[h].pc \in {"truncate", "applied", "commit", "load_dedup"}
                 PROVE  i <= tasks[h].index
      OBVIOUS
    <2>1. tasks[h].index \in Nat
      BY <1>1, TypeFacts
    <2>2. ~(apply'.index > tasks[h].index)
      BY <1>4, <1>5 DEF Disturbed, Crossing
    <2> QED
      BY <1>2, <1>5, <2>1, <2>2
  <1>8. TasksInv'
    <2>1. Busy(Local) => tasks[Local].index <= applied_index
      BY DEF SnapshotInv, TasksInv, LocalInv
    <2>2. tasks[Local].index \in Nat
      BY <1>1, TypeFacts
    <2>3. Busy(Local) => tasks[Local].index <= i
      BY <1>2, <2>1, <2>2
    <2> HIDE DEF i
    <2>4. \A h \in Installers : tasks[h].pc \in {"commit", "load_dedup"} =>
                                    applied_index <= tasks[h].index
      BY InstallAhead
    <2>5. InStep
      BY <1>4, <1>5, <1>7, <2>1, <2>3, <2>4 DEF InStep
    <2> QED
      BY <1>4, <2>5, ApplyFrame
  <1>9. DiskInv'
    BY <1>4 DEF SnapshotInv, DiskInv
  <1>10. LogInv'
    BY <1>4 DEF SnapshotInv, LogInv, Reaches, Swapping
  <1>11. ApplyInv'
    <2>1. (meta + 1)..i \subseteq wal.first..wal.last
      <3> SUFFICES ASSUME NEW x \in (meta + 1)..i PROVE x \in wal.first..wal.last
        OBVIOUS
      <3>1. x = i \/ x \in (meta + 1)..applied_index
        BY <1>2
      <3>2. (meta + 1)..applied_index \subseteq wal.first..wal.last
        BY DEF SnapshotInv, LogInv
      <3> QED
        BY <1>3, <3>1, <3>2
    <2>2. i - 1 = applied_index
      BY <1>2
    <2>3. 1..(i - 1) \subseteq Live
      <3>1. CASE ~Swapping
        BY <2>2, <3>1 DEF SnapshotInv, LogInv
      <3>2. CASE Swapping
        <4>1. PICK h \in Installers : tasks[h].pc \in {"truncate", "applied"}
          BY <3>2 DEF Swapping
        <4>2. 1..tasks[h].index \subseteq Live /\ i <= tasks[h].index /\ tasks[h].index \in Nat
          BY <1>1, <1>7, <4>1, InstallAhead, TypeFacts
        <4>3. 1..applied_index \subseteq 1..tasks[h].index
          BY <1>2, <4>2
        <4> QED
          BY <2>2, <4>2, <4>3
      <3> QED
        BY <3>1, <3>2
    <2>4. TableFresh => 1..(i - 1) \subseteq dedup
      BY <2>2 DEF SnapshotInv, DedupInv, TableFresh, TableInMemory
    <2>5. TableFresh' <=> TableFresh
      BY <1>4 DEF TableFresh
    <2>6. Reaches(apply.index)'
      BY <1>3, <1>4, <1>5 DEF Reaches
    <2> HIDE DEF i
    <2> QED
      BY <1>3, <1>4, <1>5, <2>1, <2>3, <2>4, <2>5, <2>6 DEF ApplyInv
  <1>12. DedupInv'
    BY <1>4 DEF SnapshotInv, DedupInv, TableOnDisk, TableInMemory, TableFresh, HalfSaved
  <1> QED
    BY <1>6, <1>8, <1>9, <1>10, <1>11, <1>12 DEF SnapshotInv

LEMMA InvApplyFetch == ASSUME SnapshotInv, ApplyFetch PROVE SnapshotInv'
  <1>1. NodeOK
    BY DEF SnapshotInv
  <1>2. UNCHANGED <<running, wal, commit_index, applied_index, last_snapshot_index, objects, dedup,
                    tasks, disk, meta, meta_tmp, restarts, forgot, Live>>
    BY DEF ApplyFetch, files, memory, Live
  <1>3. Len(objects) \in Nat /\ Len(objects) >= 1
    BY <1>1, TypeFacts
  <1>4. /\ apply' \in [pc : {"idle", "fetch", "execute", "record", "store"}, index : 0..MaxIndex,
                       object : Nat]
        /\ apply'.pc = "execute" /\ apply'.index = apply.index /\ apply'.object = Len(objects)
        /\ apply.pc = "fetch"
    BY <1>1, <1>3 DEF ApplyFetch, NodeOK
  <1>5. NodeOK'
    BY <1>1, <1>2, <1>4 DEF NodeOK
  <1>6. TasksInv'
    <2>1. InStep
      BY <1>2, <1>4, EntryInHand
    <2> QED
      BY <1>2, <2>1, ApplyFrame
  <1>7. DiskInv'
    BY <1>2 DEF SnapshotInv, DiskInv
  <1>8. LogInv'
    BY <1>2 DEF SnapshotInv, LogInv, Reaches, Swapping
  <1>9. ApplyInv'
    BY <1>2, <1>3, <1>4 DEF SnapshotInv, ApplyInv, Reaches, TableFresh
  <1>10. DedupInv'
    BY <1>2 DEF SnapshotInv, DedupInv, TableOnDisk, TableInMemory, TableFresh, HalfSaved
  <1> QED
    BY <1>5, <1>6, <1>7, <1>8, <1>9, <1>10 DEF SnapshotInv

LEMMA InvApplyExecute == ASSUME SnapshotInv, ApplyExecute PROVE SnapshotInv'
  <1> DEFINE o == apply.object
             v == objects[o] \cup {apply.index}
  <1>1. NodeOK /\ apply.pc = "execute"
    BY DEF SnapshotInv, ApplyExecute
  <1>2. UNCHANGED <<running, wal, commit_index, applied_index, last_snapshot_index, dedup,
                    tasks, disk, meta, meta_tmp, restarts, forgot>>
    BY DEF ApplyExecute, files
  <1>3. /\ o \in 1..Len(objects) /\ (o = Len(objects) \/ apply.index \in Live)
        /\ apply.index \in 1..MaxIndex
    BY <1>1 DEF SnapshotInv, ApplyInv
  <1>4. /\ apply' \in [pc : {"idle", "fetch", "execute", "record", "store"}, index : 0..MaxIndex,
                       object : Nat]
        /\ apply'.pc = "record" /\ apply'.index = apply.index
    BY <1>1 DEF ApplyExecute, NodeOK
  <1>5. objects' = [objects EXCEPT ![o] = v]
    BY DEF ApplyExecute
  <1>6. /\ objects \in Seq(SUBSET Entry) /\ Len(objects) \in Nat /\ Len(objects) >= 1
        /\ objects[o] \subseteq Entry
    BY <1>1, <1>3, TypeFacts DEF NodeOK
  <1>7. v \in SUBSET Entry /\ objects[o] \subseteq v /\ apply.index \in v
    BY <1>3, <1>6 DEF Entry
  <1> HIDE DEF v, o
  <1>8. /\ objects' \in Seq(SUBSET Entry) /\ Len(objects') = Len(objects) /\ objects'[o] = v
        /\ \A k \in 1..Len(objects) : k # o => objects'[k] = objects[k]
    BY <1>3, <1>5, <1>6, <1>7, ExceptSeq
  <1>9. objects' # <<>>
    BY <1>6, <1>8, EmptySeq
  <1>10. \A k \in 1..Len(objects) : objects[k] \subseteq objects'[k]
    BY <1>7, <1>8
  <1>11. Live \subseteq Live' /\ apply.index \in Live'
    <2>1. Len(objects) \in 1..Len(objects) /\ Live' = objects'[Len(objects)]
      BY <1>6, <1>8 DEF Live
    <2>2. Live \subseteq Live'
      BY <1>10, <2>1 DEF Live
    <2> QED
      BY <1>3, <1>7, <1>8, <2>1, <2>2
  <1>12. NodeOK'
    BY <1>1, <1>2, <1>4, <1>8, <1>9 DEF NodeOK
  <1>13. TasksInv'
    <2>1. InStep
      BY <1>1, <1>2, <1>4, EntryInHand
    <2> QED
      BY <1>2, <1>8, <1>10, <1>11, <2>1, ApplyFrame
  <1>14. DiskInv'
    BY <1>2 DEF SnapshotInv, DiskInv
  <1>15. LogInv'
    BY <1>2, <1>11 DEF SnapshotInv, LogInv, Reaches, Swapping
  <1>16. ApplyInv'
    BY <1>1, <1>2, <1>4, <1>11 DEF SnapshotInv, ApplyInv, Reaches, TableFresh
  <1>17. DedupInv'
    BY <1>2 DEF SnapshotInv, DedupInv, TableOnDisk, TableInMemory, TableFresh, HalfSaved
  <1> QED
    BY <1>12, <1>13, <1>14, <1>15, <1>16, <1>17 DEF SnapshotInv

LEMMA InvApplyRecord == ASSUME SnapshotInv, ApplyRecord PROVE SnapshotInv'
  <1>1. NodeOK /\ apply.pc = "record" /\ dedup' = dedup \cup {apply.index}
    BY DEF SnapshotInv, ApplyRecord
  <1>2. UNCHANGED <<running, wal, commit_index, applied_index, last_snapshot_index, objects,
                    tasks, disk, meta, meta_tmp, restarts, forgot, Live>>
    BY DEF ApplyRecord, files, Live
  <1>3. apply.index \in Entry
    BY <1>1 DEF SnapshotInv, ApplyInv, Entry
  <1>4. /\ apply' \in [pc : {"idle", "fetch", "execute", "record", "store"}, index : 0..MaxIndex,
                       object : Nat]
        /\ apply'.pc = "store" /\ apply'.index = apply.index
    BY <1>1 DEF ApplyRecord, NodeOK
  <1>5. NodeOK'
    BY <1>1, <1>2, <1>3, <1>4 DEF NodeOK
  <1>6. TasksInv'
    <2>1. InStep
      BY <1>1, <1>2, <1>4, EntryInHand
    <2> QED
      BY <1>2, <2>1, ApplyFrame
  <1>7. DiskInv'
    BY <1>2 DEF SnapshotInv, DiskInv
  <1>8. LogInv'
    BY <1>2 DEF SnapshotInv, LogInv, Reaches, Swapping
  <1>9. ApplyInv'
    BY <1>1, <1>2, <1>4 DEF SnapshotInv, ApplyInv, Reaches, TableFresh
  <1>10. DedupInv'
    BY <1>1, <1>2 DEF SnapshotInv, DedupInv, TableOnDisk, TableInMemory, TableFresh, HalfSaved
  <1> QED
    BY <1>5, <1>6, <1>7, <1>8, <1>9, <1>10 DEF SnapshotInv

\* The entry in hand is applied: all conjuncts that do not speak of the tasks' own files.
LEMMA StoreFacts ==
    ASSUME SnapshotInv, apply.pc = "store", applied_index' = apply.index, apply' = IdleApply,
           UNCHANGED <<running, wal, commit_index, last_snapshot_index, objects, dedup, disk, meta,
                       meta_tmp, restarts, forgot>>,
           \A h \in Installers : tasks'[h] = tasks[h], HalfSaved' => HalfSaved,
           HalfSaved => HalfSaved'
    PROVE  LogInv' /\ ApplyInv' /\ DedupInv' /\ 1..apply.index \subseteq Live
  <1>1. /\ Live' = Live /\ apply.index \in 1..MaxIndex /\ MaxIndex \in Nat
    BY SnapshotAssumption DEF SnapshotInv, ApplyInv, Live
  <1>2. 1..apply.index \subseteq 1..(apply.index - 1) \cup {apply.index}
    BY <1>1
  <1>3. 1..apply.index \subseteq Live
    BY <1>2 DEF SnapshotInv, ApplyInv
  <1>4. TableFresh' => TableFresh
    BY DEF TableFresh
  <1>5. TableFresh => 1..apply.index \subseteq dedup
    BY <1>2 DEF SnapshotInv, ApplyInv
  <1>6. Reaches(applied_index)'
    <2>1. Reaches(apply.index)
      BY DEF SnapshotInv, ApplyInv
    <2>2. InstallReaches(tasks, apply.index) => InstallReaches(tasks', apply.index)
      BY DEF InstallReaches
    <2> QED
      BY <2>1, <2>2 DEF Reaches
  <1>7. LogInv'
    BY <1>1, <1>3, <1>6 DEF SnapshotInv, ApplyInv, LogInv
  <1>8. ApplyInv'
    BY IdleFacts DEF ApplyInv
  <1>9. DedupInv'
    BY <1>4, <1>5 DEF SnapshotInv, DedupInv, TableOnDisk, TableInMemory
  <1> QED
    BY <1>3, <1>7, <1>8, <1>9

LEMMA InvApplyStore == ASSUME SnapshotInv, ~Disturbed', ApplyStore PROVE SnapshotInv'
  <1> DEFINE i == apply.index
  <1>1. NodeOK /\ apply.pc = "store" /\ applied_index' = i /\ apply' = IdleApply
    BY DEF SnapshotInv, ApplyStore
  <1>2. UNCHANGED <<running, wal, commit_index, last_snapshot_index, objects, dedup, disk, meta,
                    meta_tmp, restarts, forgot, Live>>
    BY DEF ApplyStore, files, Live
  <1>3. i \in 1..MaxIndex /\ MaxIndex \in Nat /\ i \in 0..MaxIndex
    BY <1>1, SnapshotAssumption DEF SnapshotInv, ApplyInv
  <1>4. CASE ~ShouldSnapshot(i)
    <2>1. tasks' = tasks
      BY <1>4 DEF ApplyStore
    <2>2. NodeOK'
      BY <1>1, <1>2, <1>3, <2>1, IdleFacts DEF NodeOK
    <2>3. TasksInv'
      <3>1. InStep
        BY <1>1, EntryInHand, IdleFacts
      <3> QED
        BY <1>2, <2>1, <3>1, ApplyFrame
    <2>4. LogInv' /\ ApplyInv' /\ DedupInv'
      <3>1. HalfSaved' <=> HalfSaved
        BY <2>1 DEF HalfSaved
      <3> QED
        BY <1>1, <1>2, <2>1, <3>1, StoreFacts
    <2>5. DiskInv'
      BY <1>2, <2>1 DEF SnapshotInv, DiskInv
    <2> QED
      BY <2>2, <2>3, <2>4, <2>5 DEF SnapshotInv
  <1>5. CASE ShouldSnapshot(i)
    <2> DEFINE t == Local
               r == [IdleTask EXCEPT !.pc = "init", !.index = i, !.object = Len(objects)]
    <2>3. Len(objects) \in Nat /\ Len(objects) >= 1
      BY <1>1, TypeFacts
    <2>4. r \in Task /\ r.pc = "init" /\ r.index = i /\ r.object = Len(objects)
      BY <1>3, <2>3 DEF IdleTask, Task, LocalSteps
    <2>5. tasks' = [tasks EXCEPT ![t] = r]
      BY <1>5 DEF ApplyStore
    <2>1. t \in Tasks /\ \A s \in Tasks : tasks[s].pc \in {"idle", "done"}
      <3>1. t \in Tasks /\ tasks[t].pc = "idle" /\ tasks \in [Tasks -> Task]
        BY <1>1, <1>5, TypeFacts DEF ShouldSnapshot, NodeOK
      <3>2. tasks'[t].pc = "init" /\ \A s \in Tasks : s # t => tasks'[s] = tasks[s]
        BY <2>4, <2>5, <3>1
      <3>3. \A s \in Tasks : s # t => ~Busy(s)'
        BY <3>1, <3>2 DEF Disturbed, Meeting, Busy
      <3> QED
        BY <3>1, <3>2, <3>3 DEF Busy
    <2>2. OnlyTask(t)
      BY <2>1 DEF OnlyTask
    <2> HIDE DEF r
    <2>6. /\ tasks' \in [Tasks -> Task] /\ OthersRest(t) /\ tasks'[t].pc = "init"
          /\ tasks'[t].index = i /\ tasks'[t].object = Len(objects)
      BY <1>1, <2>1, <2>4, <2>5, SameTasks, EndFacts DEF OthersRest
    <2>7. /\ ~HalfSaved /\ ~HalfSaved' /\ (\A s \in Tasks : tasks[s].pc \notin Finalized(s))
          /\ \A h \in Installers : tasks'[h] = tasks[h]
      <3>1. \A h \in Installers : h \in Tasks /\ h # t
        BY <1>1, TypeFacts
      <3>2. \A h \in Installers : tasks'[h] = tasks[h]
        BY <2>5, <3>1 DEF OthersRest
      <3>3. ~HalfSaved
        BY <2>1, <3>1 DEF HalfSaved
      <3>4. ~HalfSaved'
        BY <2>1, <2>6, <3>1, <3>2 DEF HalfSaved
      <3>5. \A s \in Tasks : tasks[s].pc \notin Finalized(s)
        BY <2>1 DEF Finalized
      <3> QED
        BY <3>2, <3>3, <3>4, <3>5
    <2>8. LogInv' /\ ApplyInv' /\ DedupInv' /\ 1..i \subseteq Live
      BY <1>1, <1>2, <2>7, StoreFacts
    <2>9. meta = last_snapshot_index /\ last_snapshot_index <= i
      <3>1. meta = last_snapshot_index
        BY <2>7 DEF SnapshotInv, DiskInv
      <3>2. last_snapshot_index \in Nat
        BY <1>1, TypeFacts
      <3> QED
        BY <1>3, <1>5, <3>1, <3>2 DEF ShouldSnapshot
    <2>10. NodeOK'
      <3>1. tasks'[Local].pc \in LocalSteps /\ \A g \in Installers : tasks'[g].pc \in InstallSteps
        BY <1>1, <2>1, <2>6, TasksType DEF LocalSteps
      <3> QED
        BY <1>1, <1>2, <1>3, <2>6, <3>1, IdleFacts DEF NodeOK
    <2>11. TasksInv'
      <3>1. TaskInv(t)'
        BY <1>2, <1>3, <2>6, <2>9 DEF TaskInv, FileReady, TableReady, Finalized
      <3>2. LocalInv'
        BY <1>1, <1>2, <1>3, <2>3, <2>6, <2>8, IdleFacts DEF LocalInv, Live
      <3> QED
        BY <1>1, <2>1, <2>2, <2>6, <3>1, <3>2, OnlyStep
    <2>12. DiskInv'
      BY <1>2, <2>9 DEF SnapshotInv, DiskInv
    <2> QED
      BY <2>8, <2>10, <2>11, <2>12 DEF SnapshotInv
  <1> QED
    BY <1>4, <1>5

(***************************************************************************)
(* A crash and the restart.                                                *)
(***************************************************************************)

\* What bootstrap makes of the files: it succeeds, and the snapshot is the one of
\* snapshot.meta.
LEMMA RestartFacts ==
    ASSUME SnapshotInv
    PROVE  /\ RestoredIndex = meta
           /\ HasSnapshot => Holds(disk["snapshot.usearch"], meta) /\ disk["dedup.bin"] # Torn
           /\ ~HasSnapshot => meta = 0
  <1>1. SoundDisk
    BY DEF SnapshotInv, DiskInv, SoundDisk
  <1>2. meta # 0 => Holds(disk["snapshot.usearch"], meta)
    BY <1>1 DEF SoundDisk
  <1>3. meta # 0 => HasSnapshot
    BY <1>2, HoldsFacts DEF HasSnapshot
  <1> QED
    BY <1>1, <1>2, <1>3 DEF HasSnapshot, RestoredIndex, SoundDisk

LEMMA InvRestart == ASSUME SnapshotInv, Restart PROVE SnapshotInv'
  <1> DEFINE file == disk["snapshot.usearch"]
             table == disk["dedup.bin"]
             new == IF HasSnapshot THEN file ELSE {}
  <1>1. NodeOK /\ meta \in 0..MaxIndex /\ meta \in Nat /\ restarts \in 0..MaxRestarts
    BY TypeFacts DEF SnapshotInv, NodeOK
  <1>2. /\ RestoredIndex = meta
        /\ HasSnapshot => Holds(file, meta) /\ table # Torn
        /\ ~HasSnapshot => meta = 0
    BY RestartFacts
  <1>3. HasSnapshot => file # Torn /\ file \in SUBSET Entry /\ 1..meta \subseteq file
    BY <1>2, HoldsFacts
  <1>4. running' = TRUE
    BY <1>2, <1>3 DEF Restart
  <1>5. /\ commit_index' = meta /\ applied_index' = meta /\ last_snapshot_index' = meta
        /\ objects' = <<new>> /\ apply' = IdleApply /\ meta_tmp' = 0
        /\ disk' = WithoutFiles(TemporaryFiles) /\ UNCHANGED <<wal, meta>>
        /\ restarts' = restarts + 1 /\ restarts < MaxRestarts
        /\ forgot' = (forgot \/ HalfSaved)
    BY <1>2, <1>4 DEF Restart
  <1>6. new \in SUBSET Entry /\ 1..meta \subseteq new
    <2>1. CASE HasSnapshot
      BY <1>3, <2>1
    <2>2. CASE ~HasSnapshot
      BY <1>2, <2>2
    <2> QED
      BY <2>1, <2>2
  <1> HIDE DEF new
  <1>7. objects' \in Seq(SUBSET Entry) /\ objects' # <<>> /\ Live' = new
    <2>1. objects' \in Seq(SUBSET Entry) /\ Len(objects') = 1 /\ objects'[1] = new
      BY <1>5, <1>6
    <2> QED
      BY <2>1, EmptySeq DEF Live
  <1>8. /\ dedup' \subseteq Entry
        /\ dedup' = IF HasSnapshot /\ table # Missing THEN table ELSE {}
    <2>1. table \in Contents
      BY <1>1 DEF NodeOK, Files
    <2>2. dedup' = IF HasSnapshot /\ table # Missing THEN table ELSE {}
      BY <1>4 DEF Restart
    <2> QED
      BY <1>2, <2>1, <2>2 DEF Contents
  <1>9. /\ disk' \in [Files -> Contents]
        /\ disk'["snapshot.usearch"] = file /\ disk'["dedup.bin"] = table
    BY <1>1, <1>5, WithoutFacts
  <1>10. /\ tasks' \in [Tasks -> Task]
         /\ \A t \in Tasks : tasks'[t].pc \in {"idle", "done"}
         /\ tasks'[Local].pc = "idle"
    <2> DEFINE v(t) == IF t = Local \/ tasks[t].pc = "idle" THEN IdleTask
                       ELSE [IdleTask EXCEPT !.pc = "done"]
    <2>1. tasks' = [t \in Tasks |-> v(t)] /\ Local \in Tasks
      BY <1>1, TypeFacts DEF Restart
    <2>2. \A t : v(t) \in Task /\ v(t).pc \in {"idle", "done"}
      BY IdleFacts
    <2>3. v(Local).pc = "idle"
      BY IdleFacts
    <2> HIDE DEF v
    <2> QED
      BY <2>1, <2>2, <2>3
  <1>11. NodeOK'
    <2>1. \A h \in Installers : h \in Tasks
      BY DEF Tasks
    <2>2. tasks'[Local].pc \in LocalSteps /\ \A h \in Installers : tasks'[h].pc \in InstallSteps
      BY <1>10, <2>1 DEF LocalSteps, InstallSteps
    <2>3. restarts' \in 0..MaxRestarts /\ 0 \in 0..MaxIndex
      BY <1>1, <1>5, SnapshotAssumption
    <2>4. wal' \in [first : 1..(MaxIndex + 1), last : 0..MaxIndex]
      BY <1>1, <1>5 DEF NodeOK
    <2>5. forgot' \in BOOLEAN
      BY <1>5
    <2>6. dedup' \subseteq Entry
      BY <1>8
    <2> QED
      BY <1>1, <1>4, <1>5, <1>7, <1>9, <1>10, <2>2, <2>3, <2>4, <2>5, <2>6, IdleFacts DEF NodeOK
  <1>12. TasksInv'
    <2>1. \A t \in Tasks : ~Busy(t)'
      BY <1>10 DEF Busy
    <2>2. Local \in Tasks /\ \A h \in Installers : h \in Tasks
      BY DEF Tasks
    <2> QED
      BY <2>1, <2>2 DEF TasksInv, OneTask
  <1>13. DiskInv'
    BY <1>4, <1>5, <1>9 DEF SnapshotInv, DiskInv
  <1>14. LogInv'
    <2>1. (meta + 1)..meta \subseteq wal.first..wal.last
      BY <1>1, NothingBetween
    <2>2. Reaches(applied_index)'
      BY <1>1, <1>5 DEF Reaches
    <2> QED
      BY <1>5, <1>6, <1>7, <2>1, <2>2 DEF SnapshotInv, LogInv
  <1>15. ApplyInv'
    BY <1>5, IdleFacts DEF ApplyInv
  <1>16. DedupInv'
    <2>1. (~forgot' /\ meta # 0) => Holds(table, meta)
      BY <1>5 DEF SnapshotInv, DedupInv, TableOnDisk
    <2>2. TableOnDisk'
      BY <1>5, <1>9, <2>1 DEF TableOnDisk
    <2>3. TableInMemory'
      <3>1. CASE meta = 0
        <4>1. 1..meta = {}
          BY <3>1
        <4> QED
          BY <1>5, <4>1 DEF TableInMemory
      <3>2. CASE meta # 0
        <4>1. ~forgot' => table # Missing /\ 1..meta \subseteq table /\ HasSnapshot
          BY <1>2, <2>1, <3>2, HoldsFacts
        <4> QED
          BY <1>5, <1>8, <4>1 DEF TableInMemory, TableFresh
      <3> QED
        BY <3>1, <3>2
    <2> QED
      BY <2>2, <2>3 DEF DedupInv
  <1> QED
    BY <1>11, <1>12, <1>13, <1>14, <1>15, <1>16 DEF SnapshotInv

LEMMA SnapshotInitially == Init => SnapshotInv
  <1> SUFFICES ASSUME Init PROVE SnapshotInv
    OBVIOUS
  <1>1. MaxIndex \in Nat /\ MaxRestarts \in Nat
    BY SnapshotAssumption
  <1>2. \A t \in Tasks : tasks[t] = IdleTask
    BY DEF Init
  <1>3. Local \in Tasks /\ \A h \in Installers : h \in Tasks
    BY DEF Tasks
  <1>4. objects \in Seq(SUBSET Entry) /\ objects # <<>> /\ Live = {}
    <2>1. objects \in Seq(SUBSET Entry) /\ Len(objects) = 1 /\ objects[1] = {}
      BY DEF Init
    <2> QED
      BY <2>1, EmptySeq DEF Live
  <1>5. NodeOK
    <2>1. wal \in [first : 1..(MaxIndex + 1), last : 0..MaxIndex]
      BY <1>1 DEF Init, EmptyWal
    <2>2. tasks \in [Tasks -> Task] /\ disk \in [Files -> Contents]
      BY IdleFacts DEF Init, Contents
    <2>3. tasks[Local].pc \in LocalSteps /\ \A h \in Installers : tasks[h].pc \in InstallSteps
      BY <1>2, <1>3, IdleFacts DEF LocalSteps, InstallSteps
    <2>4. forgot \in BOOLEAN /\ running \in BOOLEAN
      BY DEF Init
    <2> QED
      BY <1>1, <1>4, <2>1, <2>2, <2>3, <2>4, IdleFacts DEF NodeOK, Init
  <1>6. TasksInv
    BY <1>2, <1>3, IdleFacts DEF TasksInv, OneTask, Busy
  <1>7. DiskInv
    BY <1>3, SnapshotAssumption DEF DiskInv, Init, Files
  <1>8. LogInv /\ ApplyInv /\ DedupInv
    <2>1. 1..0 = {} /\ (0 + 1)..0 = {}
      OBVIOUS
    <2> QED
      BY <2>1, IdleFacts DEF LogInv, ApplyInv, DedupInv, TableOnDisk, TableInMemory, Reaches, Init
  <1> QED
    BY <1>5, <1>6, <1>7, <1>8 DEF SnapshotInv

LEMMA SnapshotStutters == ASSUME SnapshotInv, UNCHANGED vars PROVE SnapshotInv'
  <1>1. UNCHANGED <<running, wal, commit_index, applied_index, last_snapshot_index, objects, dedup,
                    apply, tasks, disk, meta, meta_tmp, restarts, forgot, Live>>
    BY DEF vars, memory, files, Live
  <1>2. NodeOK'
    BY <1>1 DEF SnapshotInv, NodeOK
  <1>3. OneTask' /\ \A t \in Tasks : Busy(t)' => TaskInv(t)'
    BY <1>1 DEF SnapshotInv, TasksInv, OneTask, Busy, TaskInv
  <1>4. Busy(Local)' => LocalInv'
    BY <1>1 DEF SnapshotInv, TasksInv, Busy, LocalInv
  <1>5. \A h \in Installers : Busy(h)' => InstallInv(h)'
    BY <1>1 DEF SnapshotInv, TasksInv, Busy, InstallInv
  <1>6. DiskInv'
    BY <1>1 DEF SnapshotInv, DiskInv
  <1>7. LogInv'
    BY <1>1 DEF SnapshotInv, LogInv, Reaches, Swapping
  <1>8. ApplyInv'
    BY <1>1 DEF SnapshotInv, ApplyInv, Reaches, TableFresh
  <1>9. DedupInv'
    BY <1>1 DEF SnapshotInv, DedupInv, TableOnDisk, TableInMemory, TableFresh, HalfSaved
  <1> QED
    BY <1>2, <1>3, <1>4, <1>5, <1>6, <1>7, <1>8, <1>9 DEF SnapshotInv, TasksInv

LEMMA SnapshotStep == ASSUME SnapshotInv, ~Disturbed', Step \/ UNCHANGED vars PROVE SnapshotInv'
  <1>1. CASE ReceiveEntry
    BY <1>1, InvReceiveEntry
  <1>2. CASE AdvanceCommit
    BY <1>2, InvAdvanceCommit
  <1>3. CASE ApplyStep
    BY <1>3, InvApplyRead, InvApplyFetch, InvApplyExecute, InvApplyRecord, InvApplyStore
       DEF ApplyStep
  <1>4. ASSUME NEW t \in Tasks, FileStep(t) PROVE SnapshotInv'
    BY <1>4, InvInitialize, InvOpenSnapshot, InvWriteFile, InvOpenDedup, InvFinalizeCheck,
       InvFinalizeFile, InvFinalizeMeta, InvRenameDedup DEF FileStep
  <1>5. CASE LocalStep
    BY <1>5, InvLocalClone, InvLocalTerm, InvLocalPublish, InvLocalTruncate DEF LocalStep
  <1>6. ASSUME NEW h \in Installers, InstallBegin(h) \/ InstallAbort(h) \/ InstallStep(h)
        PROVE  SnapshotInv'
    BY <1>6, InvInstallBegin, InvInstallAbort, InvInstallLoad, InvInstallTruncate,
       InvInstallApplied, InvInstallCommit, InvInstallDedup DEF InstallStep
  <1>7. CASE Restart
    BY <1>7, InvRestart
  <1>8. CASE UNCHANGED vars
    BY <1>8, SnapshotStutters
  <1> QED
    BY <1>1, <1>2, <1>3, <1>4, <1>5, <1>6, <1>7, <1>8 DEF Step

(***************************************************************************)
(* The theorems.                                                           *)
(***************************************************************************)

\* Until two tasks work in snapshot_dir at once, an install is older than the snapshot on disk,
\* or the apply thread is beyond an install that replaces the index, every state has the
\* invariant: a task's files are what its control point promises, snapshot.meta is backed by
\* snapshot.usearch, the log continues the snapshot, and the tables cover what was applied.
THEOREM SnapshotInvariant == Spec => [](clean => SnapshotInv)
  <1> DEFINE Inv == clean => SnapshotInv
  <1>1. Init => Inv
    BY SnapshotInitially
  <1>2. Inv /\ [Next]_vars => Inv'
    <2> SUFFICES ASSUME Inv, [Next]_vars, clean' PROVE SnapshotInv'
      OBVIOUS
    <2>1. CASE Next
      <3>1. clean /\ ~Disturbed' /\ Step
        BY <2>1 DEF Next, Remember
      <3> QED
        BY <3>1, SnapshotStep
    <2>2. CASE UNCHANGED vars
      <3>1. clean
        BY <2>2 DEF vars
      <3> QED
        BY <2>2, <3>1, SnapshotStutters
    <2> QED
      BY <2>1, <2>2
  <1>3. Init /\ [][Next]_vars => []Inv
    BY <1>1, <1>2, PTL
  <1> QED
    BY <1>3, PTL DEF Spec, Inv

\* Until an install is Disturbed, a crash at any instant leaves a snapshot that can be loaded
\* and that holds all entries its snapshot.meta stands for: the renames of FinalizeSnapshot
\* are in the right order.
THEOREM SnapshotOnDisk == Spec => []SnapshotIntact
  <1>1. (clean => SnapshotInv) => SnapshotIntact
    <2> SUFFICES ASSUME SnapshotInv, HasSnapshot
                 PROVE  /\ disk["snapshot.usearch"] # Torn
                        /\ 1..meta \subseteq disk["snapshot.usearch"]
      BY DEF SnapshotIntact
    <2> QED
      BY RestartFacts, HoldsFacts
  <1> QED
    BY <1>1, SnapshotInvariant, PTL

\* Until an install is Disturbed, what was applied and is in no snapshot on disk is still in the
\* log, whenever LaunchSnapshotTask and ApplyInstalledSnapshot truncate it.
THEOREM LogContinuesSnapshot == Spec => []WalReplayable
  <1>1. (clean => SnapshotInv) => WalReplayable
    <2> SUFFICES ASSUME clean, SnapshotInv PROVE WalReplayable
      BY DEF WalReplayable
    <2>1. RestoredIndex = meta
      BY RestartFacts
    <2> QED
      BY <2>1 DEF WalReplayable, SnapshotInv, LogInv
  <1> QED
    BY <1>1, SnapshotInvariant, PTL

\* Until an install is Disturbed, the index a node serves from holds every applied entry,
\* across the swap of vector_index_ under a running apply thread and across restarts.
THEOREM AppliedIsServed == Spec => []NothingLost
  <1>1. (clean => SnapshotInv) => NothingLost
    BY DEF NothingLost, SnapshotInv, LogInv, Swapping, Installing
  <1> QED
    BY <1>1, SnapshotInvariant, PTL

\* Until an install is Disturbed or a crash falls between the renames of snapshot.meta and
\* dedup.bin, the dedup table knows every applied command, also those that came with an
\* installed snapshot and those from before a restart.
THEOREM TableCoversApplied == Spec => []DedupCoversApplied
  <1>1. (clean => SnapshotInv) => DedupCoversApplied
    BY DEF DedupCoversApplied, SnapshotInv, DedupInv, TableInMemory, TableFresh
  <1> QED
    BY <1>1, SnapshotInvariant, PTL

\* Until an install is Disturbed, bootstrap after a crash never refuses the files it finds.
THEOREM AlwaysBootstraps == Spec => [](clean => running)
  <1>1. (clean => SnapshotInv) => (clean => running)
    BY DEF SnapshotInv, DiskInv
  <1> QED
    BY <1>1, SnapshotInvariant, PTL

(***************************************************************************)
(* The vector index.  First what the sequences are that the order of a set *)
(* gives.                                                                  *)
(***************************************************************************)

\* A non-empty set of naturals has a least element.
LEMMA LeastNat ==
  ASSUME NEW S \in SUBSET Nat, S # {}
  PROVE  \E m \in S : \A x \in S : m <= x
<1>1. \A T : T \subseteq Nat /\ T # {} => \E x \in T : \A y \in T : ~ (<<y, x>> \in OpToRel(<, Nat))
  BY WFMin, NatLessThanWellFounded, Zenon
<1>2. PICK m \in S : \A y \in S : ~ (<<y, m>> \in OpToRel(<, Nat))
  BY <1>1, Zenon
<1>3. \A y \in S : ~ (y < m)
  BY <1>2 DEF OpToRel
<1> QED
  BY <1>3, SMT

\* What Ranked needs of its order.
TotalOrder(S, before) ==
  /\ \A x \in S : <<x, x>> \notin before
  /\ \A x, y \in S : x # y => <<x, y>> \in before \/ <<y, x>> \in before
  /\ \A x, y, z \in S : <<x, y>> \in before /\ <<y, z>> \in before => <<x, z>> \in before

EarlierIn(S, before, x) == {y \in S : <<y, x>> \in before}

\* Of two elements the one that comes first has fewer elements before it.
LEMMA RankGrows ==
  ASSUME NEW S, IsFiniteSet(S), NEW before, TotalOrder(S, before)
  PROVE  /\ \A x \in S : Cardinality(EarlierIn(S, before, x)) \in 0 .. Cardinality(S) - 1
         /\ \A x, y \in S : <<x, y>> \in before =>
              Cardinality(EarlierIn(S, before, x)) < Cardinality(EarlierIn(S, before, y))
<1> DEFINE E(x) == EarlierIn(S, before, x)
<1>1. ASSUME NEW T \in SUBSET S, NEW U \in SUBSET T, U # T
      PROVE  Cardinality(U) \in Nat /\ Cardinality(T) \in Nat /\ Cardinality(U) < Cardinality(T)
  <2>1. IsFiniteSet(T)
    BY FS_Subset, Zenon
  <2>2. IsFiniteSet(U) /\ Cardinality(U) <= Cardinality(T) /\ (Cardinality(T) = Cardinality(U) => T = U)
    BY <2>1, FS_Subset, Zenon
  <2>3. Cardinality(U) \in Nat /\ Cardinality(T) \in Nat
    BY <2>1, <2>2, FS_CardinalityType, Zenon
  <2> QED BY <2>2, <2>3, <1>1
<1>2. ASSUME NEW x \in S
      PROVE  Cardinality(E(x)) \in 0 .. Cardinality(S) - 1
  <2>1. E(x) \in SUBSET S /\ E(x) # S
    BY DEF EarlierIn, TotalOrder
  <2>2. S \in SUBSET S OBVIOUS
  <2> HIDE DEF E
  <2>3. Cardinality(E(x)) \in Nat /\ Cardinality(S) \in Nat /\ Cardinality(E(x)) < Cardinality(S)
    BY <1>1, <2>1, <2>2, Zenon
  <2> QED BY <2>3
<1>3. ASSUME NEW x \in S, NEW y \in S, <<x, y>> \in before
      PROVE  Cardinality(E(x)) < Cardinality(E(y))
  <2>1. E(y) \in SUBSET S /\ E(x) \in SUBSET E(y)
    BY <1>3 DEF EarlierIn, TotalOrder
  <2>2. x \in E(y) /\ x \notin E(x)
    BY <1>3 DEF EarlierIn, TotalOrder
  <2> HIDE DEF E
  <2>3. E(x) # E(y)
    BY <2>2, Zenon
  <2> QED BY <1>1, <2>1, <2>3
<1> QED BY <1>2, <1>3, Zenon

\* Ranked lists a finite set in a total order, each element once.
LEMMA RankedFacts ==
  ASSUME NEW S, IsFiniteSet(S), NEW before, TotalOrder(S, before)
  PROVE  /\ Cardinality(S) \in Nat
         /\ Ranked(S, before) \in [1 .. Cardinality(S) -> S]
         /\ \A i, j \in 1 .. Cardinality(S) : i < j =>
              <<Ranked(S, before)[i], Ranked(S, before)[j]>> \in before
         /\ \A i, j \in 1 .. Cardinality(S) :
              Ranked(S, before)[i] = Ranked(S, before)[j] => i = j
         /\ \A x \in S : \E i \in 1 .. Cardinality(S) : Ranked(S, before)[i] = x
<1> DEFINE n == Cardinality(S)
           rank == [x \in S |-> Cardinality(EarlierIn(S, before, x)) + 1]
           R == Ranked(S, before)
<1>1. n \in Nat
  BY FS_CardinalityType
<1>2. \A x \in S : Cardinality(EarlierIn(S, before, x)) \in 0 .. n - 1
  BY RankGrows, Zenon
<1>3. \A x, y \in S : <<x, y>> \in before =>
        Cardinality(EarlierIn(S, before, x)) < Cardinality(EarlierIn(S, before, y))
  BY RankGrows, Zenon
<1>4. rank \in [S -> 1 .. n]
  <2> SUFFICES ASSUME NEW x \in S PROVE Cardinality(EarlierIn(S, before, x)) + 1 \in 1 .. n
    OBVIOUS
  <2> HIDE DEF n
  <2> QED BY <1>1, <1>2
<1>5. \A x, y \in S : rank[x] = rank[y] => x = y
  <2> SUFFICES ASSUME NEW x \in S, NEW y \in S, rank[x] = rank[y], x # y PROVE FALSE
    OBVIOUS
  <2>1. Cardinality(EarlierIn(S, before, x)) = Cardinality(EarlierIn(S, before, y))
    <3>1. Cardinality(EarlierIn(S, before, x)) \in 0 .. n - 1 /\ Cardinality(EarlierIn(S, before, y)) \in 0 .. n - 1
      BY <1>2
    <3>2. Cardinality(EarlierIn(S, before, x)) + 1 = Cardinality(EarlierIn(S, before, y)) + 1
      OBVIOUS
    <3> HIDE DEF n
    <3> QED BY <1>1, <3>1, <3>2
  <2>2. <<x, y>> \in before \/ <<y, x>> \in before
    BY DEF TotalOrder
  <2>3. ~ (Cardinality(EarlierIn(S, before, x)) < Cardinality(EarlierIn(S, before, x)))
    <3>1. Cardinality(EarlierIn(S, before, x)) \in 0 .. n - 1
      BY <1>2
    <3> HIDE DEF n
    <3> QED BY <1>1, <3>1
  <2> QED BY <1>3, <2>1, <2>2, <2>3, Zenon
<1>6. rank \in Injection(S, 1 .. n)
  BY <1>4, <1>5, Zenon DEF Injection, IsInjective
<1>7. IsFiniteSet(1 .. n) /\ Cardinality(1 .. n) = n
  BY <1>1, FS_Interval
<1>8. rank \in Surjection(S, 1 .. n)
  BY <1>6, <1>7, FS_Injection, Zenon
<1>9. \A i \in 1 .. n : \E x \in S : Cardinality(EarlierIn(S, before, x)) = i - 1
  <2> SUFFICES ASSUME NEW i \in 1 .. n
               PROVE \E x \in S : Cardinality(EarlierIn(S, before, x)) = i - 1
    OBVIOUS
  <2>1. PICK x \in S : rank[x] = i
    BY <1>8 DEF Surjection
  <2>2. Cardinality(EarlierIn(S, before, x)) + 1 = i
    BY <2>1
  <2>3. Cardinality(EarlierIn(S, before, x)) \in 0 .. n - 1
    BY <1>2
  <2> HIDE DEF n
  <2> QED BY <1>1, <2>2, <2>3
<1>10. \A i \in 1 .. n : R[i] \in S /\ Cardinality(EarlierIn(S, before, R[i])) = i - 1
  <2> SUFFICES ASSUME NEW i \in 1 .. n
               PROVE R[i] \in S /\ Cardinality(EarlierIn(S, before, R[i])) = i - 1
    OBVIOUS
  <2>1. R[i] = CHOOSE x \in S : Cardinality(EarlierIn(S, before, x)) = i - 1
    BY DEF Ranked, EarlierIn
  <2> HIDE DEF n, R
  <2> QED BY <1>9, <2>1, Zenon
<1>11. R \in [1 .. n -> S]
  BY <1>10 DEF Ranked
<1> HIDE DEF n, R, rank
<1>12. ASSUME NEW i \in 1 .. n, NEW j \in 1 .. n, i < j
       PROVE  <<R[i], R[j]>> \in before
  <2>1. Cardinality(EarlierIn(S, before, R[i])) = i - 1 /\ Cardinality(EarlierIn(S, before, R[j])) = j - 1
    BY <1>10
  <2>2. R[i] \in S /\ R[j] \in S
    BY <1>10
  <2>3. R[i] # R[j]
    BY <2>1, <1>12, <1>1
  <2>4. ~ (<<R[j], R[i]>> \in before)
    <3>1. ~ (j - 1 < i - 1)
      BY <1>1, <1>12
    <3> QED BY <1>3, <2>1, <2>2, <3>1
  <2> QED BY <2>2, <2>3, <2>4, Zenon DEF TotalOrder
<1>13. \A i, j \in 1 .. n : R[i] = R[j] => i = j
  <2> SUFFICES ASSUME NEW i \in 1 .. n, NEW j \in 1 .. n, R[i] = R[j] PROVE i = j
    OBVIOUS
  <2> QED BY <1>10, <1>1
<1>14. ASSUME NEW x \in S
       PROVE  \E i \in 1 .. n : R[i] = x
  <2>1. rank[x] \in 1 .. n /\ rank[x] = Cardinality(EarlierIn(S, before, x)) + 1
    BY <1>4 DEF rank
  <2>2. PICK i \in 1 .. n : i = rank[x]
    BY <2>1
  <2>3. Cardinality(EarlierIn(S, before, x)) = i - 1
    BY <2>1, <2>2, <1>2, <1>1
  <2>4. R[i] \in S /\ Cardinality(EarlierIn(S, before, R[i])) = i - 1
    BY <1>10
  <2>5. rank[R[i]] = rank[x]
    BY <2>3, <2>4 DEF rank
  <2> QED BY <1>5, <2>4, <2>5
<1> QED BY <1>1, <1>11, <1>12, <1>13, <1>14, Zenon DEF n, R

LEMMA MinFacts ==
  ASSUME NEW S \in SUBSET Nat, S # {}
  PROVE  Min(S) \in S /\ \A x \in S : Min(S) <= x
  BY LeastNat, Zenon DEF Min

\* The elements of a finite set of integers in ascending order.
LEMMA AscendingFacts ==
  ASSUME NEW S \in SUBSET Int, IsFiniteSet(S)
  PROVE  /\ Ascending(S) \in Seq(S)
         /\ Len(Ascending(S)) = Cardinality(S)
         /\ \A i, j \in 1 .. Cardinality(S) : i < j => Ascending(S)[i] < Ascending(S)[j]
         /\ IsInjective(Ascending(S))
         /\ ToSet(Ascending(S)) = S
<1> DEFINE before == {p \in S \X S : p[1] < p[2]}
           n == Cardinality(S)
           A == Ascending(S)
<1>1. \A x, y \in S : <<x, y>> \in before <=> x < y
  OBVIOUS
<1>2. A = Ranked(S, before)
  BY DEF Ascending
<1> HIDE DEF before, A
<1>3. TotalOrder(S, before)
  BY <1>1 DEF TotalOrder
<1>4. /\ n \in Nat
      /\ A \in [1 .. n -> S]
      /\ \A i, j \in 1 .. n : i < j => <<A[i], A[j]>> \in before
      /\ \A i, j \in 1 .. n : A[i] = A[j] => i = j
      /\ \A x \in S : \E i \in 1 .. n : A[i] = x
  <2> DEFINE R == Ranked(S, before)
  <2>1. /\ n \in Nat
        /\ R \in [1 .. n -> S]
        /\ \A i, j \in 1 .. n : i < j => <<R[i], R[j]>> \in before
        /\ \A i, j \in 1 .. n : R[i] = R[j] => i = j
        /\ \A x \in S : \E i \in 1 .. n : R[i] = x
    BY <1>3, RankedFacts, Zenon
  <2>2. A = R
    BY <1>2
  <2> HIDE DEF R, n
  <2> QED BY <2>1, <2>2
<1> HIDE DEF n
<1>5. A \in Seq(S) /\ Len(A) = n
  BY <1>4
<1>6. ToSet(A) = S
  <2>1. ToSet(A) = {A[i] : i \in 1 .. n}
    BY <1>4 DEF ToSet
  <2>2. \A i \in 1 .. n : A[i] \in S
    BY <1>4
  <2>3. \A x \in S : \E i \in 1 .. n : A[i] = x
    BY <1>4
  <2> QED BY <2>1, <2>2, <2>3, Zenon
<1>7. IsInjective(A)
  BY <1>4 DEF IsInjective
<1>8. \A i, j \in 1 .. n : i < j => A[i] < A[j]
  BY <1>1, <1>4
<1> QED BY <1>5, <1>6, <1>7, <1>8 DEF A, n

\* The part of a sequence that is in a set: nothing else, nothing lost, and no
\* element twice that was not there twice.
LEMMA OnlySeqFacts ==
  ASSUME NEW X, NEW s \in Seq(X), NEW S
  PROVE  /\ Only(s, S) \in Seq(X)
         /\ Len(Only(s, S)) <= Len(s)
         /\ ToSet(Only(s, S)) = ToSet(s) \intersect S
         /\ IsInjective(s) => IsInjective(Only(s, S))
<1> DEFINE hits == {i \in DOMAIN s : s[i] \in S}
           at == Ascending(hits)
           o == Only(s, S)
           n == Cardinality(hits)
<1>1. Len(s) \in Nat /\ DOMAIN s = 1 .. Len(s) /\ s \in [1 .. Len(s) -> X]
  BY LenProperties
<1>2. hits \in SUBSET (1 .. Len(s)) /\ hits \in SUBSET Int
  BY <1>1
<1>3. IsFiniteSet(1 .. Len(s)) /\ Cardinality(1 .. Len(s)) = Len(s)
  BY <1>1, FS_Interval
<1>4. IsFiniteSet(hits) /\ n <= Len(s) /\ n \in Nat
  <2> HIDE DEF hits
  <2>1. IsFiniteSet(hits) /\ n <= Len(s)
    BY <1>2, <1>3, FS_Subset
  <2> QED BY <2>1, FS_CardinalityType
<1>5. o = [j \in DOMAIN at |-> s[at[j]]]
  BY DEF Only
<1>6. \A i : i \in hits <=> i \in 1 .. Len(s) /\ s[i] \in S
  BY <1>1
<1> HIDE DEF hits, o
<1>7. at \in Seq(hits) /\ Len(at) = n /\ IsInjective(at) /\ ToSet(at) = hits
  BY <1>2, <1>4, AscendingFacts
<1> HIDE DEF at, n
<1>8. DOMAIN at = 1 .. n /\ \A j \in 1 .. n : at[j] \in hits
  BY <1>7, LenProperties
<1>9. o \in Seq(X) /\ Len(o) = n /\ DOMAIN o = 1 .. n /\ \A j \in 1 .. n : o[j] = s[at[j]]
  <2>1. \A j \in 1 .. n : s[at[j]] \in X
    BY <1>1, <1>6, <1>8
  <2>2. o \in [1 .. n -> X] /\ \A j \in 1 .. n : o[j] = s[at[j]]
    BY <1>5, <1>8, <2>1
  <2> QED BY <2>2, <1>4
<1>10. ToSet(o) = ToSet(s) \intersect S
  <2>1. ASSUME NEW x \in ToSet(o) PROVE x \in ToSet(s) /\ x \in S
    <3>1. PICK j \in 1 .. n : x = s[at[j]]
      BY <1>9 DEF ToSet
    <3> QED BY <3>1, <1>8, <1>6, <1>1 DEF ToSet
  <2>2. ASSUME NEW x \in ToSet(s), x \in S PROVE x \in ToSet(o)
    <3>1. PICK i \in 1 .. Len(s) : x = s[i]
      BY <1>1 DEF ToSet
    <3>2. i \in hits
      BY <3>1, <2>2, <1>6
    <3>3. PICK j \in 1 .. n : at[j] = i
      BY <3>2, <1>7, <1>8 DEF ToSet
    <3> QED BY <3>1, <3>3, <1>9 DEF ToSet
  <2> QED BY <2>1, <2>2
<1>11. IsInjective(s) => IsInjective(o)
  BY <1>1, <1>6, <1>7, <1>8, <1>9 DEF IsInjective
<1> QED BY <1>4, <1>9, <1>10, <1>11 DEF o

\* Counting up from 0: induction for a set of numbers.
LEMMA CountUp ==
  ASSUME NEW n \in Nat, NEW S, 0 \in S, \A i \in 0 .. n : i < n /\ i \in S => i + 1 \in S
  PROVE  \A i \in 0 .. n : i \in S
<1> DEFINE bad == {i \in 0 .. n : i \notin S}
<1> SUFFICES ASSUME bad # {} PROVE FALSE
  BY Zenon
<1>1. bad \in SUBSET Nat
  OBVIOUS
<1>2. PICK m \in bad : \A x \in bad : m <= x
  <2> HIDE DEF bad
  <2> QED BY <1>1, LeastNat
<1>3. m \in 0 .. n /\ m \notin S /\ m # 0
  OBVIOUS
<1>4. m - 1 \in 0 .. n /\ m - 1 < n /\ m - 1 \notin bad
  BY <1>2, <1>3
<1>5. m - 1 \in S
  BY <1>4
<1>6. (m - 1) + 1 \in S
  BY <1>4, <1>5
<1> QED BY <1>3, <1>6

LEMMA ModStep ==
  ASSUME NEW k \in Nat, NEW n \in Nat \ {0}, NEW j \in 0 .. n - 1
  PROVE  /\ k % n \in 0 .. n - 1
         /\ (k + j) % n = IF (k % n) + j < n THEN (k % n) + j ELSE (k % n) + j - n
<1>1. \A x \in Nat, q \in Nat, r \in 0 .. n - 1 : x = n * q + r => x % n = r
  BY Z3
<1>2. k % n \in 0 .. n - 1 /\ k = n * (k \div n) + (k % n) /\ k \div n \in Nat
  BY Z3
<1> DEFINE q == k \div n
           r == k % n
<1> HIDE DEF q, r
<1>3. k = n * q + r /\ q \in Nat /\ r \in 0 .. n - 1
  BY <1>2 DEF q, r
<1>4. CASE r + j < n
  <2>1. k + j = n * q + (r + j) /\ r + j \in 0 .. n - 1
    BY <1>3, <1>4
  <2>2. (k + j) % n = r + j
    BY <1>1, <1>3, <2>1
  <2> QED BY <1>2, <1>4, <2>2 DEF r
<1>5. CASE ~ (r + j < n)
  <2>0. n * (q + 1) = n * q + n
    BY <1>3
  <2>1. k + j = n * (q + 1) + (r + j - n) /\ r + j - n \in 0 .. n - 1 /\ q + 1 \in Nat
    BY <1>3, <1>5, <2>0
  <2>2. (k + j) % n = r + j - n
    <3>1. k + j \in Nat OBVIOUS
    <3> QED BY <1>1, <2>1, <3>1, Zenon
  <2> QED BY <1>2, <1>5, <2>2 DEF r
<1> QED BY <1>4, <1>5

(***************************************************************************)
(* slot_lookup_: a table whose live entries are all on the chains of their *)
(* keys stays one, through tombstones, growth and rehashing.               *)
(***************************************************************************)

Cells(K) == [use : {"empty", "live", "deleted"}, key : K, slot : Nat]

\* A table with its cells numbered from 0 and keys in K.
Table(t, K) == CellCount(t) \in Nat /\ t \in [0 .. CellCount(t) - 1 -> Cells(K)]

LEMMA TableOf ==
  ASSUME NEW K, NEW n \in Nat, NEW t \in [0 .. n - 1 -> Cells(K)]
  PROVE  CellCount(t) = n /\ Table(t, K)
<1>1. DOMAIN t = 0 .. n - 1
  OBVIOUS
<1>2. Cardinality(0 .. n - 1) = n
  BY FS_Interval
<1> QED BY <1>1, <1>2 DEF CellCount, Table

\* The probe sequence visits each cell once.
LEMMA ProbeFacts ==
  ASSUME NEW K, NEW t, Table(t, K), NEW k \in Nat
  PROVE  LET n == CellCount(t)
             p == Probe(t, k)
         IN  /\ n \in Nat
             /\ DOMAIN t = 0 .. n - 1
             /\ p \in [1 .. n -> 0 .. n - 1]
             /\ \A i, j \in 1 .. n : p[i] = p[j] => i = j
             /\ \A c \in 0 .. n - 1 : \E i \in 1 .. n : p[i] = c
<1> DEFINE n == CellCount(t)
           p == Probe(t, k)
           r == k % n
<1>1. n \in Nat /\ DOMAIN t = 0 .. n - 1
  BY DEF Table
<1>2. p = [i \in 1 .. n |-> (k + i - 1) % n]
  BY DEF Probe
<1>3. ASSUME NEW i \in 1 .. n
      PROVE  n \in Nat \ {0} /\ r \in 0 .. n - 1 /\ p[i] = IF r + i - 1 < n THEN r + i - 1 ELSE r + i - 1 - n
  <2> HIDE DEF n
  <2>1. n \in Nat \ {0} /\ i - 1 \in 0 .. n - 1
    BY <1>1
  <2>2. r \in 0 .. n - 1 /\ (k + (i - 1)) % n = IF r + (i - 1) < n THEN r + (i - 1) ELSE r + (i - 1) - n
    BY <2>1, ModStep
  <2>3. k + i - 1 = k + (i - 1)
    BY <2>1
  <2>4. p[i] = (k + (i - 1)) % n
    BY <1>2, <2>3
  <2> HIDE DEF r, p
  <2> QED BY <2>1, <2>2, <2>4
<1> HIDE DEF n, p, r
<1>4. p \in [1 .. n -> 0 .. n - 1]
  <2>1. \A i \in 1 .. n : p[i] \in 0 .. n - 1
    BY <1>1, <1>3
  <2> QED BY <1>2, <2>1
<1>5. ASSUME NEW i \in 1 .. n, NEW j \in 1 .. n, p[i] = p[j] PROVE i = j
  <2>1. r \in 0 .. n - 1 /\ p[i] = IF r + i - 1 < n THEN r + i - 1 ELSE r + i - 1 - n
    BY <1>3
  <2>2. p[j] = IF r + j - 1 < n THEN r + j - 1 ELSE r + j - 1 - n
    BY <1>3
  <2> QED BY <2>1, <2>2, <1>1, <1>5
<1>6. ASSUME NEW c \in 0 .. n - 1
      PROVE  \E i \in 1 .. n : p[i] = c
  <2>0. 1 \in 1 .. n /\ r \in 0 .. n - 1
    <3>1. 1 \in 1 .. n
      BY <1>1
    <3> QED BY <1>3, <3>1
  <2>1. CASE c >= r
    <3> DEFINE i == c - r + 1
    <3>1. i \in 1 .. n /\ r + i - 1 < n /\ r + i - 1 = c
      BY <1>1, <2>0, <2>1
    <3> QED BY <1>3, <3>1
  <2>2. CASE c < r
    <3> DEFINE i == c + n - r + 1
    <3>1. i \in 1 .. n /\ ~ (r + i - 1 < n) /\ r + i - 1 - n = c
      BY <1>1, <2>0, <2>2
    <3> QED BY <1>3, <3>1
  <2> QED BY <1>1, <2>0, <2>1, <2>2
<1> QED BY <1>1, <1>4, <1>5, <1>6, Zenon DEF n, p

\* Cell c is visited for key k before any empty cell, and is not empty itself.
Reached(t, k, c) ==
  \E i \in 1 .. CellCount(t) :
    /\ Probe(t, k)[i] = c
    /\ \A h \in 1 .. i : t[Probe(t, k)[h]].use # "empty"

LEMMA ChainFacts ==
  ASSUME NEW K, NEW t, Table(t, K), NEW k \in Nat
  PROVE  /\ Chain(t, k) \in Seq(DOMAIN t)
         /\ IsInjective(Chain(t, k))
         /\ \A c : c \in ToSet(Chain(t, k)) <=> Reached(t, k, c)
<1> DEFINE n == CellCount(t)
           p == Probe(t, k)
           stops == {i \in DOMAIN p : t[p[i]].use = "empty"}
           C == Chain(t, k)
<1>1. /\ n \in Nat
      /\ DOMAIN t = 0 .. n - 1
      /\ p \in [1 .. n -> 0 .. n - 1]
      /\ \A i, j \in 1 .. n : p[i] = p[j] => i = j
  BY ProbeFacts, Zenon
<1>2. C = IF stops = {} THEN p ELSE SubSeq(p, 1, Min(stops) - 1)
  BY DEF Chain
<1>3. \A c : Reached(t, k, c) <=> \E i \in 1 .. n : p[i] = c /\ \A h \in 1 .. i : t[p[h]].use # "empty"
  BY DEF Reached
<1> HIDE DEF n, p, C
<1>4. stops = {i \in 1 .. n : t[p[i]].use = "empty"}
  BY <1>1
<1>5. CASE stops = {}
  <2>1. C = p
    BY <1>2, <1>5
  <2>2. C \in Seq(DOMAIN t) /\ DOMAIN C = 1 .. n
    BY <2>1, <1>1
  <2>3. IsInjective(C)
    BY <2>1, <2>2, <1>1 DEF IsInjective
  <2>4. \A i \in 1 .. n : t[p[i]].use # "empty"
    BY <1>4, <1>5
  <2>5. \A c : c \in ToSet(C) <=> \E i \in 1 .. n : p[i] = c
    BY <2>1, <2>2 DEF ToSet
  <2>6. \A i \in 1 .. n : \A h \in 1 .. i : h \in 1 .. n
    BY <1>1
  <2> QED BY <2>2, <2>3, <2>4, <2>5, <2>6, <1>3, Zenon DEF C
<1>6. CASE stops # {}
  <2> DEFINE m == Min(stops)
  <2>0. stops \in SUBSET Nat
    BY <1>4
  <2>1. m \in stops /\ \A x \in stops : m <= x
    <3> HIDE DEF stops
    <3> QED BY <2>0, <1>6, MinFacts
  <2>2. C = SubSeq(p, 1, m - 1)
    BY <1>2, <1>6
  <2> HIDE DEF m, stops
  <2>3. m \in 1 .. n /\ t[p[m]].use = "empty" /\ \A i \in 1 .. n : i < m => t[p[i]].use # "empty"
    <3>1. \A i \in stops : i \in Nat
      BY <2>0
    <3>2. m \in 1 .. n /\ t[p[m]].use = "empty"
      BY <2>1, <1>4
    <3>3. ASSUME NEW i \in 1 .. n, i < m PROVE i \notin stops
      BY <2>1, <3>2, <3>3, <1>1
    <3> QED BY <3>2, <3>3, <1>4
  <2>4. m - 1 \in Int /\ 1 \in Int /\ \A i \in 1 .. m - 1 : i \in 1 .. n /\ p[i] \in DOMAIN t /\ i < m
    BY <1>1, <2>3
  <2>5. /\ C \in Seq(DOMAIN t)
        /\ Len(C) = IF 1 <= m - 1 THEN m - 1 - 1 + 1 ELSE 0
        /\ \A i \in 1 .. m - 1 - 1 + 1 : C[i] = p[1 + i - 1]
    BY <2>2, <2>4, SubSeqProperties
  <2>6. Len(C) = m - 1 /\ DOMAIN C = 1 .. m - 1 /\ \A i \in 1 .. m - 1 : C[i] = p[i]
    <3>1. Len(C) = m - 1
      BY <2>5, <2>3, <1>1
    <3>2. DOMAIN C = 1 .. Len(C)
      BY <2>5, LenProperties
    <3>3. ASSUME NEW i \in 1 .. m - 1 PROVE C[i] = p[i]
      BY <2>5, <2>3, <1>1
    <3> QED BY <3>1, <3>2, <3>3
  <2>7. IsInjective(C)
    BY <2>6, <2>4, <1>1 DEF IsInjective
  <2>8. \A c : c \in ToSet(C) <=> \E i \in 1 .. m - 1 : p[i] = c
    BY <2>6 DEF ToSet
  <2>9. ASSUME NEW c PROVE (\E i \in 1 .. m - 1 : p[i] = c) <=> Reached(t, k, c)
    <3>1. ASSUME NEW i \in 1 .. m - 1, p[i] = c PROVE Reached(t, k, c)
      <4>1. i \in 1 .. n
        BY <2>4
      <4>2. \A h \in 1 .. i : h \in 1 .. n /\ h < m
        BY <2>3, <1>1, <3>1
      <4>3. \A h \in 1 .. i : t[p[h]].use # "empty"
        BY <4>2, <2>3
      <4> QED BY <3>1, <4>1, <4>3, <1>3, Zenon
    <3>2. ASSUME NEW i \in 1 .. n, p[i] = c, \A h \in 1 .. i : t[p[h]].use # "empty"
          PROVE  \E j \in 1 .. m - 1 : p[j] = c
      <4>1. ~ (m \in 1 .. i)
        BY <3>2, <2>3
      <4>2. i \in 1 .. m - 1
        BY <4>1, <2>3, <1>1
      <4> QED BY <4>2, <3>2
    <3> QED BY <3>1, <3>2, <1>3, Zenon
  <2> QED BY <2>5, <2>7, <2>8, <2>9 DEF C
<1> QED BY <1>5, <1>6 DEF C

LEMMA ReachableFacts ==
  ASSUME NEW K \in SUBSET Nat, NEW t, Table(t, K)
  PROVE  ProbeReachable(t) <=> \A c \in LiveCells(t) : Reached(t, t[c].key, c)
<1>1. \A c \in LiveCells(t) : t[c].key \in Nat
  BY DEF LiveCells, Table, Cells
<1>2. \A c \in LiveCells(t) : c \in ToSet(Chain(t, t[c].key)) <=> Reached(t, t[c].key, c)
  BY <1>1, ChainFacts
<1> QED BY <1>2, Zenon DEF ProbeReachable

CellsOf(t, k) == {c \in DOMAIN t : HoldsKey(t[c], k)}

\* find and erase visit each live entry of the key once.
LEMMA MatchesFacts ==
  ASSUME NEW K \in SUBSET Nat, NEW t, Table(t, K), ProbeReachable(t), NEW k \in Nat
  PROVE  /\ Matches(t, k) \in Seq(DOMAIN t)
         /\ IsInjective(Matches(t, k))
         /\ ToSet(Matches(t, k)) = CellsOf(t, k)
         /\ contains(t, k) <=> CellsOf(t, k) # {}
<1> DEFINE M == Matches(t, k)
           C == Chain(t, k)
           S == CellsOf(t, k)
<1>1. M = Only(C, S)
  BY DEF Matches, CellsOf
<1>2. C \in Seq(DOMAIN t) /\ IsInjective(C) /\ \A c : c \in ToSet(C) <=> Reached(t, k, c)
  BY ChainFacts, Zenon
<1>3. ASSUME NEW c \in S PROVE c \in ToSet(C)
  <2>1. c \in LiveCells(t) /\ t[c].key = k
    BY <1>3 DEF CellsOf, HoldsKey, LiveCells
  <2> QED BY <2>1, <1>2, ReachableFacts
<1> HIDE DEF C, M, S
<1>4. M \in Seq(DOMAIN t) /\ ToSet(M) = ToSet(C) \intersect S /\ IsInjective(M)
  BY <1>1, <1>2, OnlySeqFacts
<1>5. ToSet(M) = S
  BY <1>3, <1>4
<1>6. M # <<>> <=> S # {}
  <2>1. DOMAIN M = 1 .. Len(M) /\ Len(M) \in Nat
    BY <1>4, LenProperties
  <2>2. M = <<>> => ToSet(M) = {}
    BY DEF ToSet
  <2>3. M # <<>> => 1 \in DOMAIN M
    BY <1>4, <2>1, EmptySeq
  <2>4. M # <<>> => ToSet(M) # {}
    BY <2>3 DEF ToSet
  <2> QED BY <1>5, <2>2, <2>4, Zenon
<1> QED BY <1>4, <1>5, <1>6 DEF contains, M, S

\* Erasing leaves tombstones: the entries of the key are gone, no other is
\* hidden by it.
\* The live cells of e are those of t that do not hold k.
CellsBut(e, t, k) ==
  /\ \A c : c \in LiveCells(e) <=> c \in LiveCells(t) /\ t[c].key # k
  /\ \A c \in LiveCells(e) : e[c] = t[c]

LEMMA EraseFacts ==
  ASSUME NEW K \in SUBSET Nat, NEW t, Table(t, K), ProbeReachable(t), NEW k \in Nat,
         NEW e, e = erase(t, k)
  PROVE  /\ Table(e, K)
         /\ ProbeReachable(e)
         /\ CellsBut(e, t, k)
         /\ CellsOf(e, k) = {}
         /\ ~ contains(e, k)
<1> DEFINE n == CellCount(t)
           G == CellsOf(t, k)
<1>0. n \in Nat /\ t \in [0 .. n - 1 -> Cells(K)] /\ DOMAIN t = 0 .. n - 1
  BY DEF Table
<1>1. ToSet(Matches(t, k)) = G
  BY MatchesFacts, Zenon
<1>2. e = [i \in DOMAIN t |-> IF i \in G THEN [t[i] EXCEPT !.use = "deleted"] ELSE t[i]]
  BY <1>1 DEF erase
<1>3. \A c : c \in G <=> c \in 0 .. n - 1 /\ t[c].use = "live" /\ t[c].key = k
  BY <1>0 DEF CellsOf, HoldsKey
<1> HIDE DEF n, G
<1>4. ASSUME NEW c \in 0 .. n - 1
      PROVE  /\ e[c] \in Cells(K)
             /\ e[c].use = IF c \in G THEN "deleted" ELSE t[c].use
             /\ c \notin G => e[c] = t[c]
             /\ e[c].key = t[c].key
  <2>1. t[c] \in Cells(K)
    BY <1>0
  <2>2. e[c] = IF c \in G THEN [t[c] EXCEPT !.use = "deleted"] ELSE t[c]
    BY <1>0, <1>2
  <2> QED BY <2>1, <2>2 DEF Cells
<1>5. e \in [0 .. n - 1 -> Cells(K)]
  BY <1>0, <1>2, <1>4
<1>6. CellCount(e) = n /\ Table(e, K)
  BY <1>0, <1>5, TableOf
<1>7. LiveCells(e) = {c \in LiveCells(t) : t[c].key # k}
  <2>1. \A c \in 0 .. n - 1 : e[c].use = "live" <=> t[c].use = "live" /\ t[c].key # k
    BY <1>3, <1>4
  <2>2. DOMAIN e = 0 .. n - 1
    BY <1>5
  <2> QED BY <2>1, <2>2, <1>0, Zenon DEF LiveCells
<1>8. \A c \in LiveCells(e) : c \in 0 .. n - 1 /\ e[c] = t[c]
  <2>1. DOMAIN e = 0 .. n - 1
    BY <1>5
  <2>2. \A c \in LiveCells(e) : c \in 0 .. n - 1 /\ c \notin G
    BY <1>7, <1>3, <2>1 DEF LiveCells
  <2> QED BY <2>2, <1>4
<1>9. ASSUME NEW c \in LiveCells(e) PROVE Reached(e, e[c].key, c)
  <2>1. c \in LiveCells(t) /\ e[c] = t[c]
    BY <1>7, <1>8
  <2>2. t[c].key \in Nat
    BY <2>1, <1>0 DEF LiveCells, Cells
  <2> DEFINE p == Probe(t, t[c].key)
  <2>3. p \in [1 .. n -> 0 .. n - 1]
    BY <2>2, ProbeFacts DEF n
  <2>4. PICK i \in 1 .. n : p[i] = c /\ \A h \in 1 .. i : t[p[h]].use # "empty"
    BY <2>1, ReachableFacts DEF Reached, n
  <2>5. Probe(e, e[c].key) = p
    BY <1>6, <2>1 DEF Probe, n
  <2> HIDE DEF p
  <2>6. \A h \in 1 .. i : e[p[h]].use # "empty"
    <3> SUFFICES ASSUME NEW h \in 1 .. i PROVE e[p[h]].use # "empty"
      OBVIOUS
    <3>1. p[h] \in 0 .. n - 1
      BY <2>3, <1>0
    <3> QED BY <3>1, <2>4, <1>4
  <2> QED BY <2>4, <2>5, <2>6, <1>6 DEF Reached
<1>10. ProbeReachable(e)
  BY <1>6, <1>9, ReachableFacts
<1>11. CellsOf(e, k) = {}
  BY <1>7, <1>8 DEF CellsOf, HoldsKey, LiveCells
<1>12. ~ contains(e, k)
  BY <1>6, <1>10, <1>11, MatchesFacts
<1> QED BY <1>6, <1>7, <1>8, <1>10, <1>11, <1>12 DEF CellsBut

LiveCell(key, slot) == [use |-> "live", key |-> key, slot |-> slot]

\* Placing takes a cell that is not live and hides no entry.
LEMMA PlaceFacts ==
  ASSUME NEW K \in SUBSET Nat, NEW t, Table(t, K), ProbeReachable(t),
         LiveCells(t) # DOMAIN t, NEW k \in K, NEW s \in Nat
  PROVE  \E c \in DOMAIN t \ LiveCells(t) :
           /\ Place(t, k, s) = [t EXCEPT ![c] = LiveCell(k, s)]
           /\ Table(Place(t, k, s), K)
           /\ CellCount(Place(t, k, s)) = CellCount(t)
           /\ ProbeReachable(Place(t, k, s))
<1> DEFINE n == CellCount(t)
           p == Probe(t, k)
           idle == {i \in DOMAIN p : t[p[i]].use # "live"}
           m == Min(idle)
           c == p[m]
           e == Place(t, k, s)
<1>0. k \in Nat
  OBVIOUS
<1>1. /\ n \in Nat
      /\ DOMAIN t = 0 .. n - 1
      /\ p \in [1 .. n -> 0 .. n - 1]
      /\ \A i, j \in 1 .. n : p[i] = p[j] => i = j
      /\ \A x \in 0 .. n - 1 : \E i \in 1 .. n : p[i] = x
  BY <1>0, ProbeFacts
<1>2. e = [t EXCEPT ![c] = LiveCell(k, s)]
  BY DEF Place, LiveCell
<1>3. t \in [0 .. n - 1 -> Cells(K)]
  BY DEF Table
<1> HIDE DEF n, p, e
<1>4. idle = {i \in 1 .. n : t[p[i]].use # "live"}
  BY <1>1
<1>5. idle # {}
  <2>1. PICK x \in 0 .. n - 1 : t[x].use # "live"
    BY <1>1 DEF LiveCells
  <2>2. PICK i \in 1 .. n : p[i] = x
    BY <1>1
  <2> QED BY <1>4, <2>1, <2>2
<1>6. m \in idle /\ \A x \in idle : m <= x
  <2>1. idle \in SUBSET Nat
    BY <1>4
  <2> HIDE DEF idle
  <2> QED BY <2>1, <1>5, MinFacts
<1> HIDE DEF m, idle
<1>7. m \in 1 .. n /\ t[p[m]].use # "live" /\ \A i \in 1 .. n : i < m => t[p[i]].use = "live"
  <2>1. m \in 1 .. n /\ t[p[m]].use # "live"
    BY <1>4, <1>6
  <2>2. ASSUME NEW i \in 1 .. n, i < m PROVE i \notin idle
    BY <1>6, <2>1, <2>2, <1>1
  <2> QED BY <2>1, <2>2, <1>4
<1>8. c \in 0 .. n - 1 /\ c \in DOMAIN t \ LiveCells(t)
  BY <1>1, <1>7 DEF LiveCells
<1> HIDE DEF c
<1>9. LiveCell(k, s) \in Cells(K)
  BY DEF LiveCell, Cells
<1>10. /\ e \in [0 .. n - 1 -> Cells(K)]
       /\ e[c] = LiveCell(k, s)
       /\ \A x \in 0 .. n - 1 : x # c => e[x] = t[x]
  BY <1>2, <1>3, <1>8, <1>9
<1>11. CellCount(e) = n /\ Table(e, K)
  BY <1>1, <1>10, TableOf
<1>12. \A x \in 0 .. n - 1 : t[x].use # "empty" => e[x].use # "empty"
  BY <1>10 DEF LiveCell
<1>13. ASSUME NEW x \in LiveCells(e) PROVE Reached(e, e[x].key, x)
  <2>0. x \in 0 .. n - 1 /\ e[x].use = "live"
    BY <1>10 DEF LiveCells
  <2>1. CASE x = c
    <3>1. e[x].key = k
      BY <2>1, <1>10 DEF LiveCell
    <3>2. Probe(e, k) = p
      BY <1>11 DEF Probe, n, p
    <3>3. p[m] = x
      BY <2>1 DEF c
    <3>4. ASSUME NEW h \in 1 .. m PROVE e[p[h]].use # "empty"
      <4>1. h \in 1 .. n /\ p[h] \in 0 .. n - 1
        BY <1>1, <1>7
      <4>2. CASE h = m
        BY <4>2, <3>3, <2>1, <1>10 DEF LiveCell
      <4>3. CASE h # m
        <5>1. h < m
          BY <4>3, <1>7, <1>1
        <5>2. t[p[h]].use # "empty"
          BY <5>1, <4>1, <1>7
        <5> QED BY <5>2, <4>1, <1>12
      <4> QED BY <4>2, <4>3
    <3> QED BY <3>1, <3>2, <3>3, <3>4, <1>7, <1>11 DEF Reached
  <2>2. CASE x # c
    <3>1. e[x] = t[x] /\ x \in LiveCells(t)
      BY <2>0, <2>2, <1>10, <1>1 DEF LiveCells
    <3>2. t[x].key \in Nat
      BY <2>0, <1>3 DEF Cells
    <3> DEFINE q == Probe(t, t[x].key)
    <3>3. q \in [1 .. n -> 0 .. n - 1]
      BY <3>2, ProbeFacts DEF n
    <3>4. PICK i \in 1 .. n : q[i] = x /\ \A h \in 1 .. i : t[q[h]].use # "empty"
      <4>1. Reached(t, t[x].key, x)
        BY <3>1, ReachableFacts, Zenon
      <4> QED BY <4>1 DEF Reached, n
    <3>5. Probe(e, e[x].key) = q
      BY <1>11, <3>1 DEF Probe, n
    <3> HIDE DEF q
    <3>6. ASSUME NEW h \in 1 .. i PROVE e[q[h]].use # "empty"
      <4>1. q[h] \in 0 .. n - 1
        BY <3>3, <1>1
      <4> QED BY <4>1, <3>4, <1>12
    <3> QED BY <3>4, <3>5, <3>6, <1>11 DEF Reached
  <2> QED BY <2>1, <2>2
<1>14. ProbeReachable(e)
  BY <1>11, <1>13, ReachableFacts
<1> QED BY <1>2, <1>8, <1>11, <1>14 DEF e, n

LEMMA EmptyTableFacts ==
  ASSUME NEW K \in SUBSET Nat, 0 \in K, NEW n \in Nat
  PROVE  LET e == EmptyTable(n)
         IN  /\ Table(e, K)
             /\ CellCount(e) = n
             /\ LiveCells(e) = {}
             /\ ProbeReachable(e)
<1> DEFINE e == EmptyTable(n)
<1>1. e \in [0 .. n - 1 -> Cells(K)] /\ \A i \in 0 .. n - 1 : e[i].use = "empty"
  BY DEF EmptyTable, EmptyCell, Cells
<1> HIDE DEF e
<1>2. CellCount(e) = n /\ Table(e, K)
  BY <1>1, TableOf
<1>3. LiveCells(e) = {}
  BY <1>1 DEF LiveCells
<1>4. ProbeReachable(e)
  BY <1>3 DEF ProbeReachable
<1> QED BY <1>2, <1>3, <1>4 DEF e

\* The doublings of ceil2.
LEMMA Ceil2Loop ==
  ASSUME NEW p \in Nat
  PROVE  \E f : /\ f[0] = 1
                /\ \A i \in 1 .. p : f[i] = DoubledBelow(f[i - 1], p)
                /\ ceil2(p) = f[p]
<1> DEFINE n == p
           St(x, i) == DoubledBelow(x, p)
           base == 1
           Run(m, f) == f = [i \in 0 .. m |-> IF i = 0 THEN base ELSE St(f[i - 1], i)]
           S == {m \in 0 .. n : \E f : Run(m, f)}
           at == CHOOSE f : Run(n, f)
<1>0. n \in Nat
  OBVIOUS
<1>1. ceil2(p) = at[n]
  BY DEF ceil2
<1> HIDE DEF n, St, base
<1>2. 0 \in S
  <2> DEFINE f == [i \in 0 .. 0 |-> base]
  <2>1. \A i \in 0 .. 0 : f[i] = IF i = 0 THEN base ELSE St(f[i - 1], i)
    OBVIOUS
  <2>2. Run(0, f)
    BY <2>1
  <2> HIDE DEF Run, f
  <2> QED BY <1>0, <2>2
<1>3. ASSUME NEW m \in 0 .. n, m < n, m \in S
      PROVE  m + 1 \in S
  <2>1. PICK f : Run(m, f)
    BY <1>3
  <2> DEFINE h == [i \in 0 .. m + 1 |-> IF i = m + 1 THEN St(f[m], m + 1) ELSE f[i]]
  <2>2. \A i \in 0 .. m + 1 : h[i] = IF i = 0 THEN base ELSE St(h[i - 1], i)
    <3> SUFFICES ASSUME NEW i \in 0 .. m + 1
                 PROVE h[i] = IF i = 0 THEN base ELSE St(h[i - 1], i)
      OBVIOUS
    <3>1. CASE i = m + 1
      <4>1. h[i] = St(f[m], m + 1) /\ i - 1 = m /\ i # 0 /\ h[m] = f[m]
        BY <3>1, <1>0
      <4> HIDE DEF h
      <4> QED BY <3>1, <4>1
    <3>2. CASE i # m + 1
      <4>1. i \in 0 .. m /\ h[i] = f[i]
        BY <3>2, <1>0
      <4>2. i # 0 => h[i - 1] = f[i - 1]
        BY <3>2, <1>0
      <4>3. f[i] = IF i = 0 THEN base ELSE St(f[i - 1], i)
        BY <2>1, <4>1
      <4> HIDE DEF h
      <4> QED BY <4>1, <4>2, <4>3
    <3> QED BY <3>1, <3>2
  <2>3. Run(m + 1, h)
    BY <2>2
  <2> HIDE DEF Run, h
  <2>4. m + 1 \in 0 .. n
    BY <1>0, <1>3
  <2> QED BY <2>3, <2>4
<1>4. n \in S
  <2> HIDE DEF S
  <2>1. \A i \in 0 .. n : i \in S
    BY <1>0, <1>2, <1>3, CountUp
  <2> QED BY <1>0, <2>1
<1>5. Run(n, at)
  <2>1. \E f : Run(n, f)
    BY <1>4
  <2> HIDE DEF Run
  <2> QED BY <2>1, Zenon
<1>6. at[0] = base /\ \A i \in 1 .. n : at[i] = St(at[i - 1], i)
  <2>1. \A i \in 0 .. n : at[i] = IF i = 0 THEN base ELSE St(at[i - 1], i)
    <3>1. at = [i \in 0 .. n |-> IF i = 0 THEN base ELSE St(at[i - 1], i)]
      BY <1>5
    <3> HIDE DEF at
    <3> QED BY <3>1
  <2> HIDE DEF at
  <2> QED BY <2>1, <1>0
<1> HIDE DEF at
<1> QED BY <1>1, <1>6 DEF n, St, base


\* The cells that Rehash goes through.
LEMMA RehashLoop ==
  ASSUME NEW t, NEW room, CellCount(t) \in Nat
  PROVE  \E f : /\ f[0] = EmptyTable(room)
                /\ \A i \in 1 .. CellCount(t) : f[i] = Rehashed(f[i - 1], t[i - 1])
                /\ Rehash(t, room) = f[CellCount(t)]
<1> DEFINE n == CellCount(t)
           St(x, i) == Rehashed(x, t[i - 1])
           base == EmptyTable(room)
           Run(m, f) == f = [i \in 0 .. m |-> IF i = 0 THEN base ELSE St(f[i - 1], i)]
           S == {m \in 0 .. n : \E f : Run(m, f)}
           at == CHOOSE f : Run(n, f)
<1>0. n \in Nat
  OBVIOUS
<1>1. Rehash(t, room) = at[n]
  BY DEF Rehash
<1> HIDE DEF n, St, base
<1>2. 0 \in S
  <2> DEFINE f == [i \in 0 .. 0 |-> base]
  <2>1. \A i \in 0 .. 0 : f[i] = IF i = 0 THEN base ELSE St(f[i - 1], i)
    OBVIOUS
  <2>2. Run(0, f)
    BY <2>1
  <2> HIDE DEF Run, f
  <2> QED BY <1>0, <2>2
<1>3. ASSUME NEW m \in 0 .. n, m < n, m \in S
      PROVE  m + 1 \in S
  <2>1. PICK f : Run(m, f)
    BY <1>3
  <2> DEFINE h == [i \in 0 .. m + 1 |-> IF i = m + 1 THEN St(f[m], m + 1) ELSE f[i]]
  <2>2. \A i \in 0 .. m + 1 : h[i] = IF i = 0 THEN base ELSE St(h[i - 1], i)
    <3> SUFFICES ASSUME NEW i \in 0 .. m + 1
                 PROVE h[i] = IF i = 0 THEN base ELSE St(h[i - 1], i)
      OBVIOUS
    <3>1. CASE i = m + 1
      <4>1. h[i] = St(f[m], m + 1) /\ i - 1 = m /\ i # 0 /\ h[m] = f[m]
        BY <3>1, <1>0
      <4> HIDE DEF h
      <4> QED BY <3>1, <4>1
    <3>2. CASE i # m + 1
      <4>1. i \in 0 .. m /\ h[i] = f[i]
        BY <3>2, <1>0
      <4>2. i # 0 => h[i - 1] = f[i - 1]
        BY <3>2, <1>0
      <4>3. f[i] = IF i = 0 THEN base ELSE St(f[i - 1], i)
        BY <2>1, <4>1
      <4> HIDE DEF h
      <4> QED BY <4>1, <4>2, <4>3
    <3> QED BY <3>1, <3>2
  <2>3. Run(m + 1, h)
    BY <2>2
  <2> HIDE DEF Run, h
  <2>4. m + 1 \in 0 .. n
    BY <1>0, <1>3
  <2> QED BY <2>3, <2>4
<1>4. n \in S
  <2> HIDE DEF S
  <2>1. \A i \in 0 .. n : i \in S
    BY <1>0, <1>2, <1>3, CountUp
  <2> QED BY <1>0, <2>1
<1>5. Run(n, at)
  <2>1. \E f : Run(n, f)
    BY <1>4
  <2> HIDE DEF Run
  <2> QED BY <2>1, Zenon
<1>6. at[0] = base /\ \A i \in 1 .. n : at[i] = St(at[i - 1], i)
  <2>1. \A i \in 0 .. n : at[i] = IF i = 0 THEN base ELSE St(at[i - 1], i)
    <3>1. at = [i \in 0 .. n |-> IF i = 0 THEN base ELSE St(at[i - 1], i)]
      BY <1>5
    <3> HIDE DEF at
    <3> QED BY <3>1
  <2> HIDE DEF at
  <2> QED BY <2>1, <1>0
<1> HIDE DEF at
<1> QED BY <1>1, <1>6 DEF n, St, base


LEMMA Ceil2Facts ==
  ASSUME NEW p \in Nat
  PROVE  ceil2(p) \in Nat /\ ceil2(p) >= p
<1>1. PICK f : /\ f[0] = 1
               /\ \A i \in 1 .. p : f[i] = DoubledBelow(f[i - 1], p)
               /\ ceil2(p) = f[p]
  BY Ceil2Loop
<1> DEFINE S == {i \in 0 .. p : f[i] \in Nat /\ (f[i] >= p \/ f[i] >= i + 1)}
<1>2. 0 \in S
  BY <1>1
<1>3. ASSUME NEW i \in 0 .. p, i < p, i \in S PROVE i + 1 \in S
  <2>1. i + 1 \in 1 .. p /\ (i + 1) - 1 = i
    BY <1>3
  <2>2. f[i + 1] = DoubledBelow(f[i], p)
    BY <2>1, <1>1
  <2>3. f[i] \in Nat /\ (f[i] >= p \/ f[i] >= i + 1)
    BY <1>3
  <2>4. f[i + 1] \in Nat /\ (f[i + 1] >= p \/ f[i + 1] >= (i + 1) + 1)
    BY <2>2, <2>3 DEF DoubledBelow
  <2> QED BY <2>1, <2>4
<1>4. p \in S
  <2> HIDE DEF S
  <2>1. \A i \in 0 .. p : i \in S
    BY <1>2, <1>3, CountUp
  <2> QED BY <2>1
<1> QED BY <1>1, <1>4

\* T holds the entries of the cells C of t, each in a cell of its own.
SameEntries(t, C, T) ==
  \E f \in [C -> LiveCells(T)] :
    /\ \A x, y \in C : f[x] = f[y] => x = y
    /\ \A d \in LiveCells(T) : \E x \in C : f[x] = d
    /\ \A x \in C : T[f[x]].key = t[x].key /\ T[f[x]].slot = t[x].slot

LEMMA SameCount ==
  ASSUME NEW t, NEW C, NEW T, IsFiniteSet(C), SameEntries(t, C, T)
  PROVE  IsFiniteSet(LiveCells(T)) /\ Cardinality(LiveCells(T)) = Cardinality(C)
<1>1. PICK f \in [C -> LiveCells(T)] :
        /\ \A x, y \in C : f[x] = f[y] => x = y
        /\ \A d \in LiveCells(T) : \E x \in C : f[x] = d
  BY DEF SameEntries
<1>2. f \in Bijection(C, LiveCells(T))
  BY <1>1, Zenon DEF Bijection, Injection, Surjection, IsInjective
<1>3. ExistsBijection(C, LiveCells(T))
  BY <1>2 DEF ExistsBijection
<1> QED BY <1>3, FS_Bijection

LEMMA LiveFinite ==
  ASSUME NEW K, NEW t, Table(t, K)
  PROVE  /\ IsFiniteSet(LiveCells(t))
         /\ Cardinality(LiveCells(t)) \in Nat
         /\ Cardinality(LiveCells(t)) <= CellCount(t)
         /\ Cardinality(LiveCells(t)) < CellCount(t) => LiveCells(t) # DOMAIN t
         /\ \A n \in Nat : IsFiniteSet(LiveCells(t) \intersect 0 .. n)
<1> DEFINE n == CellCount(t)
           L == LiveCells(t)
<1>1. n \in Nat /\ DOMAIN t = 0 .. n - 1
  BY DEF Table
<1>2. L \in SUBSET DOMAIN t
  BY DEF LiveCells
<1>3. IsFiniteSet(DOMAIN t) /\ Cardinality(DOMAIN t) = n
  BY <1>1, FS_Interval DEF CellCount
<1> HIDE DEF L, n
<1>4. IsFiniteSet(L) /\ Cardinality(L) <= n
  BY <1>2, <1>3, FS_Subset
<1>5. Cardinality(L) \in Nat
  BY <1>4, FS_CardinalityType
<1>6. Cardinality(L) < n => L # DOMAIN t
  BY <1>1, <1>3, <1>5
<1>7. \A m \in Nat : IsFiniteSet(L \intersect 0 .. m)
  BY <1>4, FS_Intersection
<1> QED BY <1>4, <1>5, <1>6, <1>7 DEF L, n

LEMMA PlacedCells ==
  ASSUME NEW T, NEW c \in DOMAIN T \ LiveCells(T), NEW k, NEW s, NEW U,
         U = [T EXCEPT ![c] = LiveCell(k, s)]
  PROVE  /\ LiveCells(U) = LiveCells(T) \union {c}
         /\ U[c].key = k /\ U[c].slot = s
         /\ \A d \in LiveCells(T) : U[d] = T[d]
  BY DEF LiveCells, LiveCell

LEMMA PlaceEntries ==
  ASSUME NEW t, NEW C, NEW T, SameEntries(t, C, T), NEW x, x \notin C,
         NEW c \in DOMAIN T \ LiveCells(T), NEW U,
         U = [T EXCEPT ![c] = LiveCell(t[x].key, t[x].slot)]
  PROVE  SameEntries(t, C \union {x}, U)
<1>1. PICK f \in [C -> LiveCells(T)] :
        /\ \A a, b \in C : f[a] = f[b] => a = b
        /\ \A d \in LiveCells(T) : \E a \in C : f[a] = d
        /\ \A a \in C : T[f[a]].key = t[a].key /\ T[f[a]].slot = t[a].slot
  BY DEF SameEntries
<1>2. /\ LiveCells(U) = LiveCells(T) \union {c}
      /\ U[c].key = t[x].key /\ U[c].slot = t[x].slot
      /\ \A d \in LiveCells(T) : U[d] = T[d]
  <2> DEFINE k == t[x].key
             s == t[x].slot
  <2>1. U = [T EXCEPT ![c] = LiveCell(k, s)]
    OBVIOUS
  <2> HIDE DEF k, s
  <2>2. /\ LiveCells(U) = LiveCells(T) \union {c}
        /\ U[c].key = k /\ U[c].slot = s
        /\ \A d \in LiveCells(T) : U[d] = T[d]
    BY <2>1 DEF LiveCells, LiveCell
  <2> QED BY <2>2 DEF k, s
<1> DEFINE D == C \union {x}
           h == [a \in D |-> IF a = x THEN c ELSE f[a]]
<1>3. h[x] = c /\ \A a \in C : h[a] = f[a] /\ a # x
  OBVIOUS
<1>4. h \in [D -> LiveCells(U)]
  BY <1>1, <1>2
<1>5. \A a \in D : a = x \/ a \in C
  OBVIOUS
<1>6. x \in D /\ \A a \in C : a \in D
  OBVIOUS
<1> HIDE DEF h, D
<1>7. \A a, b \in D : h[a] = h[b] => a = b
  BY <1>1, <1>3, <1>5
<1>8. \A d \in LiveCells(U) : \E a \in D : h[a] = d
  BY <1>1, <1>2, <1>3, <1>6
<1>9. \A a \in D : U[h[a]].key = t[a].key /\ U[h[a]].slot = t[a].slot
  BY <1>1, <1>2, <1>3, <1>5
<1>10. SameEntries(t, D, U)
  BY <1>4, <1>7, <1>8, <1>9, Zenon DEF SameEntries
<1> QED BY <1>10 DEF D

\* Rehashing keeps the entries, drops the tombstones and hides nothing.
LEMMA RehashFacts ==
  ASSUME NEW K \in SUBSET Nat, 0 \in K, NEW t, Table(t, K), NEW room \in Nat,
         Cardinality(LiveCells(t)) <= room
  PROVE  LET T == Rehash(t, room)
         IN  /\ Table(T, K)
             /\ CellCount(T) = room
             /\ ProbeReachable(T)
             /\ SameEntries(t, LiveCells(t), T)
<1> DEFINE n == CellCount(t)
           L == LiveCells(t)
           Done(i) == {c \in L : c < i}
<1>1. n \in Nat /\ t \in [0 .. n - 1 -> Cells(K)] /\ DOMAIN t = 0 .. n - 1
  BY DEF Table
<1>2. IsFiniteSet(L) /\ Cardinality(L) \in Nat /\ L \in SUBSET (0 .. n - 1)
  BY <1>1, LiveFinite DEF LiveCells
<1>3. PICK f : /\ f[0] = EmptyTable(room)
               /\ \A i \in 1 .. n : f[i] = Rehashed(f[i - 1], t[i - 1])
               /\ Rehash(t, room) = f[n]
  BY <1>1, RehashLoop
<1> DEFINE Good(i) == /\ Table(f[i], K)
                      /\ CellCount(f[i]) = room
                      /\ ProbeReachable(f[i])
                      /\ SameEntries(t, Done(i), f[i])
           S == {i \in 0 .. n : Good(i)}
<1>4. 0 \in S
  <2>1. Table(f[0], K) /\ CellCount(f[0]) = room /\ LiveCells(f[0]) = {} /\ ProbeReachable(f[0])
    BY <1>3, EmptyTableFacts
  <2>2. Done(0) = {}
    BY <1>2
  <2>3. SameEntries(t, {}, f[0])
    <3> DEFINE h == [a \in {} |-> a]
    <3>1. h \in [{} -> LiveCells(f[0])]
      OBVIOUS
    <3> QED BY <3>1, <2>1 DEF SameEntries
  <2>4. 0 \in 0 .. n
    BY <1>1
  <2> HIDE DEF Done, n
  <2>5. Good(0)
    BY <2>1, <2>2, <2>3
  <2> HIDE DEF Good
  <2> QED BY <2>4, <2>5
<1>5. ASSUME NEW i \in 0 .. n, i < n, i \in S PROVE i + 1 \in S
  <2> DEFINE T == f[i]
             U == f[i + 1]
  <2>1. i + 1 \in 0 .. n /\ U = Rehashed(T, t[i]) /\ i \in 0 .. n - 1
    <3>1. i + 1 \in 1 .. n /\ (i + 1) - 1 = i /\ i + 1 \in 0 .. n /\ i \in 0 .. n - 1
      BY <1>1, <1>5
    <3> QED BY <3>1, <1>3
  <2>2. Table(T, K) /\ CellCount(T) = room /\ ProbeReachable(T) /\ SameEntries(t, Done(i), T)
    BY <1>5
  <2> HIDE DEF T, U, L
  <2>3. CASE t[i].use # "live"
    <3>1. U = T
      BY <2>1, <2>3 DEF Rehashed
    <3>2. i \notin L
      BY <2>3 DEF LiveCells, L
    <3>3. Done(i + 1) = Done(i)
      <4>1. \A c \in L : c < i + 1 <=> c < i
        BY <3>2, <1>2, <1>1
      <4> QED BY <4>1, Zenon
    <3> QED BY <2>1, <2>2, <3>1, <3>3 DEF U, T
  <2>4. CASE t[i].use = "live"
    <3>1. U = Place(T, t[i].key, t[i].slot)
      BY <2>1, <2>4 DEF Rehashed
    <3>2. i \in L /\ t[i].key \in K /\ t[i].slot \in Nat
      BY <2>1, <2>4, <1>1 DEF LiveCells, L, Cells
    <3>3. Done(i + 1) = Done(i) \union {i} /\ i \notin Done(i) /\ Done(i) \in SUBSET L /\ Done(i) # L
      <4>1. \A c \in L : c < i + 1 <=> c < i \/ c = i
        BY <3>2, <1>2, <1>1
      <4>2. ~ (i < i)
        BY <1>1
      <4>3. Done(i + 1) = Done(i) \union {i}
        BY <4>1, <3>2
      <4>4. i \notin Done(i) /\ Done(i) \in SUBSET L
        BY <4>2, Zenon
      <4> QED BY <4>3, <4>4, <3>2, Zenon
    <3>4. LiveCells(T) # DOMAIN T
      <4> HIDE DEF Done
      <4>1. IsFiniteSet(Done(i)) /\ Cardinality(Done(i)) <= Cardinality(L) /\ Cardinality(Done(i)) # Cardinality(L)
        BY <3>3, <1>2, FS_Subset
      <4>2. Cardinality(Done(i)) \in Nat
        BY <4>1, FS_CardinalityType
      <4>3. Cardinality(LiveCells(T)) = Cardinality(Done(i))
        BY <2>2, <4>1, SameCount
      <4>4. Cardinality(LiveCells(T)) < CellCount(T)
        BY <4>1, <4>2, <4>3, <2>2, <1>2 DEF L
      <4> QED BY <4>4, <2>2, LiveFinite
    <3>5. PICK c \in DOMAIN T \ LiveCells(T) :
            /\ U = [T EXCEPT ![c] = LiveCell(t[i].key, t[i].slot)]
            /\ Table(U, K)
            /\ CellCount(U) = CellCount(T)
            /\ ProbeReachable(U)
      <4> DEFINE k == t[i].key
                 s == t[i].slot
      <4>1. U = Place(T, k, s) /\ k \in K /\ s \in Nat
        BY <3>1, <3>2
      <4> HIDE DEF k, s
      <4>2. \E c \in DOMAIN T \ LiveCells(T) :
            /\ U = [T EXCEPT ![c] = LiveCell(k, s)]
            /\ Table(U, K)
            /\ CellCount(U) = CellCount(T)
            /\ ProbeReachable(U)
        <5>1. \E c \in DOMAIN T \ LiveCells(T) :
              /\ Place(T, k, s) = [T EXCEPT ![c] = LiveCell(k, s)]
              /\ Table(Place(T, k, s), K)
              /\ CellCount(Place(T, k, s)) = CellCount(T)
              /\ ProbeReachable(Place(T, k, s))
          BY <2>2, <4>1, <3>4, PlaceFacts, Zenon
        <5> QED BY <5>1, <4>1, Zenon
      <4> QED BY <4>2 DEF k, s
    <3>6. SameEntries(t, Done(i) \union {i}, U)
      <4> HIDE DEF Done
      <4> QED BY <2>2, <3>3, <3>5, PlaceEntries
    <3> HIDE DEF Done
    <3> QED BY <2>1, <2>2, <3>3, <3>5, <3>6 DEF U
  <2> QED BY <2>3, <2>4
<1>6. n \in S
  <2> HIDE DEF S
  <2>1. \A i \in 0 .. n : i \in S
    BY <1>1, <1>4, <1>5, CountUp
  <2> QED BY <2>1, <1>1
<1>7. Done(n) = L
  BY <1>1, <1>2
<1> HIDE DEF n, Done
<1> QED BY <1>3, <1>6, <1>7 DEF L

\* No key has two live entries.
OnePerKey(t) == \A c, d \in LiveCells(t) : t[c].key = t[d].key => c = d

LEMMA SameEntriesFacts ==
  ASSUME NEW t, NEW T, SameEntries(t, LiveCells(t), T)
  PROVE  /\ Entries(T) = Entries(t)
         /\ OnePerKey(t) => OnePerKey(T)
<1> DEFINE L == LiveCells(t)
           M == LiveCells(T)
<1>1. PICK f \in [L -> M] :
        /\ \A a, b \in L : f[a] = f[b] => a = b
        /\ \A d \in M : \E a \in L : f[a] = d
        /\ \A a \in L : T[f[a]].key = t[a].key /\ T[f[a]].slot = t[a].slot
  BY DEF SameEntries
<1>2. Entries(T) = {<<T[i].key, T[i].slot>> : i \in M} /\ Entries(t) = {<<t[i].key, t[i].slot>> : i \in L}
  BY DEF Entries
<1>3. OnePerKey(t) => OnePerKey(T)
  <2> HIDE DEF L, M
  <2> SUFFICES ASSUME \A c, d \in L : t[c].key = t[d].key => c = d
               PROVE  \A c, d \in M : T[c].key = T[d].key => c = d
    BY DEF OnePerKey, L, M
  <2> QED BY <1>1
<1> HIDE DEF L, M
<1>4. ASSUME NEW e \in Entries(T) PROVE e \in Entries(t)
  <2>1. PICK d \in M : e = <<T[d].key, T[d].slot>>
    BY <1>2
  <2>2. PICK a \in L : f[a] = d
    BY <1>1
  <2>3. e = <<t[a].key, t[a].slot>>
    BY <1>1, <2>1, <2>2
  <2> QED BY <2>3, <1>2
<1>5. ASSUME NEW e \in Entries(t) PROVE e \in Entries(T)
  <2>1. PICK a \in L : e = <<t[a].key, t[a].slot>>
    BY <1>2
  <2>2. f[a] \in M
    BY <1>1
  <2>3. e = <<T[f[a]].key, T[f[a]].slot>>
    BY <1>1, <2>1
  <2> QED BY <2>2, <2>3, <1>2
<1> QED BY <1>3, <1>4, <1>5

LEMMA SameEntriesSelf ==
  ASSUME NEW t
  PROVE  SameEntries(t, LiveCells(t), t)
<1> DEFINE L == LiveCells(t)
           f == [a \in L |-> a]
<1>1. f \in [L -> L] /\ \A a \in L : f[a] = a
  OBVIOUS
<1> HIDE DEF f, L
<1>2. \A a, b \in L : f[a] = f[b] => a = b
  BY <1>1
<1>3. \A d \in L : \E a \in L : f[a] = d
  BY <1>1
<1>4. \A a \in L : t[f[a]].key = t[a].key /\ t[f[a]].slot = t[a].slot
  BY <1>1
<1> QED BY <1>1, <1>2, <1>3, <1>4, Zenon DEF SameEntries, L

\* Reserving keeps the entries and makes room for capacity of them.
LEMMA ReserveFacts ==
  ASSUME NEW K \in SUBSET Nat, 0 \in K, NEW t, Table(t, K), ProbeReachable(t),
         NEW capacity \in Nat, Cardinality(LiveCells(t)) <= capacity,
         NEW T, T = try_reserve(t, capacity)
  PROVE  /\ Table(T, K)
         /\ CellCount(T) \in Nat
         /\ CellCount(T) >= capacity
         /\ ProbeReachable(T)
         /\ SameEntries(t, LiveCells(t), T)
<1> DEFINE n == CellCount(t)
           want == ceil2((capacity * 3) \div 2)
           buckets == (want + CellsPerBucket - 1) \div CellsPerBucket
           room == buckets * CellsPerBucket
<1>1. n \in Nat
  BY DEF Table
<1>2. CASE capacity * 3 <= n * 2
  <2>1. T = t
    BY <1>2 DEF try_reserve
  <2>2. n >= capacity
    BY <1>1, <1>2
  <2> QED BY <2>1, <2>2, <1>1, SameEntriesSelf
<1>3. CASE ~ (capacity * 3 <= n * 2)
  <2>1. T = Rehash(t, room)
    BY <1>3 DEF try_reserve
  <2>2. (capacity * 3) \div 2 \in Nat /\ (capacity * 3) \div 2 >= capacity
    OBVIOUS
  <2>3. want \in Nat /\ want >= capacity
    <3> DEFINE w == (capacity * 3) \div 2
    <3>1. w \in Nat /\ w >= capacity
      BY <2>2
    <3> HIDE DEF w
    <3>2. ceil2(w) \in Nat /\ ceil2(w) >= w
      BY <3>1, Ceil2Facts
    <3>3. want = ceil2(w)
      BY DEF w
    <3> QED BY <3>1, <3>2, <3>3
  <2> HIDE DEF want
  <2>4. room \in Nat /\ room >= want
    BY <2>3, BucketAssumption
  <2> HIDE DEF room
  <2>5. room >= capacity
    BY <2>3, <2>4
  <2>6. Cardinality(LiveCells(t)) <= room
    <3>1. Cardinality(LiveCells(t)) \in Nat
      BY LiveFinite
    <3> QED BY <3>1, <2>4, <2>5
  <2> QED BY <2>1, <2>4, <2>5, <2>6, RehashFacts
<1> QED BY <1>2, <1>3

\* An insertion adds one entry, in a cell of its own, and hides nothing.
LEMMA EmplaceFacts ==
  ASSUME NEW K \in SUBSET Nat, 0 \in K, NEW t, Table(t, K), ProbeReachable(t),
         NEW k \in K, NEW s \in Nat,
         NEW T, T = try_emplace(t, k, s)
  PROVE  /\ Table(T, K)
         /\ ProbeReachable(T)
         /\ Entries(T) = Entries(t) \union {<<k, s>>}
         /\ OnePerKey(t) /\ CellsOf(t, k) = {} => OnePerKey(T)
         /\ Cardinality(LiveCells(T)) = Cardinality(LiveCells(t)) + 1
<1> DEFINE n == Cardinality(LiveCells(t))
           U == IF n * 3 >= CellCount(t) * 2 THEN try_reserve(t, n + 1) ELSE t
<1>1. T = Place(U, k, s)
  BY DEF try_emplace
<1>2. n \in Nat /\ CellCount(t) \in Nat
  BY LiveFinite DEF Table
<1>3. /\ Table(U, K)
      /\ ProbeReachable(U)
      /\ SameEntries(t, LiveCells(t), U)
      /\ CellCount(U) \in Nat
      /\ CellCount(U) > n
  <2>1. CASE n * 3 >= CellCount(t) * 2
    <3>1. U = try_reserve(t, n + 1)
      BY <2>1
    <3>2. n + 1 \in Nat /\ n <= n + 1
      BY <1>2
    <3>3. /\ Table(U, K)
          /\ CellCount(U) \in Nat
          /\ CellCount(U) >= n + 1
          /\ ProbeReachable(U)
          /\ SameEntries(t, LiveCells(t), U)
      <4> DEFINE m == n + 1
      <4>1. m \in Nat /\ Cardinality(LiveCells(t)) <= m
        BY <3>2
      <4> HIDE DEF m, n
      <4>2. /\ Table(try_reserve(t, m), K)
            /\ CellCount(try_reserve(t, m)) \in Nat
            /\ CellCount(try_reserve(t, m)) >= m
            /\ ProbeReachable(try_reserve(t, m))
            /\ SameEntries(t, LiveCells(t), try_reserve(t, m))
        BY <4>1, ReserveFacts
      <4> QED BY <4>2, <3>1 DEF m
    <3> HIDE DEF U, n
    <3> QED BY <3>3, <1>2
  <2>2. CASE ~ (n * 3 >= CellCount(t) * 2)
    <3>1. U = t
      BY <2>2
    <3>2. CellCount(t) > n
      <4> HIDE DEF n
      <4> QED BY <2>2, <1>2
    <3> QED BY <3>1, <3>2, <1>2, SameEntriesSelf
  <2> QED BY <2>1, <2>2
<1> HIDE DEF U
<1>4. Cardinality(LiveCells(U)) = n
  BY <1>3, LiveFinite, SameCount
<1>5. LiveCells(U) # DOMAIN U
  BY <1>3, <1>4, LiveFinite
<1> HIDE DEF n
<1>6. PICK c \in DOMAIN U \ LiveCells(U) :
        /\ T = [U EXCEPT ![c] = LiveCell(k, s)]
        /\ Table(T, K)
        /\ ProbeReachable(T)
  BY <1>1, <1>3, <1>5, PlaceFacts
<1>7. /\ LiveCells(T) = LiveCells(U) \union {c}
      /\ T[c].key = k /\ T[c].slot = s
      /\ \A d \in LiveCells(U) : T[d] = U[d] /\ d # c
  BY <1>6 DEF LiveCells, LiveCell
<1>8. Entries(U) = Entries(t) /\ (OnePerKey(t) => OnePerKey(U))
  BY <1>3, SameEntriesFacts
<1>9. Entries(T) = Entries(U) \union {<<k, s>>}
  <2> DEFINE M == LiveCells(U)
             W == LiveCells(T)
  <2>0. Entries(T) = {<<T[i].key, T[i].slot>> : i \in W} /\ Entries(U) = {<<U[i].key, U[i].slot>> : i \in M}
    BY DEF Entries
  <2>1. W = M \union {c} /\ \A d \in M : T[d] = U[d]
    BY <1>7
  <2> HIDE DEF M, W
  <2>2. ASSUME NEW e \in Entries(T) PROVE e \in Entries(U) \/ e = <<k, s>>
    <3>1. PICK d \in W : e = <<T[d].key, T[d].slot>>
      BY <2>0
    <3>2. CASE d = c
      BY <3>1, <3>2, <1>7
    <3>3. CASE d \in M
      BY <3>1, <3>3, <2>0, <2>1
    <3> QED BY <3>2, <3>3, <2>1
  <2>3. ASSUME NEW e \in Entries(U) PROVE e \in Entries(T)
    <3>1. PICK d \in M : e = <<U[d].key, U[d].slot>>
      BY <2>0
    <3>2. d \in W /\ e = <<T[d].key, T[d].slot>>
      BY <3>1, <2>1
    <3> QED BY <3>2, <2>0
  <2>4. <<k, s>> \in Entries(T)
    <3>1. c \in W
      BY <2>1
    <3> QED BY <3>1, <1>7, <2>0
  <2> QED BY <2>2, <2>3, <2>4
<1>10. ASSUME OnePerKey(t), CellsOf(t, k) = {} PROVE OnePerKey(T)
  <2>1. \A d \in LiveCells(U) : U[d].key # k
    <3> SUFFICES ASSUME NEW d \in LiveCells(U), U[d].key = k PROVE FALSE
      OBVIOUS
    <3>1. <<k, U[d].slot>> \in Entries(t)
      BY <1>8 DEF Entries
    <3>2. PICK a \in LiveCells(t) : <<k, U[d].slot>> = <<t[a].key, t[a].slot>>
      BY <3>1 DEF Entries
    <3>3. a \in CellsOf(t, k)
      BY <3>2 DEF CellsOf, HoldsKey, LiveCells
    <3> QED BY <3>3, <1>10
  <2> QED BY <2>1, <1>7, <1>8, <1>10 DEF OnePerKey
<1>11. Cardinality(LiveCells(T)) = n + 1
  <2>1. IsFiniteSet(LiveCells(U)) /\ c \notin LiveCells(U)
    BY <1>3, <1>6, LiveFinite
  <2>2. Cardinality(LiveCells(U) \union {c}) = Cardinality(LiveCells(U)) + 1
    BY <2>1, FS_AddElement
  <2> QED BY <2>2, <1>4, <1>7
<1> QED BY <1>6, <1>8, <1>9, <1>10, <1>11 DEF n

(***************************************************************************)
(* The graph: every traversal visits nodes of the graph only and reports each *)
(* once, and every operation leaves the lists the assertions ask for.      *)
(***************************************************************************)

(* The graph: slots from 0 on, keys in K, lists as the assertions of index.hpp want them. *)

ListOK(g, s, l, list) ==
  /\ list \in Seq(DOMAIN g.nodes)
  /\ Len(list) <= connectivity_max(l)
  /\ IsInjective(list)
  /\ \A i \in DOMAIN list : list[i] # s /\ g.nodes[list[i]].level >= l

NodeShape(x, K) ==
  /\ x = [key |-> x.key, level |-> x.level, vec |-> x.vec, nbrs |-> x.nbrs]
  /\ x.key \in K /\ x.level \in Nat /\ x.vec \in Int
  /\ x.nbrs = [l \in 0 .. x.level |-> x.nbrs[l]]

NodesOK(g, K) ==
  /\ g = [nodes |-> g.nodes, entry |-> g.entry, max_level |-> g.max_level]
  /\ Size(g) \in Nat
  /\ g.nodes = [s \in 0 .. Size(g) - 1 |-> g.nodes[s]]
  /\ \A s \in 0 .. Size(g) - 1 : NodeShape(g.nodes[s], K)
  /\ \A s \in 0 .. Size(g) - 1 : \A l \in 0 .. g.nodes[s].level : ListOK(g, s, l, g.nodes[s].nbrs[l])

EntryOK(g) ==
  Size(g) > 0 =>
    /\ g.entry \in DOMAIN g.nodes
    /\ g.max_level = g.nodes[g.entry].level
    /\ \A s \in DOMAIN g.nodes : g.nodes[s].level <= g.max_level

GraphOK(g, K) == NodesOK(g, K) /\ EntryOK(g)

\* h has the nodes of g; only lists differ.
SameNodes(g, h) ==
  /\ h.entry = g.entry /\ h.max_level = g.max_level
  /\ DOMAIN h.nodes = DOMAIN g.nodes
  /\ \A s \in DOMAIN g.nodes : /\ h.nodes[s].key = g.nodes[s].key
                               /\ h.nodes[s].level = g.nodes[s].level
                               /\ h.nodes[s].vec = g.nodes[s].vec

LEMMA WellFormedGraph ==
  ASSUME NEW K, NEW g, GraphOK(g, K)
  PROVE  WellFormed(g)
<1>1. DOMAIN g.nodes = 0 .. Size(g) - 1
  BY DEF GraphOK, NodesOK
<1>2. ASSUME NEW s \in DOMAIN g.nodes, NEW l \in 0 .. g.nodes[s].level
      PROVE  WellFormedList(g, s, l)
  <2> DEFINE list == neighbors_(g, s, l)
  <2>1. ListOK(g, s, l, list)
    BY <1>1 DEF GraphOK, NodesOK, neighbors_
  <2> HIDE DEF list
  <2>2. DOMAIN list = 1 .. Len(list) /\ \A i \in DOMAIN list : list[i] \in DOMAIN g.nodes
    BY <2>1, LenProperties, ElementOfSeq DEF ListOK
  <2>3. \A x \in ToSet(list) : x \in DOMAIN g.nodes \ {s} /\ g.nodes[x].level >= l
    BY <2>1, <2>2 DEF ListOK, ToSet
  <2> QED BY <2>1, <2>3, Zenon DEF ListOK, WellFormedList, list
<1> QED BY <1>2 DEF WellFormed, GraphOK, EntryOK

-----------------------------------------------------------------------------
(* Traversal stays in a set of slots that the lists of the level do not leave. *)

Within(g, V, l) ==
  /\ V \subseteq DOMAIN g.nodes
  /\ \A s \in V : neighbors_(g, s, l) \in Seq(V)

LEMMA DistNat ==
  ASSUME NEW K, NEW g, NodesOK(g, K), NEW q \in Int, NEW s \in DOMAIN g.nodes
  PROVE  Candidate(g, q, s).dist \in Nat /\ Candidate(g, q, s).slot = s
<1>1. g.nodes[s].vec \in Int
  BY DEF NodesOK, NodeShape
<1> DEFINE v == g.nodes[s].vec
<1> HIDE DEF v
<1>2. v \in Int
  BY <1>1 DEF v
<1>3. measure(q, v) \in Nat
  <2>1. \A x \in Int : x * x \in Nat
    OBVIOUS
  <2>2. q - v \in Int
    BY <1>2
  <2> QED BY <2>1, <2>2 DEF measure
<1> QED BY <1>3 DEF Candidate, v

LEMMA CloserFacts ==
  ASSUME NEW K, NEW g, NodesOK(g, K), NEW q \in Int, NEW V, NEW l, Within(g, V, l), NEW slot \in V
  PROVE  Closer(g, q, l, slot) \in V
<1> DEFINE list == neighbors_(g, slot, l)
           Dist(s) == Candidate(g, q, s).dist
           closer == {i \in DOMAIN list : Dist(list[i]) < Dist(slot)}
           best == {i \in closer : \A j \in closer : Dist(list[i]) <= Dist(list[j])}
<1>1. list \in Seq(V) /\ V \subseteq DOMAIN g.nodes
  BY DEF Within
<1>2. Closer(g, q, l, slot) = IF closer = {} THEN slot ELSE list[Min(best)]
  BY DEF Closer
<1> HIDE DEF list
<1>3. DOMAIN list = 1 .. Len(list) /\ Len(list) \in Nat /\ \A i \in DOMAIN list : list[i] \in V
  BY <1>1, LenProperties, ElementOfSeq
<1>4. CASE closer # {}
  <2> DEFINE D == {Dist(list[i]) : i \in closer}
  <2>1. \A i \in closer : i \in DOMAIN list /\ Dist(list[i]) \in Nat
    BY <1>1, <1>3, DistNat
  <2>2. D \in SUBSET Nat /\ D # {}
    <3> HIDE DEF closer, Dist
    <3> QED BY <1>4, <2>1
  <2>3. PICK m \in D : \A x \in D : m <= x
    <3> HIDE DEF D
    <3> QED BY <2>2, LeastNat
  <2> HIDE DEF closer, Dist
  <2>4. PICK i \in closer : m = Dist(list[i])
    BY <2>3
  <2>5. i \in best
    BY <2>3, <2>4
  <2>6. best \in SUBSET Nat /\ best # {}
    <3>1. \A j \in best : j \in closer
      OBVIOUS
    <3> HIDE DEF best
    <3> QED BY <2>1, <2>5, <1>3, <3>1
  <2>7. Min(best) \in best
    <3> HIDE DEF best
    <3> QED BY <2>6, MinFacts
  <2>8. Min(best) \in DOMAIN list
    BY <2>7, <2>1
  <2> QED BY <1>2, <1>3, <1>4, <2>8
<1> QED BY <1>2, <1>4

\* The passes of Greedy.
LEMMA GreedyLoop ==
  ASSUME NEW g, NEW q, NEW l, NEW slot, Size(g) \in Nat
  PROVE  \E f : /\ f[0] = slot
                /\ \A i \in 1 .. Size(g) : f[i] = Closer(g, q, l, f[i - 1])
                /\ Greedy(g, q, l, slot) = f[Size(g)]
<1> DEFINE n == Size(g)
           St(x, i) == Closer(g, q, l, x)
           base == slot
           Run(m, f) == f = [i \in 0 .. m |-> IF i = 0 THEN base ELSE St(f[i - 1], i)]
           S == {m \in 0 .. n : \E f : Run(m, f)}
           at == CHOOSE f : Run(n, f)
<1>0. n \in Nat
  OBVIOUS
<1>1. Greedy(g, q, l, slot) = at[n]
  BY DEF Greedy
<1> HIDE DEF n, St, base
<1>2. 0 \in S
  <2> DEFINE f == [i \in 0 .. 0 |-> base]
  <2>1. \A i \in 0 .. 0 : f[i] = IF i = 0 THEN base ELSE St(f[i - 1], i)
    OBVIOUS
  <2>2. Run(0, f)
    BY <2>1
  <2> HIDE DEF Run, f
  <2> QED BY <1>0, <2>2
<1>3. ASSUME NEW m \in 0 .. n, m < n, m \in S
      PROVE  m + 1 \in S
  <2>1. PICK f : Run(m, f)
    BY <1>3
  <2> DEFINE h == [i \in 0 .. m + 1 |-> IF i = m + 1 THEN St(f[m], m + 1) ELSE f[i]]
  <2>2. \A i \in 0 .. m + 1 : h[i] = IF i = 0 THEN base ELSE St(h[i - 1], i)
    <3> SUFFICES ASSUME NEW i \in 0 .. m + 1
                 PROVE h[i] = IF i = 0 THEN base ELSE St(h[i - 1], i)
      OBVIOUS
    <3>1. CASE i = m + 1
      <4>1. h[i] = St(f[m], m + 1) /\ i - 1 = m /\ i # 0 /\ h[m] = f[m]
        BY <3>1, <1>0
      <4> HIDE DEF h
      <4> QED BY <3>1, <4>1
    <3>2. CASE i # m + 1
      <4>1. i \in 0 .. m /\ h[i] = f[i]
        BY <3>2, <1>0
      <4>2. i # 0 => h[i - 1] = f[i - 1]
        BY <3>2, <1>0
      <4>3. f[i] = IF i = 0 THEN base ELSE St(f[i - 1], i)
        BY <2>1, <4>1
      <4> HIDE DEF h
      <4> QED BY <4>1, <4>2, <4>3
    <3> QED BY <3>1, <3>2
  <2>3. Run(m + 1, h)
    BY <2>2
  <2> HIDE DEF Run, h
  <2>4. m + 1 \in 0 .. n
    BY <1>0, <1>3
  <2> QED BY <2>3, <2>4
<1>4. n \in S
  <2> HIDE DEF S
  <2>1. \A i \in 0 .. n : i \in S
    BY <1>0, <1>2, <1>3, CountUp
  <2> QED BY <1>0, <2>1
<1>5. Run(n, at)
  <2>1. \E f : Run(n, f)
    BY <1>4
  <2> HIDE DEF Run
  <2> QED BY <2>1, Zenon
<1>6. at[0] = base /\ \A i \in 1 .. n : at[i] = St(at[i - 1], i)
  <2>1. \A i \in 0 .. n : at[i] = IF i = 0 THEN base ELSE St(at[i - 1], i)
    <3>1. at = [i \in 0 .. n |-> IF i = 0 THEN base ELSE St(at[i - 1], i)]
      BY <1>5
    <3> HIDE DEF at
    <3> QED BY <3>1
  <2> HIDE DEF at
  <2> QED BY <2>1, <1>0
<1> HIDE DEF at
<1> QED BY <1>1, <1>6 DEF n, St, base


LEMMA GreedyFacts ==
  ASSUME NEW K, NEW g, NodesOK(g, K), NEW q \in Int, NEW V, NEW l, Within(g, V, l), NEW slot \in V
  PROVE  Greedy(g, q, l, slot) \in V
<1>1. Size(g) \in Nat
  BY DEF NodesOK
<1>2. PICK f : /\ f[0] = slot
               /\ \A i \in 1 .. Size(g) : f[i] = Closer(g, q, l, f[i - 1])
               /\ Greedy(g, q, l, slot) = f[Size(g)]
  BY <1>1, GreedyLoop
<1> DEFINE n == Size(g)
           S == {i \in 0 .. n : f[i] \in V}
<1>3. 0 \in S
  BY <1>1, <1>2
<1>4. ASSUME NEW i \in 0 .. n, i < n, i \in S PROVE i + 1 \in S
  <2>1. i + 1 \in 1 .. n /\ (i + 1) - 1 = i /\ i + 1 \in 0 .. n
    BY <1>1, <1>4
  <2>2. f[i + 1] = Closer(g, q, l, f[i])
    BY <2>1, <1>2
  <2>3. f[i] \in V
    BY <1>4
  <2>4. f[i + 1] \in V
    BY <2>2, <2>3, CloserFacts
  <2> QED BY <2>1, <2>4
<1> HIDE DEF S
<1>5. \A i \in 0 .. n : i \in S
  BY <1>1, <1>3, <1>4, CountUp
<1> QED BY <1>1, <1>2, <1>5 DEF S


\* The levels that search_for_one_ goes down.
Descends(f, g, q, begin, levels) ==
  \A i \in 1 .. levels : f[i] = Greedy(g, q, begin - i + 1, f[i - 1])

LEMMA DescentLoop ==
  ASSUME NEW g, NEW q, NEW slot, NEW begin \in Int, NEW end \in Int, NEW levels, levels = (IF begin > end THEN begin - end ELSE 0), levels \in Nat
  PROVE  \E f : /\ f[0] = slot
                /\ Descends(f, g, q, begin, levels)
                /\ search_for_one_(g, q, slot, begin, end) = f[levels]
<1> DEFINE n == levels
           St(x, i) == Greedy(g, q, begin - i + 1, x)
           base == slot
           Run(m, f) == f = [i \in 0 .. m |-> IF i = 0 THEN base ELSE St(f[i - 1], i)]
           S == {m \in 0 .. n : \E f : Run(m, f)}
           at == CHOOSE f : Run(n, f)
<1>0. n \in Nat
  OBVIOUS
<1>1. search_for_one_(g, q, slot, begin, end) = at[n]
  BY DEF search_for_one_
<1> HIDE DEF n, St, base
<1>2. 0 \in S
  <2> DEFINE f == [i \in 0 .. 0 |-> base]
  <2>1. \A i \in 0 .. 0 : f[i] = IF i = 0 THEN base ELSE St(f[i - 1], i)
    OBVIOUS
  <2>2. Run(0, f)
    BY <2>1
  <2> HIDE DEF Run, f
  <2> QED BY <1>0, <2>2
<1>3. ASSUME NEW m \in 0 .. n, m < n, m \in S
      PROVE  m + 1 \in S
  <2>1. PICK f : Run(m, f)
    BY <1>3
  <2> DEFINE h == [i \in 0 .. m + 1 |-> IF i = m + 1 THEN St(f[m], m + 1) ELSE f[i]]
  <2>2. \A i \in 0 .. m + 1 : h[i] = IF i = 0 THEN base ELSE St(h[i - 1], i)
    <3> SUFFICES ASSUME NEW i \in 0 .. m + 1
                 PROVE h[i] = IF i = 0 THEN base ELSE St(h[i - 1], i)
      OBVIOUS
    <3>1. CASE i = m + 1
      <4>1. h[i] = St(f[m], m + 1) /\ i - 1 = m /\ i # 0 /\ h[m] = f[m]
        BY <3>1, <1>0
      <4> HIDE DEF h
      <4> QED BY <3>1, <4>1
    <3>2. CASE i # m + 1
      <4>1. i \in 0 .. m /\ h[i] = f[i]
        BY <3>2, <1>0
      <4>2. i # 0 => h[i - 1] = f[i - 1]
        BY <3>2, <1>0
      <4>3. f[i] = IF i = 0 THEN base ELSE St(f[i - 1], i)
        BY <2>1, <4>1
      <4> HIDE DEF h
      <4> QED BY <4>1, <4>2, <4>3
    <3> QED BY <3>1, <3>2
  <2>3. Run(m + 1, h)
    BY <2>2
  <2> HIDE DEF Run, h
  <2>4. m + 1 \in 0 .. n
    BY <1>0, <1>3
  <2> QED BY <2>3, <2>4
<1>4. n \in S
  <2> HIDE DEF S
  <2>1. \A i \in 0 .. n : i \in S
    BY <1>0, <1>2, <1>3, CountUp
  <2> QED BY <1>0, <2>1
<1>5. Run(n, at)
  <2>1. \E f : Run(n, f)
    BY <1>4
  <2> HIDE DEF Run
  <2> QED BY <2>1, Zenon
<1>6. at[0] = base /\ \A i \in 1 .. n : at[i] = St(at[i - 1], i)
  <2>1. \A i \in 0 .. n : at[i] = IF i = 0 THEN base ELSE St(at[i - 1], i)
    <3>1. at = [i \in 0 .. n |-> IF i = 0 THEN base ELSE St(at[i - 1], i)]
      BY <1>5
    <3> HIDE DEF at
    <3> QED BY <3>1
  <2> HIDE DEF at
  <2> QED BY <2>1, <1>0
<1> HIDE DEF at
<1> QED BY <1>1, <1>6 DEF n, St, base, Descends


\* The slots of Old that have level l.
Above(g, Old, l) == {s \in Old : g.nodes[s].level >= l}

LEMMA DescentFacts ==
  ASSUME NEW K, NEW g, NodesOK(g, K), NEW q \in Int, NEW Old, NEW begin \in Int, NEW end \in Int,
         Old \subseteq DOMAIN g.nodes,
         \A l \in Int : end < l /\ l <= begin => Within(g, Above(g, Old, l), l),
         NEW slot \in Above(g, Old, begin)
  PROVE  search_for_one_(g, q, slot, begin, end) \in Above(g, Old, IF begin <= end THEN begin ELSE end)
<1> DEFINE levels == IF begin > end THEN begin - end ELSE 0
<1>1. levels \in Nat
  OBVIOUS
<1>2. PICK f : /\ f[0] = slot
               /\ \A i \in 1 .. levels : f[i] = Greedy(g, q, begin - i + 1, f[i - 1])
               /\ search_for_one_(g, q, slot, begin, end) = f[levels]
  <2> DEFINE n == levels
  <2>1. n = (IF begin > end THEN begin - end ELSE 0)
    OBVIOUS
  <2> HIDE DEF levels
  <2>2. PICK f : f[0] = slot /\ Descends(f, g, q, begin, n) /\ search_for_one_(g, q, slot, begin, end) = f[n]
    BY <2>1, <1>1, DescentLoop
  <2> QED BY <2>2 DEF Descends
<1>3. \A s \in Old : g.nodes[s].level \in Nat
  BY DEF NodesOK, NodeShape
<1>4. \A l \in Int, m \in Int : m <= l => Above(g, Old, l) \subseteq Above(g, Old, m)
  BY <1>3 DEF Above
<1> DEFINE S == {i \in 0 .. levels : f[i] \in Above(g, Old, begin - i)}
<1>5. 0 \in S
  BY <1>1, <1>2
<1>6. ASSUME NEW i \in 0 .. levels, i < levels, i \in S PROVE i + 1 \in S
  <2> DEFINE l == begin - i
  <2>1. i + 1 \in 1 .. levels /\ (i + 1) - 1 = i /\ i + 1 \in 0 .. levels /\ l \in Int /\ end < l /\ l <= begin
        /\ begin - (i + 1) + 1 = l /\ begin - (i + 1) <= l /\ begin - (i + 1) \in Int
    BY <1>1, <1>6
  <2>2. f[i + 1] = Greedy(g, q, l, f[i])
    BY <2>1, <1>2
  <2>3. f[i] \in Above(g, Old, l)
    BY <1>6
  <2> HIDE DEF l, levels
  <2>4. Within(g, Above(g, Old, l), l)
    BY <2>1
  <2>5. f[i + 1] \in Above(g, Old, l)
    BY <2>2, <2>3, <2>4, GreedyFacts
  <2>6. f[i + 1] \in Above(g, Old, begin - (i + 1))
    BY <2>1, <2>5, <1>4
  <2> QED BY <2>1, <2>6
<1>7. levels \in S
  <2> HIDE DEF S, levels
  <2>1. \A i \in 0 .. levels : i \in S
    BY <1>1, <1>5, <1>6, CountUp
  <2> QED BY <1>1, <2>1
<1>8. search_for_one_(g, q, slot, begin, end) \in Above(g, Old, begin - levels)
  <2> HIDE DEF levels
  <2> QED BY <1>2, <1>7
<1>9. begin - levels = IF begin <= end THEN begin ELSE end
  OBVIOUS
<1> QED BY <1>8, <1>9


-----------------------------------------------------------------------------
(* The containers. *)

LEMMA InsertAtFacts ==
  ASSUME NEW X, NEW s \in Seq(X), NEW pos \in 1 .. Len(s) + 1, NEW c \in X
  PROVE  /\ InsertAt(s, pos, c) \in Seq(X)
         /\ Len(InsertAt(s, pos, c)) = Len(s) + 1
         /\ \A i \in 1 .. Len(s) + 1 :
              InsertAt(s, pos, c)[i] = IF i < pos THEN s[i] ELSE IF i = pos THEN c ELSE s[i - 1]
<1> DEFINE a == SubSeq(s, 1, pos - 1)
           b == SubSeq(s, pos, Len(s))
           n == Len(s)
           ac == a \o <<c>>
           r == InsertAt(s, pos, c)
<1>1. n \in Nat /\ \A i \in 1 .. n : s[i] \in X
  BY LenProperties, ElementOfSeq
<1>2. a \in Seq(X) /\ Len(a) = pos - 1 /\ \A i \in 1 .. pos - 1 : a[i] = s[i]
  <2>1. pos - 1 \in Int /\ 1 \in Int /\ \A i \in 1 .. pos - 1 : s[i] \in X
    BY <1>1
  <2>2. /\ a \in Seq(X)
        /\ Len(a) = IF 1 <= pos - 1 THEN (pos - 1) - 1 + 1 ELSE 0
        /\ \A i \in 1 .. (pos - 1) - 1 + 1 : a[i] = s[1 + i - 1]
    BY <2>1, SubSeqProperties
  <2> HIDE DEF a
  <2>3. \A i \in 1 .. pos - 1 : i \in 1 .. (pos - 1) - 1 + 1 /\ 1 + i - 1 = i
    BY <1>1
  <2> QED BY <1>1, <2>2, <2>3
<1>3. b \in Seq(X) /\ Len(b) = n - pos + 1 /\ \A i \in 1 .. n - pos + 1 : b[i] = s[pos + i - 1]
  <2>1. pos \in Int /\ n \in Int /\ \A i \in pos .. n : s[i] \in X
    BY <1>1
  <2>2. /\ b \in Seq(X)
        /\ Len(b) = IF pos <= n THEN n - pos + 1 ELSE 0
        /\ \A i \in 1 .. n - pos + 1 : b[i] = s[pos + i - 1]
    BY <2>1, SubSeqProperties
  <2> HIDE DEF b
  <2> QED BY <1>1, <2>2
<1>4. r = ac \o b
  BY DEF InsertAt
<1>5. <<c>> \in Seq(X) /\ Len(<<c>>) = 1 /\ <<c>>[1] = c
  OBVIOUS
<1> HIDE DEF a, b
<1>6. /\ ac \in Seq(X)
      /\ Len(ac) = pos
      /\ \A i \in 1 .. pos : ac[i] = IF i <= pos - 1 THEN a[i] ELSE c
  <2>1. /\ ac \in Seq(X)
        /\ Len(ac) = Len(a) + Len(<<c>>)
        /\ \A i \in 1 .. Len(a) + Len(<<c>>) : ac[i] = IF i <= Len(a) THEN a[i] ELSE <<c>>[i - Len(a)]
    BY <1>2, <1>5, ConcatProperties
  <2>2. Len(a) + Len(<<c>>) = pos
    BY <1>1, <1>2, <1>5
  <2>3. \A i \in 1 .. pos : ~ (i <= pos - 1) => i - Len(a) = 1
    BY <1>1, <1>2
  <2> HIDE DEF ac
  <2> QED BY <1>2, <1>5, <2>1, <2>2, <2>3
<1> HIDE DEF ac, n, r
<1>7. /\ r \in Seq(X)
      /\ Len(r) = Len(ac) + Len(b)
      /\ \A i \in 1 .. Len(ac) + Len(b) : r[i] = IF i <= Len(ac) THEN ac[i] ELSE b[i - Len(ac)]
  <2>1. ac \in Seq(X) /\ b \in Seq(X)
    BY <1>3, <1>6
  <2>2. /\ ac \o b \in Seq(X)
        /\ Len(ac \o b) = Len(ac) + Len(b)
        /\ \A i \in 1 .. Len(ac) + Len(b) : (ac \o b)[i] = IF i <= Len(ac) THEN ac[i] ELSE b[i - Len(ac)]
    BY <2>1, ConcatProperties
  <2> QED BY <1>4, <2>2, Zenon
<1> HIDE DEF r
<1>8. Len(r) = n + 1 /\ Len(ac) + Len(b) = n + 1 /\ pos \in 1 .. n + 1
  BY <1>1, <1>3, <1>6, <1>7 DEF n
<1>9. ASSUME NEW i \in 1 .. n + 1
      PROVE  r[i] = IF i < pos THEN s[i] ELSE IF i = pos THEN c ELSE s[i - 1]
  <2>0. r[i] = IF i <= pos THEN ac[i] ELSE b[i - pos]
    BY <1>6, <1>7, <1>8
  <2>1. CASE i < pos
    BY <2>0, <2>1, <1>1, <1>2, <1>6, <1>8
  <2>2. CASE i = pos
    BY <2>0, <2>2, <1>1, <1>6, <1>8
  <2>3. CASE i > pos
    <3>1. i - pos \in 1 .. n - pos + 1 /\ pos + (i - pos) - 1 = i - 1
      BY <2>3, <1>1, <1>8
    <3> QED BY <2>0, <2>3, <3>1, <1>1, <1>3, <1>8
  <2> QED BY <2>1, <2>2, <2>3, <1>1, <1>8
<1> QED BY <1>7, <1>8, <1>9 DEF n, r

\* The number of elements of a part of a sequence is a position in it.
LEMMA PartCount ==
  ASSUME NEW n \in Nat, NEW D \in SUBSET (1 .. n)
  PROVE  Cardinality(D) \in 0 .. n
<1>1. IsFiniteSet(1 .. n) /\ Cardinality(1 .. n) = n
  BY FS_Interval
<1>2. IsFiniteSet(D) /\ Cardinality(D) <= n
  BY <1>1, FS_Subset
<1>3. Cardinality(D) \in Nat
  BY <1>2, FS_CardinalityType
<1> QED BY <1>2, <1>3

\* A part that holds every position before one of its positions is a prefix.
LEMMA PrefixCount ==
  ASSUME NEW n \in Nat, NEW D \in SUBSET (1 .. n),
         \A i, j \in 1 .. n : i <= j /\ j \in D => i \in D
  PROVE  D = 1 .. Cardinality(D) /\ Cardinality(D) \in 0 .. n
<1> DEFINE out == {i \in 1 .. n + 1 : i \notin D}
<1>1. n + 1 \in out /\ out \in SUBSET Nat
  OBVIOUS
<1>2. PICK m \in out : \A x \in out : m <= x
  <2> HIDE DEF out
  <2> QED BY <1>1, LeastNat
<1>3. m \in 1 .. n + 1 /\ m \notin D
  OBVIOUS
<1>4. \A i \in 1 .. n : i \in D <=> i < m
  BY <1>2, <1>3
<1>5. D = 1 .. m - 1
  <2>1. \A i \in D : i \in 1 .. m - 1
    BY <1>3, <1>4
  <2>2. \A i \in 1 .. m - 1 : i \in D
    BY <1>3, <1>4
  <2> QED BY <2>1, <2>2
<1>6. Cardinality(1 .. m - 1) = m - 1
  BY <1>3, FS_Interval
<1> QED BY <1>3, <1>5, <1>6

Closest1st(top) == \A i, j \in DOMAIN top : i < j => top[i].dist <= top[j].dist

\* The buffer stays sorted, without duplicates, and takes nothing but the new one.
LEMMA TopInsertFacts ==
  ASSUME NEW X, \A x \in X : x.dist \in Nat, NEW top \in Seq(X), Closest1st(top),
         NEW c \in X, NEW limit \in Nat
  PROVE  LET r == TopInsert(top, c, limit)
         IN  /\ r \in Seq(X)
             /\ ToSet(r) \subseteq ToSet(top) \union {c}
             /\ IsInjective(top) /\ c \notin ToSet(top) => IsInjective(r)
             /\ Closest1st(r)
<1> DEFINE n == Len(top)
           D == {i \in DOMAIN top : top[i].dist < c.dist}
           pos == Cardinality(D) + 1
           longer == InsertAt(top, pos, c)
           r == TopInsert(top, c, limit)
<1>1. n \in Nat /\ DOMAIN top = 1 .. n /\ \A i \in 1 .. n : top[i] \in X /\ top[i].dist \in Nat
  BY LenProperties, ElementOfSeq
<1>2. D \in SUBSET (1 .. n) /\ \A i, j \in 1 .. n : i <= j /\ j \in D => i \in D
  <2>1. c.dist \in Nat
    OBVIOUS
  <2> SUFFICES ASSUME NEW i \in 1 .. n, NEW j \in 1 .. n, i <= j, j \in D PROVE i \in D
    BY <1>1
  <2>2. top[j].dist < c.dist /\ top[i].dist <= top[j].dist
    BY <1>1 DEF Closest1st
  <2> QED BY <1>1, <2>1, <2>2
<1>3. D = 1 .. pos - 1 /\ pos \in 1 .. n + 1
  <2> HIDE DEF D, n
  <2>1. D = 1 .. Cardinality(D) /\ Cardinality(D) \in 0 .. n
    BY <1>1, <1>2, PrefixCount
  <2> QED BY <1>1, <2>1
<1>4. r = IF pos > limit THEN top ELSE IF Len(longer) > limit THEN SubSeq(longer, 1, limit) ELSE longer
  BY DEF TopInsert
<1>5. \A i \in 1 .. n : top[i].dist < c.dist <=> i < pos
  <2>1. \A i \in 1 .. n : i \in D <=> i \in 1 .. pos - 1
    BY <1>3
  <2> HIDE DEF pos
  <2> QED BY <2>1, <1>1, <1>3
<1> HIDE DEF D, pos, r
<1>6. /\ longer \in Seq(X)
      /\ Len(longer) = n + 1
      /\ \A i \in 1 .. n + 1 : longer[i] = IF i < pos THEN top[i] ELSE IF i = pos THEN c ELSE top[i - 1]
  BY <1>3, InsertAtFacts
<1> HIDE DEF n, longer
<1>7. ToSet(longer) \subseteq ToSet(top) \union {c}
  <2> SUFFICES ASSUME NEW i \in 1 .. n + 1 PROVE longer[i] \in ToSet(top) \union {c}
    BY <1>6, LenProperties DEF ToSet
  <2>1. i < pos => i \in 1 .. n
    BY <1>1, <1>3
  <2>2. i > pos => i - 1 \in 1 .. n
    BY <1>1, <1>3
  <2>3. \A j \in 1 .. n : top[j] \in ToSet(top)
    BY <1>1 DEF ToSet
  <2>4. longer[i] = IF i < pos THEN top[i] ELSE IF i = pos THEN c ELSE top[i - 1]
    BY <1>6
  <2>5. i < pos \/ i = pos \/ i > pos
    BY <1>1, <1>3
  <2>6. ~ (i < pos /\ i = pos) /\ ~ (i < pos /\ i > pos) /\ ~ (i = pos /\ i > pos)
    BY <1>1, <1>3
  <2> QED BY <2>1, <2>2, <2>3, <2>4, <2>5, <2>6
<1>8. ASSUME IsInjective(top), c \notin ToSet(top) PROVE IsInjective(longer)
  <2>0. DOMAIN longer = 1 .. n + 1
    BY <1>6, LenProperties
  <2>1. \A i \in 1 .. n : top[i] # c
    BY <1>1, <1>8 DEF ToSet
  <2>2. \A i, j \in 1 .. n : top[i] = top[j] => i = j
    BY <1>1, <1>8 DEF IsInjective
  <2> SUFFICES ASSUME NEW i \in 1 .. n + 1, NEW j \in 1 .. n + 1, longer[i] = longer[j] PROVE i = j
    BY <2>0 DEF IsInjective
  <2>3. \A k \in 1 .. n + 1 : (k < pos => k \in 1 .. n) /\ (k > pos => k - 1 \in 1 .. n)
    BY <1>1, <1>3
  <2> QED BY <1>1, <1>3, <1>6, <2>1, <2>2, <2>3
<1>9. Closest1st(longer)
  <2>0. DOMAIN longer = 1 .. n + 1
    BY <1>6, LenProperties
  <2>1. \A i, j \in 1 .. n : i < j => top[i].dist <= top[j].dist
    BY <1>1 DEF Closest1st
  <2>2. c.dist \in Nat
    OBVIOUS
  <2> SUFFICES ASSUME NEW i \in 1 .. n + 1, NEW j \in 1 .. n + 1, i < j
               PROVE  longer[i].dist <= longer[j].dist
    BY <2>0 DEF Closest1st
  <2>3. \A k \in 1 .. n + 1 : (k < pos => k \in 1 .. n) /\ (k > pos => k - 1 \in 1 .. n)
    BY <1>1, <1>3
  <2>4. CASE j < pos
    <3>1. longer[i] = top[i] /\ longer[j] = top[j] /\ i \in 1 .. n /\ j \in 1 .. n
      BY <2>4, <1>1, <1>3, <1>6, <2>3
    <3> QED BY <3>1, <2>1
  <2>5. CASE j = pos
    <3>1. longer[i] = top[i] /\ longer[j] = c /\ i \in 1 .. n /\ i < pos
      BY <2>5, <1>1, <1>3, <1>6, <2>3
    <3> QED BY <3>1, <1>1, <1>5, <2>2
  <2>6. CASE j > pos /\ i < pos
    <3>1. longer[i] = top[i] /\ longer[j] = top[j - 1] /\ i \in 1 .. n /\ j - 1 \in 1 .. n /\ i < j - 1
      BY <2>6, <1>1, <1>3, <1>6, <2>3
    <3> QED BY <3>1, <2>1
  <2>7. CASE j > pos /\ i = pos
    <3>1. longer[i] = c /\ longer[j] = top[j - 1] /\ j - 1 \in 1 .. n /\ ~ (j - 1 < pos)
      BY <2>7, <1>1, <1>3, <1>6, <2>3
    <3> QED BY <3>1, <1>1, <1>5, <2>2
  <2>8. CASE j > pos /\ i > pos
    <3>1. longer[i] = top[i - 1] /\ longer[j] = top[j - 1] /\ i - 1 \in 1 .. n /\ j - 1 \in 1 .. n /\ i - 1 < j - 1
      BY <2>8, <1>1, <1>3, <1>6, <2>3
    <3> QED BY <3>1, <2>1
  <2> QED BY <2>4, <2>5, <2>6, <2>7, <2>8, <1>1, <1>3
<1>10. CASE pos > limit
  <2>1. r = top
    BY <1>4, <1>10
  <2> QED BY <2>1 DEF r
<1>11. CASE ~ (pos > limit) /\ ~ (Len(longer) > limit)
  <2>1. r = longer
    BY <1>4, <1>11
  <2> QED BY <2>1, <1>6, <1>7, <1>8, <1>9 DEF r
<1>12. CASE ~ (pos > limit) /\ Len(longer) > limit
  <2>1. r = SubSeq(longer, 1, limit)
    BY <1>4, <1>12
  <2>2. DOMAIN longer = 1 .. n + 1 /\ \A i \in 1 .. n + 1 : longer[i] \in X
    BY <1>6, LenProperties, ElementOfSeq
  <2>3. \A i \in 1 .. limit : i \in 1 .. n + 1
    BY <1>1, <1>6, <1>12
  <2>4. 1 \in Int /\ limit \in Int /\ \A i \in 1 .. limit : longer[i] \in X
    BY <2>2, <2>3
  <2>5. /\ r \in Seq(X)
        /\ Len(r) = IF 1 <= limit THEN limit - 1 + 1 ELSE 0
        /\ \A i \in 1 .. limit - 1 + 1 : r[i] = longer[1 + i - 1]
    BY <2>1, <2>4, SubSeqProperties
  <2>6. DOMAIN r = 1 .. limit /\ \A i \in 1 .. limit : r[i] = longer[i] /\ i \in DOMAIN longer
    <3>1. Len(r) = limit
      BY <2>5
    <3>2. \A i \in 1 .. limit : i \in 1 .. limit - 1 + 1 /\ 1 + i - 1 = i
      OBVIOUS
    <3> QED BY <2>2, <2>3, <2>5, <3>1, <3>2, LenProperties
  <2>7. ToSet(r) \subseteq ToSet(longer)
    BY <2>6 DEF ToSet
  <2>8. IsInjective(longer) => IsInjective(r)
    BY <2>6 DEF IsInjective
  <2>9. Closest1st(r)
    BY <2>6, <1>9 DEF Closest1st
  <2> QED BY <2>5, <2>7, <2>8, <2>9, <1>7, <1>8 DEF r
<1> QED BY <1>10, <1>11, <1>12

LEMMA NextInsertFacts ==
  ASSUME NEW X, NEW next \in Seq(X), NEW c \in X
  PROVE  NextInsert(next, c) \in Seq(X)
<1> DEFINE D == {i \in DOMAIN next : next[i].dist <= c.dist}
           pos == Cardinality(D) + 1
<1>1. Len(next) \in Nat /\ DOMAIN next = 1 .. Len(next)
  BY LenProperties
<1>2. D \in SUBSET (1 .. Len(next))
  BY <1>1
<1> HIDE DEF D
<1>3. Cardinality(D) \in 0 .. Len(next)
  BY <1>1, <1>2, PartCount
<1>4. pos \in 1 .. Len(next) + 1
  BY <1>1, <1>3
<1>5. NextInsert(next, c) = InsertAt(next, pos, c)
  BY DEF NextInsert, D
<1> HIDE DEF pos
<1> QED BY <1>4, <1>5, InsertAtFacts

-----------------------------------------------------------------------------
(* The traversal of one level. *)

Cand(g, q, V) == {Candidate(g, q, s) : s \in V}

\* What the rounds of a traversal keep: the queued and the reported are slots of V
\* seen before, the reported sorted, none twice and none banned.
StateOK(g, q, V, banned, s) ==
  /\ s = [next |-> s.next, visits |-> s.visits, radius |-> s.radius, top |-> s.top]
  /\ s.visits \subseteq V
  /\ s.next \in Seq(Cand(g, q, V))
  /\ s.top \in Seq(Cand(g, q, V))
  /\ IsInjective(s.top) /\ Closest1st(s.top)
  /\ \A i \in DOMAIN s.top : s.top[i].slot \in s.visits \ banned

LEMMA CandFacts ==
  ASSUME NEW K, NEW g, NodesOK(g, K), NEW q \in Int, NEW V \in SUBSET DOMAIN g.nodes
  PROVE  \A x \in Cand(g, q, V) : /\ x.dist \in Nat /\ x.slot \in V
                                  /\ x = Candidate(g, q, x.slot)
<1> SUFFICES ASSUME NEW s \in V
             PROVE  LET x == Candidate(g, q, s)
                    IN  x.dist \in Nat /\ x.slot \in V /\ x = Candidate(g, q, x.slot)
  BY DEF Cand
<1>1. Candidate(g, q, s).dist \in Nat /\ Candidate(g, q, s).slot = s
  BY DistNat
<1> QED BY <1>1

LEMMA StateWith ==
  ASSUME NEW s, s = [next |-> s.next, visits |-> s.visits, radius |-> s.radius, top |-> s.top]
  PROVE  /\ \A x : [s EXCEPT !.visits = x] = [next |-> s.next, visits |-> x, radius |-> s.radius, top |-> s.top]
         /\ \A x : [s EXCEPT !.next = x] = [next |-> x, visits |-> s.visits, radius |-> s.radius, top |-> s.top]
<1> DEFINE a == s.next
           b == s.visits
           c == s.radius
           d == s.top
<1>1. s = [next |-> a, visits |-> b, radius |-> c, top |-> d]
  OBVIOUS
<1> HIDE DEF a, b, c, d
<1>2. ASSUME NEW x PROVE [s EXCEPT !.visits = x] = [next |-> a, visits |-> x, radius |-> c, top |-> d]
  BY <1>1
<1>3. ASSUME NEW x PROVE [s EXCEPT !.next = x] = [next |-> x, visits |-> b, radius |-> c, top |-> d]
  BY <1>1
<1> QED BY <1>2, <1>3 DEF a, b, c, d

LEMMA VisitFacts ==
  ASSUME NEW K, NEW g, NodesOK(g, K), NEW q \in Int, NEW V \in SUBSET DOMAIN g.nodes,
         NEW limit \in Nat, NEW banned, NEW s, StateOK(g, q, V, banned, s), NEW slot \in V
  PROVE  StateOK(g, q, V, banned, Visit(g, q, limit, banned, s, slot))
<1> DEFINE X == Cand(g, q, V)
           c == Candidate(g, q, slot)
           seen == [s EXCEPT !.visits = SetVisited(@, slot)]
           top == IF slot \in banned THEN s.top ELSE TopInsert(s.top, c, limit)
           nxt == NextInsert(s.next, c)
           rad == IF top = <<>> THEN s.radius ELSE Last(top).dist
           far == Len(s.top) >= limit /\ c.dist >= s.radius
           r == Visit(g, q, limit, banned, s, slot)
<1>0. s = [next |-> s.next, visits |-> s.visits, radius |-> s.radius, top |-> s.top]
  BY DEF StateOK
<1>1. seen = [next |-> s.next, visits |-> s.visits \union {slot}, radius |-> s.radius, top |-> s.top]
  <2>1. seen = [s EXCEPT !.visits = s.visits \union {slot}]
    BY DEF SetVisited
  <2> QED BY <1>0, <2>1, StateWith
<1>3. r = IF slot \in s.visits THEN s ELSE IF far THEN seen
          ELSE [next |-> nxt, visits |-> s.visits \union {slot}, radius |-> rad, top |-> top]
  BY DEF Visit, SetVisited
<1>4. c \in X /\ c.slot = slot /\ \A x \in X : x.dist \in Nat
  BY CandFacts, DistNat DEF Cand
<1> HIDE DEF X, c, r, far, nxt, rad
<1>5. CASE slot \in s.visits
  BY <1>3, <1>5 DEF r
<1>6. CASE slot \notin s.visits /\ far
  <2>1. r = seen
    BY <1>3, <1>6
  <2> QED BY <2>1, <1>1 DEF StateOK, r
<1>7. CASE slot \notin s.visits /\ ~far
  <2> DEFINE st == [next |-> nxt, visits |-> s.visits \union {slot}, radius |-> rad, top |-> top]
  <2>1. r = st
    BY <1>3, <1>7
  <2>2. nxt \in Seq(X)
    <3>1. s.next \in Seq(X)
      BY DEF StateOK, X
    <3> DEFINE nx == s.next
    <3> HIDE DEF nx
    <3>2. nx \in Seq(X)
      BY <3>1 DEF nx
    <3> QED BY <3>2, <1>4, NextInsertFacts DEF nxt, nx
  <2>3. top \in Seq(X) /\ IsInjective(top) /\ Closest1st(top) /\ \A i \in DOMAIN top : top[i].slot \in (s.visits \union {slot}) \ banned
    <3> DEFINE t == s.top
    <3>1. t \in Seq(X) /\ IsInjective(t) /\ Closest1st(t) /\ \A i \in DOMAIN t : t[i].slot \in s.visits \ banned
      BY DEF StateOK, X
    <3>2. CASE slot \in banned
      BY <3>1, <3>2
    <3>3. CASE slot \notin banned
      <4>0. top = TopInsert(t, c, limit)
        BY <3>3
      <4> HIDE DEF t, top
      <4>1. c \notin ToSet(t)
        BY <3>1, <1>4, <1>7 DEF ToSet
      <4>2. /\ top \in Seq(X)
            /\ ToSet(top) \subseteq ToSet(t) \union {c}
            /\ IsInjective(t) /\ c \notin ToSet(t) => IsInjective(top)
            /\ Closest1st(top)
        BY <4>0, <1>4, <3>1, TopInsertFacts
      <4>3. \A x \in ToSet(t) \union {c} : x.slot \in (s.visits \union {slot}) \ banned
        BY <3>1, <1>4, <3>3 DEF ToSet
      <4>4. \A i \in DOMAIN top : top[i] \in ToSet(top)
        BY DEF ToSet
      <4> QED BY <3>1, <4>1, <4>2, <4>3, <4>4
    <3> QED BY <3>2, <3>3
  <2>4. s.visits \union {slot} \subseteq V
    BY DEF StateOK
  <2>5. /\ st.next = nxt /\ st.visits = s.visits \union {slot} /\ st.radius = rad /\ st.top = top
        /\ st = [next |-> st.next, visits |-> st.visits, radius |-> st.radius, top |-> st.top]
    OBVIOUS
  <2> HIDE DEF st, top
  <2>6. StateOK(g, q, V, banned, st)
    BY <2>2, <2>3, <2>4, <2>5 DEF StateOK, X
  <2> QED BY <2>1, <2>6 DEF r
<1> QED BY <1>5, <1>6, <1>7


\* The neighbours that VisitAll goes through.
LEMMA VisitLoop ==
  ASSUME NEW g, NEW q, NEW limit, NEW banned, NEW s, NEW list, Len(list) \in Nat
  PROVE  \E f : /\ f[0] = s
                /\ \A i \in 1 .. Len(list) : f[i] = Visit(g, q, limit, banned, f[i - 1], list[i])
                /\ VisitAll(g, q, limit, banned, s, list) = f[Len(list)]
<1> DEFINE n == Len(list)
           St(x, i) == Visit(g, q, limit, banned, x, list[i])
           base == s
           Run(m, f) == f = [i \in 0 .. m |-> IF i = 0 THEN base ELSE St(f[i - 1], i)]
           S == {m \in 0 .. n : \E f : Run(m, f)}
           at == CHOOSE f : Run(n, f)
<1>0. n \in Nat
  OBVIOUS
<1>1. VisitAll(g, q, limit, banned, s, list) = at[n]
  BY DEF VisitAll
<1> HIDE DEF n, St, base
<1>2. 0 \in S
  <2> DEFINE f == [i \in 0 .. 0 |-> base]
  <2>1. \A i \in 0 .. 0 : f[i] = IF i = 0 THEN base ELSE St(f[i - 1], i)
    OBVIOUS
  <2>2. Run(0, f)
    BY <2>1
  <2> HIDE DEF Run, f
  <2> QED BY <1>0, <2>2
<1>3. ASSUME NEW m \in 0 .. n, m < n, m \in S
      PROVE  m + 1 \in S
  <2>1. PICK f : Run(m, f)
    BY <1>3
  <2> DEFINE h == [i \in 0 .. m + 1 |-> IF i = m + 1 THEN St(f[m], m + 1) ELSE f[i]]
  <2>2. \A i \in 0 .. m + 1 : h[i] = IF i = 0 THEN base ELSE St(h[i - 1], i)
    <3> SUFFICES ASSUME NEW i \in 0 .. m + 1
                 PROVE h[i] = IF i = 0 THEN base ELSE St(h[i - 1], i)
      OBVIOUS
    <3>1. CASE i = m + 1
      <4>1. h[i] = St(f[m], m + 1) /\ i - 1 = m /\ i # 0 /\ h[m] = f[m]
        BY <3>1, <1>0
      <4> HIDE DEF h
      <4> QED BY <3>1, <4>1
    <3>2. CASE i # m + 1
      <4>1. i \in 0 .. m /\ h[i] = f[i]
        BY <3>2, <1>0
      <4>2. i # 0 => h[i - 1] = f[i - 1]
        BY <3>2, <1>0
      <4>3. f[i] = IF i = 0 THEN base ELSE St(f[i - 1], i)
        BY <2>1, <4>1
      <4> HIDE DEF h
      <4> QED BY <4>1, <4>2, <4>3
    <3> QED BY <3>1, <3>2
  <2>3. Run(m + 1, h)
    BY <2>2
  <2> HIDE DEF Run, h
  <2>4. m + 1 \in 0 .. n
    BY <1>0, <1>3
  <2> QED BY <2>3, <2>4
<1>4. n \in S
  <2> HIDE DEF S
  <2>1. \A i \in 0 .. n : i \in S
    BY <1>0, <1>2, <1>3, CountUp
  <2> QED BY <1>0, <2>1
<1>5. Run(n, at)
  <2>1. \E f : Run(n, f)
    BY <1>4
  <2> HIDE DEF Run
  <2> QED BY <2>1, Zenon
<1>6. at[0] = base /\ \A i \in 1 .. n : at[i] = St(at[i - 1], i)
  <2>1. \A i \in 0 .. n : at[i] = IF i = 0 THEN base ELSE St(at[i - 1], i)
    <3>1. at = [i \in 0 .. n |-> IF i = 0 THEN base ELSE St(at[i - 1], i)]
      BY <1>5
    <3> HIDE DEF at
    <3> QED BY <3>1
  <2> HIDE DEF at
  <2> QED BY <2>1, <1>0
<1> HIDE DEF at
<1> QED BY <1>1, <1>6 DEF n, St, base


LEMMA VisitAllFacts ==
  ASSUME NEW K, NEW g, NodesOK(g, K), NEW q \in Int, NEW V \in SUBSET DOMAIN g.nodes,
         NEW limit \in Nat, NEW banned, NEW s, StateOK(g, q, V, banned, s), NEW list \in Seq(V)
  PROVE  StateOK(g, q, V, banned, VisitAll(g, q, limit, banned, s, list))
<1> DEFINE n == Len(list)
<1>1. n \in Nat /\ \A i \in 1 .. n : list[i] \in V
  BY LenProperties, ElementOfSeq
<1>2. PICK f : /\ f[0] = s
               /\ \A i \in 1 .. Len(list) : f[i] = Visit(g, q, limit, banned, f[i - 1], list[i])
               /\ VisitAll(g, q, limit, banned, s, list) = f[Len(list)]
  <2>1. Len(list) \in Nat
    BY <1>1
  <2> QED BY <2>1, VisitLoop
<1> DEFINE S == {i \in 0 .. n : StateOK(g, q, V, banned, f[i])}
<1>3. 0 \in S
  BY <1>1, <1>2
<1>4. ASSUME NEW i \in 0 .. n, i < n, i \in S PROVE i + 1 \in S
  <2>1. i + 1 \in 1 .. n /\ (i + 1) - 1 = i /\ i + 1 \in 0 .. n
    BY <1>1, <1>4
  <2> DEFINE x == f[i]
             e == list[i + 1]
  <2>2. f[i + 1] = Visit(g, q, limit, banned, x, e)
    BY <2>1, <1>2
  <2>3. StateOK(g, q, V, banned, x) /\ e \in V
    BY <1>4, <1>1, <2>1
  <2> HIDE DEF x, e
  <2>4. StateOK(g, q, V, banned, f[i + 1])
    BY <2>2, <2>3, VisitFacts
  <2> QED BY <2>1, <2>4
<1> HIDE DEF S
<1>5. \A i \in 0 .. n : i \in S
  BY <1>1, <1>3, <1>4, CountUp
<1> QED BY <1>1, <1>2, <1>5 DEF S

LEMMA ExpandFacts ==
  ASSUME NEW K, NEW g, NodesOK(g, K), NEW q \in Int, NEW V, NEW l, Within(g, V, l),
         NEW limit \in Nat, NEW banned, NEW s, StateOK(g, q, V, banned, s)
  PROVE  StateOK(g, q, V, banned, Expand(g, q, l, limit, banned, s))
<1> DEFINE over == s.next = <<>> \/ (Head(s.next).dist > s.radius /\ Len(s.top) = limit)
           tl == [s EXCEPT !.next = Tail(@)]
           list == neighbors_(g, Head(s.next).slot, l)
<1>1. Expand(g, q, l, limit, banned, s) = IF over THEN s ELSE VisitAll(g, q, limit, banned, tl, list)
  BY DEF Expand
<1>2. over => s.next = <<>> \/ over
  OBVIOUS
<1>3. ~over => s.next # <<>>
  OBVIOUS
<1> HIDE DEF over
<1>4. CASE over
  BY <1>1, <1>4
<1>5. CASE ~over
  <2> DEFINE X == Cand(g, q, V)
  <2>1. s = [next |-> s.next, visits |-> s.visits, radius |-> s.radius, top |-> s.top]
    BY DEF StateOK
  <2>2. tl = [next |-> Tail(s.next), visits |-> s.visits, radius |-> s.radius, top |-> s.top]
    BY <2>1, StateWith
  <2>3. s.next \in Seq(X) /\ s.next # <<>>
    BY <1>3, <1>5 DEF StateOK
  <2>4. Head(s.next) \in X /\ Tail(s.next) \in Seq(X)
    <3> HIDE DEF X
    <3> QED BY <2>3, HeadTailProperties
  <2>5. V \in SUBSET DOMAIN g.nodes
    BY DEF Within
  <2>6. Head(s.next).slot \in V
    BY <2>4, <2>5, CandFacts
  <2>7. list \in Seq(V)
    BY <2>6 DEF Within
  <2>8. StateOK(g, q, V, banned, tl)
    BY <2>2, <2>4 DEF StateOK
  <2> HIDE DEF tl, list
  <2>9. StateOK(g, q, V, banned, VisitAll(g, q, limit, banned, tl, list))
    BY <2>5, <2>7, <2>8, VisitAllFacts
  <2> QED BY <1>1, <1>5, <2>9
<1> QED BY <1>4, <1>5


\* The rounds of Traverse.
LEMMA TraverseLoop ==
  ASSUME NEW g, NEW q, NEW l, NEW limit, NEW banned, NEW s, Size(g) \in Nat
  PROVE  \E f : /\ f[0] = s
                /\ \A i \in 1 .. Size(g) : f[i] = Expand(g, q, l, limit, banned, f[i - 1])
                /\ Traverse(g, q, l, limit, banned, s) = f[Size(g)].top
<1> DEFINE n == Size(g)
           St(x, i) == Expand(g, q, l, limit, banned, x)
           base == s
           Run(m, f) == f = [i \in 0 .. m |-> IF i = 0 THEN base ELSE St(f[i - 1], i)]
           S == {m \in 0 .. n : \E f : Run(m, f)}
           at == CHOOSE f : Run(n, f)
<1>0. n \in Nat
  OBVIOUS
<1>1. Traverse(g, q, l, limit, banned, s) = at[n].top
  BY DEF Traverse
<1> HIDE DEF n, St, base
<1>2. 0 \in S
  <2> DEFINE f == [i \in 0 .. 0 |-> base]
  <2>1. \A i \in 0 .. 0 : f[i] = IF i = 0 THEN base ELSE St(f[i - 1], i)
    OBVIOUS
  <2>2. Run(0, f)
    BY <2>1
  <2> HIDE DEF Run, f
  <2> QED BY <1>0, <2>2
<1>3. ASSUME NEW m \in 0 .. n, m < n, m \in S
      PROVE  m + 1 \in S
  <2>1. PICK f : Run(m, f)
    BY <1>3
  <2> DEFINE h == [i \in 0 .. m + 1 |-> IF i = m + 1 THEN St(f[m], m + 1) ELSE f[i]]
  <2>2. \A i \in 0 .. m + 1 : h[i] = IF i = 0 THEN base ELSE St(h[i - 1], i)
    <3> SUFFICES ASSUME NEW i \in 0 .. m + 1
                 PROVE h[i] = IF i = 0 THEN base ELSE St(h[i - 1], i)
      OBVIOUS
    <3>1. CASE i = m + 1
      <4>1. h[i] = St(f[m], m + 1) /\ i - 1 = m /\ i # 0 /\ h[m] = f[m]
        BY <3>1, <1>0
      <4> HIDE DEF h
      <4> QED BY <3>1, <4>1
    <3>2. CASE i # m + 1
      <4>1. i \in 0 .. m /\ h[i] = f[i]
        BY <3>2, <1>0
      <4>2. i # 0 => h[i - 1] = f[i - 1]
        BY <3>2, <1>0
      <4>3. f[i] = IF i = 0 THEN base ELSE St(f[i - 1], i)
        BY <2>1, <4>1
      <4> HIDE DEF h
      <4> QED BY <4>1, <4>2, <4>3
    <3> QED BY <3>1, <3>2
  <2>3. Run(m + 1, h)
    BY <2>2
  <2> HIDE DEF Run, h
  <2>4. m + 1 \in 0 .. n
    BY <1>0, <1>3
  <2> QED BY <2>3, <2>4
<1>4. n \in S
  <2> HIDE DEF S
  <2>1. \A i \in 0 .. n : i \in S
    BY <1>0, <1>2, <1>3, CountUp
  <2> QED BY <1>0, <2>1
<1>5. Run(n, at)
  <2>1. \E f : Run(n, f)
    BY <1>4
  <2> HIDE DEF Run
  <2> QED BY <2>1, Zenon
<1>6. at[0] = base /\ \A i \in 1 .. n : at[i] = St(at[i - 1], i)
  <2>1. \A i \in 0 .. n : at[i] = IF i = 0 THEN base ELSE St(at[i - 1], i)
    <3>1. at = [i \in 0 .. n |-> IF i = 0 THEN base ELSE St(at[i - 1], i)]
      BY <1>5
    <3> HIDE DEF at
    <3> QED BY <3>1
  <2> HIDE DEF at
  <2> QED BY <2>1, <1>0
<1> HIDE DEF at
<1> QED BY <1>1, <1>6 DEF n, St, base


\* What a traversal reports: slots of V that are not banned, none twice, closest first.
TopOK(g, q, V, banned, top) ==
  /\ top \in Seq(Cand(g, q, V))
  /\ IsInjective(top) /\ Closest1st(top)
  /\ \A i \in DOMAIN top : top[i].slot \in V \ banned

LEMMA TraverseFacts ==
  ASSUME NEW K, NEW g, NodesOK(g, K), NEW q \in Int, NEW V, NEW l, Within(g, V, l),
         NEW limit \in Nat, NEW banned, NEW s, StateOK(g, q, V, banned, s)
  PROVE  TopOK(g, q, V, banned, Traverse(g, q, l, limit, banned, s))
<1> DEFINE n == Size(g)
<1>1. n \in Nat
  BY DEF NodesOK
<1>2. PICK f : /\ f[0] = s
               /\ \A i \in 1 .. Size(g) : f[i] = Expand(g, q, l, limit, banned, f[i - 1])
               /\ Traverse(g, q, l, limit, banned, s) = f[Size(g)].top
  BY <1>1, TraverseLoop
<1> DEFINE S == {i \in 0 .. n : StateOK(g, q, V, banned, f[i])}
<1>3. 0 \in S
  BY <1>1, <1>2
<1>4. ASSUME NEW i \in 0 .. n, i < n, i \in S PROVE i + 1 \in S
  <2>1. i + 1 \in 1 .. n /\ (i + 1) - 1 = i /\ i + 1 \in 0 .. n
    BY <1>1, <1>4
  <2> DEFINE x == f[i]
  <2>2. f[i + 1] = Expand(g, q, l, limit, banned, x)
    BY <2>1, <1>2
  <2>3. StateOK(g, q, V, banned, x)
    BY <1>4
  <2> HIDE DEF x
  <2>4. StateOK(g, q, V, banned, f[i + 1])
    BY <2>2, <2>3, ExpandFacts
  <2> QED BY <2>1, <2>4
<1> HIDE DEF S
<1>5. \A i \in 0 .. n : i \in S
  BY <1>1, <1>3, <1>4, CountUp
<1>6. StateOK(g, q, V, banned, f[n])
  BY <1>1, <1>5 DEF S
<1> QED BY <1>2, <1>6 DEF StateOK, TopOK

LEMMA TraverseFromFacts ==
  ASSUME NEW K, NEW g, NodesOK(g, K), NEW q \in Int, NEW V, NEW l, Within(g, V, l),
         NEW limit \in Nat, NEW banned, NEW start \in V
  PROVE  TopOK(g, q, V, banned, TraverseFrom(g, q, start, l, limit, banned))
<1> DEFINE c == Candidate(g, q, start)
           top == IF start \in banned THEN <<>> ELSE <<c>>
           st == [next |-> <<c>>, visits |-> SetVisited({}, start), radius |-> c.dist, top |-> top]
<1>1. TraverseFrom(g, q, start, l, limit, banned) = Traverse(g, q, l, limit, banned, st)
  BY DEF TraverseFrom
<1>2. V \in SUBSET DOMAIN g.nodes
  BY DEF Within
<1>3. c \in Cand(g, q, V) /\ c.slot = start
  BY <1>2, DistNat DEF Cand
<1>4. /\ st.next = <<c>> /\ st.visits = {start} /\ st.top = top
      /\ st = [next |-> st.next, visits |-> st.visits, radius |-> st.radius, top |-> st.top]
  BY DEF SetVisited
<1> HIDE DEF c, st
<1>5. top \in Seq(Cand(g, q, V)) /\ IsInjective(top) /\ Closest1st(top) /\ \A i \in DOMAIN top : top[i].slot \in {start} \ banned
  <2>1. CASE start \in banned
    BY <2>1 DEF IsInjective, Closest1st
  <2>2. CASE start \notin banned
    BY <2>2, <1>3 DEF IsInjective, Closest1st
  <2> QED BY <2>1, <2>2
<1> HIDE DEF top
<1>6. <<c>> \in Seq(Cand(g, q, V)) /\ {start} \subseteq V
  BY <1>3
<1>7. StateOK(g, q, V, banned, st)
  BY <1>4, <1>5, <1>6 DEF StateOK
<1> QED BY <1>1, <1>7, TraverseFacts


-----------------------------------------------------------------------------
(* The heuristic that picks links. *)

\* No slot twice.
Distinct(top) == \A i, j \in DOMAIN top : top[i].slot = top[j].slot => i = j

RefineTo(kept, top, i, needed, X) ==
  /\ kept \in Seq(X) /\ Len(kept) <= needed /\ Distinct(kept)
  /\ \A k \in DOMAIN kept : \E j \in 1 .. i : kept[k] = top[j]


\* The candidates that refine_ goes through.
LEMMA RefineLoop ==
  ASSUME NEW g, NEW needed, NEW top, NEW os, NEW ov, Len(top) \in Nat
  PROVE  \E f : /\ f[0] = <<>>
                /\ \A i \in 1 .. Len(top) : f[i] = Refined(g, needed, f[i - 1], top[i], os, ov)
                /\ refine_(g, needed, top, os, ov) = IF Len(top) < needed THEN top ELSE f[Len(top)]
<1> DEFINE n == Len(top)
           St(x, i) == Refined(g, needed, x, top[i], os, ov)
           base == <<>>
           Run(m, f) == f = [i \in 0 .. m |-> IF i = 0 THEN base ELSE St(f[i - 1], i)]
           S == {m \in 0 .. n : \E f : Run(m, f)}
           at == CHOOSE f : Run(n, f)
<1>0. n \in Nat
  OBVIOUS
<1>1. refine_(g, needed, top, os, ov) = IF Len(top) < needed THEN top ELSE at[n]
  BY DEF refine_
<1> HIDE DEF n, St, base
<1>2. 0 \in S
  <2> DEFINE f == [i \in 0 .. 0 |-> base]
  <2>1. \A i \in 0 .. 0 : f[i] = IF i = 0 THEN base ELSE St(f[i - 1], i)
    OBVIOUS
  <2>2. Run(0, f)
    BY <2>1
  <2> HIDE DEF Run, f
  <2> QED BY <1>0, <2>2
<1>3. ASSUME NEW m \in 0 .. n, m < n, m \in S
      PROVE  m + 1 \in S
  <2>1. PICK f : Run(m, f)
    BY <1>3
  <2> DEFINE h == [i \in 0 .. m + 1 |-> IF i = m + 1 THEN St(f[m], m + 1) ELSE f[i]]
  <2>2. \A i \in 0 .. m + 1 : h[i] = IF i = 0 THEN base ELSE St(h[i - 1], i)
    <3> SUFFICES ASSUME NEW i \in 0 .. m + 1
                 PROVE h[i] = IF i = 0 THEN base ELSE St(h[i - 1], i)
      OBVIOUS
    <3>1. CASE i = m + 1
      <4>1. h[i] = St(f[m], m + 1) /\ i - 1 = m /\ i # 0 /\ h[m] = f[m]
        BY <3>1, <1>0
      <4> HIDE DEF h
      <4> QED BY <3>1, <4>1
    <3>2. CASE i # m + 1
      <4>1. i \in 0 .. m /\ h[i] = f[i]
        BY <3>2, <1>0
      <4>2. i # 0 => h[i - 1] = f[i - 1]
        BY <3>2, <1>0
      <4>3. f[i] = IF i = 0 THEN base ELSE St(f[i - 1], i)
        BY <2>1, <4>1
      <4> HIDE DEF h
      <4> QED BY <4>1, <4>2, <4>3
    <3> QED BY <3>1, <3>2
  <2>3. Run(m + 1, h)
    BY <2>2
  <2> HIDE DEF Run, h
  <2>4. m + 1 \in 0 .. n
    BY <1>0, <1>3
  <2> QED BY <2>3, <2>4
<1>4. n \in S
  <2> HIDE DEF S
  <2>1. \A i \in 0 .. n : i \in S
    BY <1>0, <1>2, <1>3, CountUp
  <2> QED BY <1>0, <2>1
<1>5. Run(n, at)
  <2>1. \E f : Run(n, f)
    BY <1>4
  <2> HIDE DEF Run
  <2> QED BY <2>1, Zenon
<1>6. at[0] = base /\ \A i \in 1 .. n : at[i] = St(at[i - 1], i)
  <2>1. \A i \in 0 .. n : at[i] = IF i = 0 THEN base ELSE St(at[i - 1], i)
    <3>1. at = [i \in 0 .. n |-> IF i = 0 THEN base ELSE St(at[i - 1], i)]
      BY <1>5
    <3> HIDE DEF at
    <3> QED BY <3>1
  <2> HIDE DEF at
  <2> QED BY <2>1, <1>0
<1> HIDE DEF at
<1> QED BY <1>1, <1>6 DEF n, St, base


LEMMA RefineFacts ==
  ASSUME NEW X, NEW g, NEW top \in Seq(X), Distinct(top), NEW needed \in Nat, NEW os, NEW ov
  PROVE  RefineTo(refine_(g, needed, top, os, ov), top, Len(top), needed, X)
<1> DEFINE n == Len(top)
<1>1. n \in Nat /\ DOMAIN top = 1 .. n /\ \A i \in 1 .. n : top[i] \in X
  BY LenProperties, ElementOfSeq
<1>2. PICK f : /\ f[0] = <<>>
               /\ \A i \in 1 .. Len(top) : f[i] = Refined(g, needed, f[i - 1], top[i], os, ov)
               /\ refine_(g, needed, top, os, ov) = IF Len(top) < needed THEN top ELSE f[Len(top)]
  <2>1. Len(top) \in Nat
    BY <1>1
  <2> QED BY <2>1, RefineLoop
<1> DEFINE S == {i \in 0 .. n : RefineTo(f[i], top, i, needed, X)}
<1>3. 0 \in S
  <2>1. RefineTo(<<>>, top, 0, needed, X)
    BY DEF RefineTo, Distinct
  <2> QED BY <1>1, <1>2, <2>1
<1>4. ASSUME NEW i \in 0 .. n, i < n, i \in S PROVE i + 1 \in S
  <2>1. i + 1 \in 1 .. n /\ (i + 1) - 1 = i /\ i + 1 \in 0 .. n
    BY <1>1, <1>4
  <2> DEFINE x == f[i]
             c == top[i + 1]
             y == f[i + 1]
  <2>2. y = Refined(g, needed, x, c, os, ov)
    BY <2>1, <1>2
  <2>3. RefineTo(x, top, i, needed, X) /\ c \in X
    BY <1>4, <1>1, <2>1
  <2>4. y = x \/ (y = Append(x, c) /\ Len(x) < needed)
    BY <2>2 DEF Refined
  <2>5. \A j \in 1 .. i : j \in 1 .. i + 1 /\ j # i + 1 /\ j \in 1 .. n
    BY <1>1, <2>1
  <2>6. \A j \in 1 .. i : top[j].slot # c.slot
    BY <1>1, <2>1, <2>5 DEF Distinct
  <2>9. i + 1 \in 1 .. i + 1
    OBVIOUS
  <2>10. c = top[i + 1]
    OBVIOUS
  <2> HIDE DEF x, c, y
  <2>7. CASE y = x
    <3>1. RefineTo(y, top, i + 1, needed, X)
      BY <2>3, <2>5, <2>7 DEF RefineTo
    <3> QED BY <3>1, <2>1 DEF y
  <2>8. CASE y = Append(x, c) /\ Len(x) < needed
    <3>1. x \in Seq(X) /\ Len(x) \in Nat /\ DOMAIN x = 1 .. Len(x) /\ Distinct(x)
          /\ \A k \in DOMAIN x : \E j \in 1 .. i : x[k] = top[j]
      BY <2>3, LenProperties DEF RefineTo
    <3>2. /\ y \in Seq(X) /\ Len(y) = Len(x) + 1
          /\ \A k \in 1 .. Len(x) : y[k] = x[k]
          /\ y[Len(x) + 1] = c
      BY <2>3, <2>8, <3>1, AppendProperties
    <3>3. DOMAIN y = 1 .. Len(x) + 1
      BY <3>2, LenProperties
    <3>4. \A k \in 1 .. Len(x) + 1 : k \in 1 .. Len(x) \/ k = Len(x) + 1
      BY <3>1
    <3>5. \A k \in DOMAIN y : \E j \in 1 .. i + 1 : y[k] = top[j]
      <4> SUFFICES ASSUME NEW k \in 1 .. Len(x) + 1 PROVE \E j \in 1 .. i + 1 : y[k] = top[j]
        BY <3>3
      <4>1. CASE k \in 1 .. Len(x)
        <5>1. PICK j \in 1 .. i : x[k] = top[j]
          BY <4>1, <3>1
        <5> QED BY <5>1, <4>1, <3>2, <2>5
      <4>2. CASE k = Len(x) + 1
        BY <4>2, <3>2, <2>9, <2>10
      <4> QED BY <4>1, <4>2, <3>4
    <3>6. \A k \in 1 .. Len(x) : x[k].slot # c.slot
      BY <3>1, <2>6
    <3>7. Distinct(y)
      <4> SUFFICES ASSUME NEW k \in 1 .. Len(x) + 1, NEW m \in 1 .. Len(x) + 1, y[k].slot = y[m].slot
                   PROVE  k = m
        BY <3>3 DEF Distinct
      <4>1. CASE k \in 1 .. Len(x) /\ m \in 1 .. Len(x)
        BY <4>1, <3>1, <3>2 DEF Distinct
      <4>2. CASE k \in 1 .. Len(x) /\ m = Len(x) + 1
        BY <4>2, <3>2, <3>6
      <4>3. CASE m \in 1 .. Len(x) /\ k = Len(x) + 1
        BY <4>3, <3>2, <3>6
      <4> QED BY <4>1, <4>2, <4>3, <3>4
    <3>8. Len(y) <= needed
      BY <3>1, <3>2, <2>8
    <3>9. RefineTo(y, top, i + 1, needed, X)
      BY <3>2, <3>5, <3>7, <3>8 DEF RefineTo
    <3> QED BY <3>9, <2>1 DEF y
  <2> QED BY <2>4, <2>7, <2>8
<1> HIDE DEF S
<1>5. \A i \in 0 .. n : i \in S
  BY <1>1, <1>3, <1>4, CountUp
<1>6. RefineTo(f[n], top, n, needed, X)
  BY <1>1, <1>5 DEF S
<1>7. CASE n < needed
  <2>1. RefineTo(top, top, n, needed, X)
    BY <1>1, <1>7 DEF RefineTo
  <2> QED BY <1>2, <1>7, <2>1
<1>8. CASE ~ (n < needed)
  BY <1>2, <1>6, <1>8
<1> QED BY <1>7, <1>8

LEMMA BufferedFacts ==
  ASSUME NEW X, \A x \in X : x.dist \in Nat, NEW cands \in Seq(X), Distinct(cands)
  PROVE  /\ Buffered(cands) \in Seq(X) /\ Distinct(Buffered(cands))
         /\ \A k \in DOMAIN Buffered(cands) : \E j \in DOMAIN cands : Buffered(cands)[k] = cands[j]
<1> DEFINE all == DOMAIN cands
           before == {p \in all \X all : \/ cands[p[1]].dist < cands[p[2]].dist
                                         \/ cands[p[1]].dist = cands[p[2]].dist /\ p[1] > p[2]}
           order == Ranked(all, before)
           n == Cardinality(all)
           B == Buffered(cands)
<1>1. Len(cands) \in Nat /\ all = 1 .. Len(cands) /\ \A i \in all : cands[i] \in X /\ cands[i].dist \in Nat /\ i \in Nat
  BY LenProperties, ElementOfSeq
<1>2. B = [i \in DOMAIN order |-> cands[order[i]]]
  BY DEF Buffered
<1>3. IsFiniteSet(all) /\ n = Len(cands)
  BY <1>1, FS_Interval
<1>4. \A a, b \in all : <<a, b>> \in before <=> \/ cands[a].dist < cands[b].dist
                                                \/ cands[a].dist = cands[b].dist /\ a > b
  OBVIOUS
<1> HIDE DEF all, before, B
<1>5. TotalOrder(all, before)
  <2>1. \A x \in all : <<x, x>> \notin before
    BY <1>1, <1>4
  <2>2. \A x, y, z \in all : <<x, y>> \in before /\ <<y, z>> \in before => <<x, z>> \in before
    BY <1>1, <1>4, SMTT(30)
  <2>3. \A x, y \in all : x # y => <<x, y>> \in before \/ <<y, x>> \in before
    BY <1>1, <1>4
  <2> QED BY <2>1, <2>2, <2>3 DEF TotalOrder
<1>6. /\ order \in [1 .. n -> all]
      /\ \A i, j \in 1 .. n : order[i] = order[j] => i = j
  BY <1>3, <1>5, RankedFacts
<1> HIDE DEF order, n
<1>7. n \in Nat
  BY <1>1, <1>3
<1>8. B = [i \in 1 .. n |-> cands[order[i]]] /\ \A i \in 1 .. n : order[i] \in all /\ cands[order[i]] \in X
  BY <1>1, <1>2, <1>6
<1>9. B \in Seq(X)
  BY <1>7, <1>8
<1>10. DOMAIN B = 1 .. n /\ \A i \in 1 .. n : B[i] = cands[order[i]]
  BY <1>8
<1>11. Distinct(B)
  BY <1>6, <1>8, <1>10 DEF Distinct, all
<1>12. \A k \in DOMAIN B : \E j \in DOMAIN cands : B[k] = cands[j]
  BY <1>8, <1>10 DEF all
<1> QED BY <1>9, <1>11, <1>12 DEF B

LEMMA ReverseLinkFacts ==
  ASSUME NEW K, NEW g, NodesOK(g, K), NEW new \in DOMAIN g.nodes, NEW close \in DOMAIN g.nodes,
         new # close, NEW level \in Nat, g.nodes[close].level >= level, g.nodes[new].level >= level,
         NEW vec \in Int
  PROVE  ListOK(g, close, level, ReverseLink(g, new, vec, level, close))
<1> DEFINE list == neighbors_(g, close, level)
           limit == connectivity_max(level)
           cvec == g.nodes[close].vec
           first == [dist |-> measure(vec, cvec), slot |-> new]
           rest == [i \in DOMAIN list |-> Candidate(g, cvec, list[i])]
           cands == <<first>> \o rest
           refined == refine_(g, limit, Buffered(cands), new, vec)
           R == ReverseLink(g, new, vec, level, close)
           D == DOMAIN g.nodes
<1>1. limit \in Nat /\ limit > 0
  BY GraphAssumption DEF connectivity_max
<1>2. ListOK(g, close, level, list) /\ cvec \in Int
  <2>1. g.nodes[close].level \in Nat /\ cvec \in Int /\ close \in 0 .. Size(g) - 1
    BY DEF NodesOK, NodeShape
  <2>2. level \in 0 .. g.nodes[close].level
    BY <2>1
  <2> QED BY <2>1, <2>2 DEF NodesOK, neighbors_
<1>3. R = IF new \in ToSet(list) THEN list
          ELSE IF Len(list) < limit THEN Append(list, new) ELSE Slots(refined)
  BY DEF ReverseLink
<1> HIDE DEF list, limit, refined, R
<1>4. /\ list \in Seq(D) /\ Len(list) \in Nat /\ DOMAIN list = 1 .. Len(list) /\ IsInjective(list)
      /\ \A i \in 1 .. Len(list) : list[i] \in D /\ list[i] # close /\ g.nodes[list[i]].level >= level
  BY <1>2, LenProperties, ElementOfSeq DEF ListOK
<1>5. CASE new \in ToSet(list)
  <2>1. R = list
    BY <1>3, <1>5
  <2> QED BY <2>1, <1>2 DEF R
<1>6. CASE new \notin ToSet(list) /\ Len(list) < limit
  <2>1. R = Append(list, new)
    BY <1>3, <1>6
  <2>2. /\ R \in Seq(D) /\ Len(R) = Len(list) + 1
        /\ \A k \in 1 .. Len(list) : R[k] = list[k]
        /\ R[Len(list) + 1] = new
    BY <2>1, <1>4, AppendProperties
  <2>3. DOMAIN R = 1 .. Len(list) + 1 /\ \A k \in 1 .. Len(list) + 1 : k \in 1 .. Len(list) \/ k = Len(list) + 1
    BY <1>4, <2>2, LenProperties
  <2>4. \A k \in 1 .. Len(list) : list[k] # new
    BY <1>4, <1>6 DEF ToSet
  <2>5. IsInjective(R)
    <3> SUFFICES ASSUME NEW a \in DOMAIN R, NEW b \in DOMAIN R, R[a] = R[b] PROVE a = b
      BY DEF IsInjective
    <3>1. CASE a \in 1 .. Len(list) /\ b \in 1 .. Len(list)
      BY <3>1, <1>4, <2>2 DEF IsInjective
    <3>2. CASE a \in 1 .. Len(list) /\ b = Len(list) + 1
      BY <3>2, <2>2, <2>4
    <3>3. CASE b \in 1 .. Len(list) /\ a = Len(list) + 1
      BY <3>3, <2>2, <2>4
    <3> QED BY <3>1, <3>2, <3>3, <2>3
  <2>6. \A i \in DOMAIN R : R[i] # close /\ g.nodes[R[i]].level >= level
    BY <1>4, <2>2, <2>3
  <2>7. Len(R) <= limit
    BY <1>1, <1>4, <1>6, <2>2
  <2> QED BY <2>2, <2>5, <2>6, <2>7 DEF ListOK, limit, R
<1>7. CASE new \notin ToSet(list) /\ ~ (Len(list) < limit)
  <2> DEFINE X == {x \in Cand(g, cvec, D) \union {first} : x.dist \in Nat /\ x.slot \in D \ {close} /\ g.nodes[x.slot].level >= level}
  <2>1. first \in X
    <3>1. measure(vec, cvec) \in Nat
      <4>1. \A x \in Int : x * x \in Nat
        OBVIOUS
      <4> DEFINE cv == cvec
      <4>2. cv \in Int
        BY <1>2
      <4> HIDE DEF cv
      <4>3. vec - cv \in Int
        BY <4>2
      <4>4. measure(vec, cv) \in Nat
        BY <4>1, <4>3 DEF measure
      <4> QED BY <4>4 DEF cv
    <3> QED BY <3>1
  <2>2. \A i \in 1 .. Len(list) : rest[i] = Candidate(g, cvec, list[i]) /\ rest[i] \in X /\ rest[i].slot = list[i]
    <3> SUFFICES ASSUME NEW i \in 1 .. Len(list)
                 PROVE  rest[i] = Candidate(g, cvec, list[i]) /\ rest[i] \in X /\ rest[i].slot = list[i]
      OBVIOUS
    <3>1. rest[i] = Candidate(g, cvec, list[i])
      BY <1>4
    <3> DEFINE s == list[i]
               cv == cvec
    <3>2. s \in D /\ s # close /\ g.nodes[s].level >= level /\ cv \in Int
      BY <1>2, <1>4
    <3> HIDE DEF s, cv
    <3>3. Candidate(g, cv, s).dist \in Nat /\ Candidate(g, cv, s).slot = s
      BY <3>2, DistNat
    <3>4. Candidate(g, cv, s) \in Cand(g, cv, D)
      BY <3>2 DEF Cand
    <3> QED BY <3>1, <3>2, <3>3, <3>4 DEF s, cv
  <2>3. rest \in Seq(X) /\ Len(rest) = Len(list)
    <3>1. rest = [i \in 1 .. Len(list) |-> rest[i]]
      BY <1>4
    <3> HIDE DEF rest, X
    <3> QED BY <3>1, <1>4, <2>2
  <2>4. <<first>> \in Seq(X) /\ Len(<<first>>) = 1 /\ <<first>>[1] = first
    BY <2>1
  <2>9. \A x \in X : x.dist \in Nat /\ x.slot \in D \ {close} /\ g.nodes[x.slot].level >= level
    OBVIOUS
  <2>10. first.slot = new
    OBVIOUS
  <2> HIDE DEF X, first, rest
  <2>5. /\ cands \in Seq(X) /\ Len(cands) = Len(list) + 1
        /\ \A i \in 1 .. Len(list) + 1 : cands[i] = IF i <= 1 THEN first ELSE rest[i - 1]
    <3>1. /\ cands \in Seq(X) /\ Len(cands) = Len(<<first>>) + Len(rest)
          /\ \A i \in 1 .. Len(<<first>>) + Len(rest) :
               cands[i] = IF i <= Len(<<first>>) THEN <<first>>[i] ELSE rest[i - Len(<<first>>)]
      BY <2>3, <2>4, ConcatProperties
    <3>2. Len(<<first>>) + Len(rest) = Len(list) + 1
      BY <2>3, <2>4, <1>4
    <3>3. \A i \in 1 .. Len(list) + 1 : i <= 1 => i = 1
      OBVIOUS
    <3> HIDE DEF cands
    <3> QED BY <2>4, <3>1, <3>2, <3>3
  <2> HIDE DEF cands
  <2>6. Distinct(cands)
    <3>1. DOMAIN cands = 1 .. Len(list) + 1
      BY <2>5, LenProperties
    <3>2. \A k \in 1 .. Len(list) : list[k] # new
      BY <1>4, <1>7 DEF ToSet
    <3>3. \A i \in 1 .. Len(list) + 1 : i > 1 => i - 1 \in 1 .. Len(list)
      BY <1>4
    <3>4. \A i \in 1 .. Len(list) + 1 : cands[i].slot = IF i = 1 THEN new ELSE list[i - 1]
      BY <2>2, <2>5, <2>10, <3>3, <1>4
    <3> SUFFICES ASSUME NEW a \in 1 .. Len(list) + 1, NEW b \in 1 .. Len(list) + 1, cands[a].slot = cands[b].slot
                 PROVE  a = b
      BY <3>1 DEF Distinct
    <3>5. CASE a = 1 /\ b = 1
      BY <3>5
    <3>6. CASE a = 1 /\ b > 1
      BY <3>6, <3>2, <3>3, <3>4
    <3>7. CASE b = 1 /\ a > 1
      BY <3>7, <3>2, <3>3, <3>4
    <3>8. CASE a > 1 /\ b > 1
      <4>1. a - 1 \in 1 .. Len(list) /\ b - 1 \in 1 .. Len(list) /\ list[a - 1] = list[b - 1]
        BY <3>8, <3>3, <3>4
      <4>2. a - 1 = b - 1
        BY <4>1, <1>4 DEF IsInjective
      <4> QED BY <4>2
    <3> QED BY <3>5, <3>6, <3>7, <3>8
  <2> DEFINE B == Buffered(cands)
  <2>7. B \in Seq(X) /\ Distinct(B)
    BY <2>5, <2>6, <2>9, BufferedFacts
  <2> HIDE DEF B
  <2>8. RefineTo(refined, B, Len(B), limit, X)
    BY <2>7, <1>1, RefineFacts DEF refined, B
  <2>11. refined \in Seq(X) /\ Len(refined) <= limit /\ Distinct(refined)
    BY <2>8 DEF RefineTo
  <2>12. DOMAIN refined = 1 .. Len(refined) /\ Len(refined) \in Nat /\ \A i \in 1 .. Len(refined) : refined[i] \in X
    BY <2>11, LenProperties, ElementOfSeq
  <2>13. R = [i \in 1 .. Len(refined) |-> refined[i].slot]
    BY <1>3, <1>7, <2>12 DEF Slots
  <2>14. R \in Seq(D) /\ Len(R) = Len(refined)
    BY <2>9, <2>12, <2>13
  <2>15. IsInjective(R)
    BY <2>11, <2>12, <2>13 DEF IsInjective, Distinct
  <2>16. \A i \in DOMAIN R : R[i] # close /\ g.nodes[R[i]].level >= level
    BY <2>9, <2>12, <2>13
  <2> QED BY <2>11, <2>14, <2>15, <2>16 DEF ListOK, limit, R
<1> QED BY <1>5, <1>6, <1>7


-----------------------------------------------------------------------------
(* Changing nodes. *)

\* A node with other links.
LEMMA NodeWithLinks ==
  ASSUME NEW K, NEW x, NodeShape(x, K), NEW F, F = [l \in 0 .. x.level |-> F[l]],
         NEW y, y = [x EXCEPT !.nbrs = F]
  PROVE  NodeShape(y, K) /\ y.key = x.key /\ y.level = x.level /\ y.vec = x.vec /\ y.nbrs = F
<1> DEFINE a == x.key
           b == x.level
           c == x.vec
           d == x.nbrs
<1>1. x = [key |-> a, level |-> b, vec |-> c, nbrs |-> d] /\ a \in K /\ b \in Nat /\ c \in Int
      /\ F = [l \in 0 .. b |-> F[l]]
  BY DEF NodeShape
<1> HIDE DEF a, b, c, d
<1>2. y = [key |-> a, level |-> b, vec |-> c, nbrs |-> F]
  BY <1>1
<1>3. y.key = a /\ y.level = b /\ y.vec = c /\ y.nbrs = F
  BY <1>2
<1>4. NodeShape(y, K)
  BY <1>1, <1>2, <1>3 DEF NodeShape
<1> QED BY <1>3, <1>4 DEF a, b, c, d

LEMMA NodeWithLink ==
  ASSUME NEW K, NEW x, NodeShape(x, K), NEW l \in 0 .. x.level, NEW list,
         NEW y, y = [x EXCEPT !.nbrs[l] = list]
  PROVE  /\ NodeShape(y, K) /\ y.key = x.key /\ y.level = x.level /\ y.vec = x.vec
         /\ \A m \in 0 .. x.level : y.nbrs[m] = IF m = l THEN list ELSE x.nbrs[m]
<1> DEFINE F == [m \in 0 .. x.level |-> IF m = l THEN list ELSE x.nbrs[m]]
<1>1. x.nbrs = [m \in 0 .. x.level |-> x.nbrs[m]]
  BY DEF NodeShape
<1>2. [x.nbrs EXCEPT ![l] = list] = F
  BY <1>1
<1>3. y = [x EXCEPT !.nbrs = F]
  <2>1. x = [key |-> x.key, level |-> x.level, vec |-> x.vec, nbrs |-> x.nbrs]
    BY DEF NodeShape
  <2> QED BY <2>1, <1>2
<1>4. F = [m \in 0 .. x.level |-> F[m]] /\ \A m \in 0 .. x.level : F[m] = IF m = l THEN list ELSE x.nbrs[m]
  OBVIOUS
<1> HIDE DEF F
<1>5. NodeShape(y, K) /\ y.key = x.key /\ y.level = x.level /\ y.vec = x.vec /\ y.nbrs = F
  <2> DEFINE a == x.key
             b == x.level
             c == x.vec
             d == x.nbrs
  <2>1. x = [key |-> a, level |-> b, vec |-> c, nbrs |-> d] /\ a \in K /\ b \in Nat /\ c \in Int
        /\ F = [m \in 0 .. b |-> F[m]]
    BY <1>4 DEF NodeShape
  <2> HIDE DEF a, b, c, d
  <2>2. y = [key |-> a, level |-> b, vec |-> c, nbrs |-> F]
    BY <1>3, <2>1
  <2>3. y.key = a /\ y.level = b /\ y.vec = c /\ y.nbrs = F
    BY <2>2
  <2>4. NodeShape(y, K)
    BY <2>1, <2>2, <2>3 DEF NodeShape
  <2> QED BY <2>3, <2>4 DEF a, b, c, d
<1> QED BY <1>4, <1>5

\* Lists are judged by the slots and the levels only.
LEMMA ListOKSame ==
  ASSUME NEW g, NEW h, DOMAIN h.nodes = DOMAIN g.nodes,
         \A s \in DOMAIN g.nodes : h.nodes[s].level = g.nodes[s].level,
         NEW s, NEW l, NEW list, ListOK(g, s, l, list)
  PROVE  ListOK(h, s, l, list)
<1>1. \A i \in DOMAIN list : list[i] \in DOMAIN g.nodes
  BY LenProperties, ElementOfSeq DEF ListOK
<1> QED BY <1>1 DEF ListOK

\* f is a function on D.
FunOn(f, D) == f = [s \in D |-> f[s]]

\* A graph with other nodes at the same levels.
LEMMA Renewed ==
  ASSUME NEW K, NEW L, NEW g, NodesOK(g, L), NEW X, FunOn(X, DOMAIN g.nodes),
         \A s \in DOMAIN g.nodes : NodeShape(X[s], K) /\ X[s].level = g.nodes[s].level,
         \A s \in DOMAIN g.nodes : \A l \in 0 .. g.nodes[s].level : ListOK(g, s, l, X[s].nbrs[l]),
         NEW h, h = [g EXCEPT !.nodes = X]
  PROVE  /\ NodesOK(h, K) /\ h.nodes = X /\ h.entry = g.entry /\ h.max_level = g.max_level
         /\ Size(h) = Size(g)
<1> DEFINE a == g.nodes
           b == g.entry
           c == g.max_level
<1>1. g = [nodes |-> a, entry |-> b, max_level |-> c]
  BY DEF NodesOK
<1>2. h = [nodes |-> X, entry |-> b, max_level |-> c]
  <2> HIDE DEF a, b, c
  <2> QED BY <1>1
<1>3. h.nodes = X /\ h.entry = b /\ h.max_level = c
  BY <1>2
<1>4. h = [nodes |-> h.nodes, entry |-> h.entry, max_level |-> h.max_level]
  <2> HIDE DEF a, b, c
  <2> QED BY <1>2, <1>3
<1>5. DOMAIN X = DOMAIN g.nodes /\ DOMAIN g.nodes = 0 .. Size(g) - 1 /\ Size(g) \in Nat
  BY DEF NodesOK, FunOn
<1>6. Size(h) = Size(g)
  BY <1>3, <1>5 DEF Size
<1>7. \A s \in 0 .. Size(h) - 1 : \A l \in 0 .. h.nodes[s].level : ListOK(h, s, l, h.nodes[s].nbrs[l])
  <2> SUFFICES ASSUME NEW s \in 0 .. Size(h) - 1, NEW l \in 0 .. h.nodes[s].level
               PROVE  ListOK(h, s, l, h.nodes[s].nbrs[l])
    OBVIOUS
  <2>1. s \in DOMAIN g.nodes /\ l \in 0 .. g.nodes[s].level
    BY <1>3, <1>5, <1>6
  <2>2. ListOK(g, s, l, h.nodes[s].nbrs[l])
    BY <1>3, <2>1
  <2>3. DOMAIN h.nodes = DOMAIN g.nodes /\ \A t \in DOMAIN g.nodes : h.nodes[t].level = g.nodes[t].level
    BY <1>3, <1>5
  <2> QED BY <2>2, <2>3, ListOKSame
<1>8. NodesOK(h, K)
  BY <1>3, <1>4, <1>5, <1>6, <1>7 DEF NodesOK, FunOn
<1> QED BY <1>3, <1>6, <1>8

\* One node replaced.
LEMMA NodeReplaced ==
  ASSUME NEW K, NEW g, NodesOK(g, K), NEW slot \in DOMAIN g.nodes, NEW x, NodeShape(x, K),
         x.level = g.nodes[slot].level,
         \A l \in 0 .. x.level : ListOK(g, slot, l, x.nbrs[l])
  PROVE  LET h == [g EXCEPT !.nodes[slot] = x]
         IN  /\ NodesOK(h, K) /\ h.entry = g.entry /\ h.max_level = g.max_level
             /\ Size(h) = Size(g) /\ DOMAIN h.nodes = DOMAIN g.nodes
             /\ \A s \in DOMAIN g.nodes : h.nodes[s] = IF s = slot THEN x ELSE g.nodes[s]
<1> DEFINE X == [s \in DOMAIN g.nodes |-> IF s = slot THEN x ELSE g.nodes[s]]
           h == [g EXCEPT !.nodes[slot] = x]
<1>1. g.nodes = [s \in DOMAIN g.nodes |-> g.nodes[s]] /\ DOMAIN g.nodes = 0 .. Size(g) - 1
  BY DEF NodesOK
<1>2. [g.nodes EXCEPT ![slot] = x] = X
  BY <1>1
<1>3. h = [g EXCEPT !.nodes = X]
  <2>1. g = [nodes |-> g.nodes, entry |-> g.entry, max_level |-> g.max_level]
    BY DEF NodesOK
  <2> QED BY <1>2, <2>1
<1>4. DOMAIN X = DOMAIN g.nodes /\ FunOn(X, DOMAIN g.nodes)
      /\ \A s \in DOMAIN g.nodes : X[s] = IF s = slot THEN x ELSE g.nodes[s]
  BY DEF FunOn
<1>5. \A s \in DOMAIN g.nodes : NodeShape(X[s], K) /\ X[s].level = g.nodes[s].level
  <2> HIDE DEF X
  <2> QED BY <1>1, <1>4 DEF NodesOK
<1>6. \A s \in DOMAIN g.nodes : \A l \in 0 .. g.nodes[s].level : ListOK(g, s, l, X[s].nbrs[l])
  <2> HIDE DEF X
  <2> QED BY <1>1, <1>4 DEF NodesOK
<1> HIDE DEF X, h
<1>7. NodesOK(h, K) /\ h.nodes = X /\ h.entry = g.entry /\ h.max_level = g.max_level /\ Size(h) = Size(g)
  BY <1>3, <1>4, <1>5, <1>6, Renewed
<1> QED BY <1>4, <1>7 DEF h


-----------------------------------------------------------------------------
(* Linking a node, level by level. *)

\* What a level of linking starts from: the closest is on the level, and the lists
\* of the level do not leave the old slots.
LEMMA LinkLevelFacts ==
  ASSUME NEW K, NEW g, NodesOK(g, K), NEW slot \in DOMAIN g.nodes, NEW level \in Nat,
         level <= g.nodes[slot].level, NEW Old \in SUBSET DOMAIN g.nodes,
         Within(g, Above(g, Old, level), level), NEW closest \in Above(g, Old, level),
         NEW vec \in Int, NEW updating \in BOOLEAN, updating \/ slot \notin Old,
         NEW x, x = [graph |-> g, closest |-> closest]
  PROVE  LET y == LinkLevel(x, slot, vec, level, updating)
         IN  /\ NodesOK(y.graph, K) /\ SameNodes(g, y.graph)
             /\ \A s \in DOMAIN g.nodes : \A l \in 0 .. g.nodes[s].level :
                  l # level => y.graph.nodes[s].nbrs[l] = g.nodes[s].nbrs[l]
             /\ y.closest \in Above(g, Old, level)
<1> DEFINE V == Above(g, Old, level)
           D == DOMAIN g.nodes
           banned == IF updating THEN {slot} ELSE {}
           top == TraverseFrom(g, vec, closest, level, ExpansionAdd, banned)
           view == refine_(g, Connectivity, top, NoSlot, 0)
           list == Slots(view)
           g1 == SetNeighbors(g, slot, level, list)
           g2 == form_reverse_links_(g1, slot, vec, level, view)
           y == LinkLevel(x, slot, vec, level, updating)
<1>1. x.graph = g /\ x.closest = closest
  OBVIOUS
<1>2. y = [graph |-> g2, closest |-> IF view = <<>> THEN closest ELSE view[1].slot]
  BY <1>1 DEF LinkLevel, search_to_insert_, search_to_update_, form_links_to_closest_
<1>3. y.graph = g2 /\ y.closest = IF view = <<>> THEN closest ELSE view[1].slot
  <2> HIDE DEF y, g2, view
  <2> QED BY <1>2
<1> HIDE DEF y, banned
<1>4. TopOK(g, vec, V, banned, top)
  BY GraphAssumption, TraverseFromFacts
<1>5. V \in SUBSET D /\ \A s \in V : s \in Old /\ g.nodes[s].level >= level
  BY DEF Above
<1> DEFINE X == {c \in Cand(g, vec, V) : c.slot \in V \ {slot}}
<1>6. top \in Seq(X) /\ Distinct(top)
  <2> HIDE DEF top, V
  <2>1. top \in Seq(Cand(g, vec, V)) /\ IsInjective(top) /\ \A i \in DOMAIN top : top[i].slot \in V \ banned
    BY <1>4 DEF TopOK
  <2>2. Len(top) \in Nat /\ DOMAIN top = 1 .. Len(top) /\ \A i \in 1 .. Len(top) : top[i] \in Cand(g, vec, V)
    BY <2>1, LenProperties, ElementOfSeq
  <2>3. \A s \in V \ banned : s # slot
    BY <1>5 DEF banned
  <2>4. \A i \in 1 .. Len(top) : top[i] \in X
    BY <2>1, <2>2, <2>3
  <2>5. top \in Seq(X)
    <3>1. top = [i \in 1 .. Len(top) |-> top[i]]
      BY <2>1, <2>2, LenProperties
    <3> HIDE DEF X
    <3> QED BY <2>2, <2>4, <3>1
  <2>6. \A c \in Cand(g, vec, V) : c = Candidate(g, vec, c.slot)
    BY <1>5, CandFacts
  <2>7. Distinct(top)
    BY <2>1, <2>2, <2>6 DEF Distinct, IsInjective
  <2> QED BY <2>5, <2>7
<1>9. \A c \in X : c.slot \in V \ {slot}
  OBVIOUS
<1> HIDE DEF top, X
<1>7. RefineTo(view, top, Len(top), Connectivity, X)
  BY <1>6, GraphAssumption, RefineFacts
<1> HIDE DEF view
<1>8. view \in Seq(X) /\ Len(view) <= Connectivity /\ Distinct(view)
  BY <1>7 DEF RefineTo
<1>10. Len(view) \in Nat /\ DOMAIN view = 1 .. Len(view) /\ \A i \in 1 .. Len(view) : view[i] \in X /\ view[i].slot \in V \ {slot}
  BY <1>8, <1>9, LenProperties, ElementOfSeq
<1> HIDE DEF V
<1>11. list = [i \in 1 .. Len(view) |-> view[i].slot]
  BY <1>10 DEF Slots
<1>12. ListOK(g, slot, level, list)
  <2>1. list \in Seq(D) /\ Len(list) = Len(view)
    BY <1>5, <1>10, <1>11
  <2>2. Len(list) <= connectivity_max(level)
    BY <2>1, <1>8, <1>10, GraphAssumption DEF connectivity_max
  <2>3. DOMAIN list = 1 .. Len(view) /\ \A i \in 1 .. Len(view) : list[i] = view[i].slot
    BY <1>11
  <2>4. IsInjective(list)
    BY <2>3, <1>8, <1>10 DEF IsInjective, Distinct
  <2>5. \A i \in DOMAIN list : list[i] # slot /\ g.nodes[list[i]].level >= level
    BY <2>3, <1>5, <1>10
  <2> QED BY <2>1, <2>2, <2>4, <2>5 DEF ListOK
<1> HIDE DEF list
<1>13. DOMAIN g.nodes = 0 .. Size(g) - 1 /\ Size(g) \in Nat /\ \A s \in D : NodeShape(g.nodes[s], K) /\ g.nodes[s].level \in Nat
  BY DEF NodesOK, NodeShape
<1> DEFINE old == g.nodes[slot]
           mid == [old EXCEPT !.nbrs[level] = list]
<1>14. /\ NodeShape(mid, K) /\ mid.key = old.key /\ mid.level = old.level /\ mid.vec = old.vec
       /\ \A m \in 0 .. old.level : mid.nbrs[m] = IF m = level THEN list ELSE old.nbrs[m]
  <2>1. NodeShape(old, K) /\ level \in 0 .. old.level
    BY <1>13
  <2>2. mid = [old EXCEPT !.nbrs[level] = list]
    OBVIOUS
  <2> HIDE DEF old, mid
  <2> QED BY <2>1, <2>2, NodeWithLink
<1>15. g1 = [g EXCEPT !.nodes[slot] = mid]
  BY DEF SetNeighbors
<1>16. \A l \in 0 .. mid.level : ListOK(g, slot, l, mid.nbrs[l])
  <2>1. \A l \in 0 .. old.level : ListOK(g, slot, l, old.nbrs[l])
    BY <1>13 DEF NodesOK
  <2> HIDE DEF mid, old
  <2> QED BY <1>12, <1>14, <2>1
<1> HIDE DEF mid, g1
<1>17. /\ NodesOK(g1, K) /\ g1.entry = g.entry /\ g1.max_level = g.max_level
       /\ Size(g1) = Size(g) /\ DOMAIN g1.nodes = D
       /\ \A s \in D : g1.nodes[s] = IF s = slot THEN mid ELSE g.nodes[s]
  BY <1>14, <1>15, <1>16, NodeReplaced
<1>18. \A s \in D : g1.nodes[s].level = g.nodes[s].level /\ g1.nodes[s].key = g.nodes[s].key /\ g1.nodes[s].vec = g.nodes[s].vec
                    /\ NodeShape(g1.nodes[s], K) /\ \A l \in 0 .. g.nodes[s].level : l # level => g1.nodes[s].nbrs[l] = g.nodes[s].nbrs[l]
  BY <1>13, <1>14, <1>17
<1> HIDE DEF old
<1> DEFINE back == ToSet(list) \ {slot}
           Back(s) == ReverseLink(g1, slot, vec, level, s)
           Linked(s) == [g1.nodes[s] EXCEPT !.nbrs[level] = Back(s)]
           N == [s \in D |-> IF s \in back THEN Linked(s) ELSE g1.nodes[s]]
<1>19. g2 = [g1 EXCEPT !.nodes = N]
  BY <1>17 DEF form_reverse_links_, list
<1>20. \A s \in back : s \in D /\ s # slot /\ g1.nodes[s].level >= level
  <2>1. \A s \in ToSet(list) : s \in V
    BY <1>10, <1>11 DEF ToSet
  <2> QED BY <2>1, <1>5, <1>17, <1>18
<1> HIDE DEF back, g2
<1>21. ASSUME NEW s \in D
       PROVE  /\ NodeShape(N[s], K) /\ N[s].level = g1.nodes[s].level /\ N[s].key = g1.nodes[s].key /\ N[s].vec = g1.nodes[s].vec
              /\ \A l \in 0 .. g1.nodes[s].level : ListOK(g1, s, l, N[s].nbrs[l])
              /\ \A l \in 0 .. g1.nodes[s].level : l # level => N[s].nbrs[l] = g1.nodes[s].nbrs[l]
  <2>0. \A l \in 0 .. g1.nodes[s].level : ListOK(g1, s, l, g1.nodes[s].nbrs[l])
    BY <1>13, <1>17 DEF NodesOK
  <2>1. CASE s \notin back
    <3>1. N[s] = g1.nodes[s]
      BY <2>1
    <3> HIDE DEF N
    <3> QED BY <2>0, <3>1, <1>18
  <2>2. CASE s \in back
    <3> DEFINE z == g1.nodes[s]
               b == Back(s)
    <3>1. N[s] = [z EXCEPT !.nbrs[level] = b]
      BY <2>2
    <3>2. NodeShape(z, K) /\ level \in 0 .. z.level
      BY <1>13, <1>18, <1>20, <2>2
    <3>3. ListOK(g1, s, level, b)
      BY <1>17, <1>18, <1>20, <2>2, ReverseLinkFacts
    <3> HIDE DEF N, b, z
    <3>4. /\ NodeShape(N[s], K) /\ N[s].key = z.key /\ N[s].level = z.level /\ N[s].vec = z.vec
          /\ \A m \in 0 .. z.level : N[s].nbrs[m] = IF m = level THEN b ELSE z.nbrs[m]
      BY <3>1, <3>2, NodeWithLink
    <3> QED BY <2>0, <3>3, <3>4 DEF z
  <2> QED BY <2>1, <2>2
<1>22. FunOn(N, DOMAIN g1.nodes) /\ DOMAIN N = DOMAIN g1.nodes
  BY <1>17 DEF FunOn
<1> HIDE DEF N
<1>23. /\ NodesOK(g2, K) /\ g2.nodes = N /\ g2.entry = g1.entry /\ g2.max_level = g1.max_level
       /\ Size(g2) = Size(g1)
  <2>1. \A s \in DOMAIN g1.nodes : NodeShape(N[s], K) /\ N[s].level = g1.nodes[s].level
    BY <1>17, <1>21
  <2>2. \A s \in DOMAIN g1.nodes : \A l \in 0 .. g1.nodes[s].level : ListOK(g1, s, l, N[s].nbrs[l])
    BY <1>17, <1>21
  <2>3. NodesOK(g1, K)
    BY <1>17
  <2> HIDE DEF D, V
  <2> QED BY <1>19, <1>22, <2>1, <2>2, <2>3, Renewed
<1>24. SameNodes(g, g2)
  BY <1>17, <1>18, <1>21, <1>22, <1>23 DEF SameNodes
<1>25. \A s \in D : \A l \in 0 .. g.nodes[s].level : l # level => g2.nodes[s].nbrs[l] = g.nodes[s].nbrs[l]
  BY <1>18, <1>21, <1>23
<1>26. y.closest \in V
  <2>1. CASE view = <<>>
    BY <2>1, <1>3 DEF V
  <2>2. CASE view # <<>>
    <3>1. 1 \in 1 .. Len(view)
      BY <2>2, <1>8, <1>10
    <3> QED BY <3>1, <2>2, <1>3, <1>10
  <2> QED BY <2>1, <2>2
<1> QED BY <1>3, <1>23, <1>24, <1>25, <1>26 DEF V, y


\* The levels that LinkDown goes through.
LEMMA LinkLoop ==
  ASSUME NEW g, NEW slot, NEW vec, NEW level, NEW closest, NEW updating, level + 1 \in Nat
  PROVE  \E f : /\ f[0] = [graph |-> g, closest |-> closest]
                /\ \A i \in 1 .. level + 1 : f[i] = LinkLevel(f[i - 1], slot, vec, level - i + 1, updating)
                /\ LinkDown(g, slot, vec, level, closest, updating) = f[level + 1].graph
<1> DEFINE n == level + 1
           St(x, i) == LinkLevel(x, slot, vec, level - i + 1, updating)
           base == [graph |-> g, closest |-> closest]
           Run(m, f) == f = [i \in 0 .. m |-> IF i = 0 THEN base ELSE St(f[i - 1], i)]
           S == {m \in 0 .. n : \E f : Run(m, f)}
           at == CHOOSE f : Run(n, f)
<1>0. n \in Nat
  OBVIOUS
<1>1. LinkDown(g, slot, vec, level, closest, updating) = at[n].graph
  BY DEF LinkDown
<1> HIDE DEF n, St, base
<1>2. 0 \in S
  <2> DEFINE f == [i \in 0 .. 0 |-> base]
  <2>1. \A i \in 0 .. 0 : f[i] = IF i = 0 THEN base ELSE St(f[i - 1], i)
    OBVIOUS
  <2>2. Run(0, f)
    BY <2>1
  <2> HIDE DEF Run, f
  <2> QED BY <1>0, <2>2
<1>3. ASSUME NEW m \in 0 .. n, m < n, m \in S
      PROVE  m + 1 \in S
  <2>1. PICK f : Run(m, f)
    BY <1>3
  <2> DEFINE h == [i \in 0 .. m + 1 |-> IF i = m + 1 THEN St(f[m], m + 1) ELSE f[i]]
  <2>2. \A i \in 0 .. m + 1 : h[i] = IF i = 0 THEN base ELSE St(h[i - 1], i)
    <3> SUFFICES ASSUME NEW i \in 0 .. m + 1
                 PROVE h[i] = IF i = 0 THEN base ELSE St(h[i - 1], i)
      OBVIOUS
    <3>1. CASE i = m + 1
      <4>1. h[i] = St(f[m], m + 1) /\ i - 1 = m /\ i # 0 /\ h[m] = f[m]
        BY <3>1, <1>0
      <4> HIDE DEF h
      <4> QED BY <3>1, <4>1
    <3>2. CASE i # m + 1
      <4>1. i \in 0 .. m /\ h[i] = f[i]
        BY <3>2, <1>0
      <4>2. i # 0 => h[i - 1] = f[i - 1]
        BY <3>2, <1>0
      <4>3. f[i] = IF i = 0 THEN base ELSE St(f[i - 1], i)
        BY <2>1, <4>1
      <4> HIDE DEF h
      <4> QED BY <4>1, <4>2, <4>3
    <3> QED BY <3>1, <3>2
  <2>3. Run(m + 1, h)
    BY <2>2
  <2> HIDE DEF Run, h
  <2>4. m + 1 \in 0 .. n
    BY <1>0, <1>3
  <2> QED BY <2>3, <2>4
<1>4. n \in S
  <2> HIDE DEF S
  <2>1. \A i \in 0 .. n : i \in S
    BY <1>0, <1>2, <1>3, CountUp
  <2> QED BY <1>0, <2>1
<1>5. Run(n, at)
  <2>1. \E f : Run(n, f)
    BY <1>4
  <2> HIDE DEF Run
  <2> QED BY <2>1, Zenon
<1>6. at[0] = base /\ \A i \in 1 .. n : at[i] = St(at[i - 1], i)
  <2>1. \A i \in 0 .. n : at[i] = IF i = 0 THEN base ELSE St(at[i - 1], i)
    <3>1. at = [i \in 0 .. n |-> IF i = 0 THEN base ELSE St(at[i - 1], i)]
      BY <1>5
    <3> HIDE DEF at
    <3> QED BY <3>1
  <2> HIDE DEF at
  <2> QED BY <2>1, <1>0
<1> HIDE DEF at
<1> QED BY <1>1, <1>6 DEF n, St, base


\* Where linking stands before level l: everything from l down is as it was.
Linking(g, x, Old, l, K) ==
  /\ x = [graph |-> x.graph, closest |-> x.closest]
  /\ NodesOK(x.graph, K) /\ SameNodes(g, x.graph)
  /\ \A s \in DOMAIN g.nodes : \A m \in 0 .. g.nodes[s].level :
       m <= l => x.graph.nodes[s].nbrs[m] = g.nodes[s].nbrs[m]
  /\ x.closest \in Above(g, Old, l)

LEMMA LinkingStep ==
  ASSUME NEW K, NEW g, NodesOK(g, K), NEW slot \in DOMAIN g.nodes, NEW l \in Nat,
         l <= g.nodes[slot].level, NEW Old \in SUBSET DOMAIN g.nodes,
         Within(g, Above(g, Old, l), l),
         NEW vec \in Int, NEW updating \in BOOLEAN, updating \/ slot \notin Old,
         NEW x, Linking(g, x, Old, l, K)
  PROVE  Linking(g, LinkLevel(x, slot, vec, l, updating), Old, l - 1, K)
<1> DEFINE h == x.graph
           c == x.closest
           y == LinkLevel(x, slot, vec, l, updating)
           V == Above(g, Old, l)
<1>1. x = [graph |-> h, closest |-> c] /\ NodesOK(h, K) /\ SameNodes(g, h) /\ c \in V
      /\ \A s \in DOMAIN g.nodes : \A m \in 0 .. g.nodes[s].level :
           m <= l => h.nodes[s].nbrs[m] = g.nodes[s].nbrs[m]
  BY DEF Linking
<1>2. y = [graph |-> y.graph, closest |-> y.closest]
  BY DEF LinkLevel
<1> HIDE DEF h, c, y
<1>3. DOMAIN h.nodes = DOMAIN g.nodes /\ \A s \in DOMAIN g.nodes : h.nodes[s].level = g.nodes[s].level /\ g.nodes[s].level \in Nat
  BY <1>1 DEF SameNodes, NodesOK, NodeShape
<1>4. Above(h, Old, l) = V /\ V \subseteq DOMAIN g.nodes /\ \A s \in V : g.nodes[s].level >= l
  BY <1>3 DEF Above
<1>5. Within(h, V, l)
  <2> SUFFICES ASSUME NEW s \in V PROVE neighbors_(h, s, l) \in Seq(V)
    BY <1>3, <1>4 DEF Within
  <2>1. l \in 0 .. g.nodes[s].level /\ l <= l
    BY <1>3, <1>4
  <2>2. neighbors_(h, s, l) = neighbors_(g, s, l)
    BY <1>1, <1>4, <2>1 DEF neighbors_
  <2> QED BY <2>2 DEF Within
<1>6. slot \in DOMAIN h.nodes /\ l <= h.nodes[slot].level /\ Old \in SUBSET DOMAIN h.nodes
  BY <1>3
<1>7. /\ NodesOK(y.graph, K) /\ SameNodes(h, y.graph)
      /\ \A s \in DOMAIN h.nodes : \A m \in 0 .. h.nodes[s].level :
           m # l => y.graph.nodes[s].nbrs[m] = h.nodes[s].nbrs[m]
      /\ y.closest \in Above(h, Old, l)
  BY <1>1, <1>4, <1>5, <1>6, LinkLevelFacts DEF y
<1>8. SameNodes(g, y.graph)
  BY <1>1, <1>7 DEF SameNodes
<1>9. \A s \in DOMAIN g.nodes : \A m \in 0 .. g.nodes[s].level :
        m <= l - 1 => y.graph.nodes[s].nbrs[m] = g.nodes[s].nbrs[m]
  <2> SUFFICES ASSUME NEW s \in DOMAIN g.nodes, NEW m \in 0 .. g.nodes[s].level, m <= l - 1
               PROVE  y.graph.nodes[s].nbrs[m] = g.nodes[s].nbrs[m]
    OBVIOUS
  <2>1. m # l /\ m <= l /\ m \in 0 .. h.nodes[s].level
    BY <1>3
  <2> QED BY <2>1, <1>1, <1>3, <1>7
<1>10. y.closest \in Above(g, Old, l - 1)
  BY <1>3, <1>4, <1>7 DEF Above
<1> QED BY <1>2, <1>7, <1>8, <1>9, <1>10 DEF Linking, y

LEMMA LinkDownFacts ==
  ASSUME NEW K, NEW g, NodesOK(g, K), NEW slot \in DOMAIN g.nodes, NEW level \in Nat,
         level <= g.nodes[slot].level, NEW Old \in SUBSET DOMAIN g.nodes,
         \A l \in 0 .. level : Within(g, Above(g, Old, l), l),
         NEW closest \in Above(g, Old, level),
         NEW vec \in Int, NEW updating \in BOOLEAN, updating \/ slot \notin Old
  PROVE  LET h == LinkDown(g, slot, vec, level, closest, updating)
         IN  NodesOK(h, K) /\ SameNodes(g, h)
<1> DEFINE n == level + 1
           x0 == [graph |-> g, closest |-> closest]
<1>1. PICK f : /\ f[0] = [graph |-> g, closest |-> closest]
               /\ \A i \in 1 .. level + 1 : f[i] = LinkLevel(f[i - 1], slot, vec, level - i + 1, updating)
               /\ LinkDown(g, slot, vec, level, closest, updating) = f[level + 1].graph
  <2>1. level + 1 \in Nat
    OBVIOUS
  <2> QED BY <2>1, LinkLoop
<1> DEFINE S == {i \in 0 .. n : Linking(g, f[i], Old, level - i, K)}
<1>2. 0 \in S
  <2>1. Linking(g, x0, Old, level, K)
    <3>1. x0.graph = g /\ x0.closest = closest /\ x0 = [graph |-> x0.graph, closest |-> x0.closest]
      OBVIOUS
    <3> HIDE DEF x0
    <3> QED BY <3>1 DEF Linking, SameNodes
  <2>2. f[0] = x0 /\ level - 0 = level
    BY <1>1
  <2> HIDE DEF x0
  <2> QED BY <2>1, <2>2
<1>3. ASSUME NEW i \in 0 .. n, i < n, i \in S PROVE i + 1 \in S
  <2> DEFINE l == level - i
             x == f[i]
  <2>1. i + 1 \in 1 .. n /\ (i + 1) - 1 = i /\ i + 1 \in 0 .. n /\ l \in 0 .. level
        /\ level - (i + 1) + 1 = l /\ level - (i + 1) = l - 1 /\ l <= g.nodes[slot].level /\ l \in Nat
    <3>1. g.nodes[slot].level \in Nat
      BY DEF NodesOK, NodeShape
    <3> QED BY <1>3, <3>1
  <2>2. f[i + 1] = LinkLevel(x, slot, vec, l, updating)
    BY <2>1, <1>1
  <2>3. Linking(g, x, Old, l, K)
    BY <1>3
  <2> HIDE DEF l, x
  <2>4. Linking(g, f[i + 1], Old, l - 1, K)
    BY <2>1, <2>2, <2>3, LinkingStep
  <2> QED BY <2>1, <2>4
<1> HIDE DEF S
<1>4. \A i \in 0 .. n : i \in S
  BY <1>2, <1>3, CountUp
<1>5. Linking(g, f[n], Old, level - n, K)
  BY <1>4 DEF S
<1> QED BY <1>1, <1>5 DEF Linking

\* In a whole graph the lists of a level stay on the level.
LEMMA WholeWithin ==
  ASSUME NEW K, NEW g, NodesOK(g, K), NEW l \in Nat
  PROVE  Within(g, Above(g, DOMAIN g.nodes, l), l)
<1> DEFINE V == Above(g, DOMAIN g.nodes, l)
<1> SUFFICES ASSUME NEW s \in V PROVE neighbors_(g, s, l) \in Seq(V)
  BY DEF Within, Above
<1> DEFINE list == neighbors_(g, s, l)
<1>1. s \in DOMAIN g.nodes /\ s \in 0 .. Size(g) - 1 /\ l \in 0 .. g.nodes[s].level
  BY DEF Above, NodesOK, NodeShape
<1>2. ListOK(g, s, l, list)
  BY <1>1 DEF NodesOK, neighbors_
<1> HIDE DEF list
<1>3. Len(list) \in Nat /\ DOMAIN list = 1 .. Len(list) /\ list = [i \in 1 .. Len(list) |-> list[i]]
      /\ \A i \in 1 .. Len(list) : list[i] \in DOMAIN g.nodes
  BY <1>2, LenProperties, ElementOfSeq DEF ListOK
<1>4. \A i \in 1 .. Len(list) : list[i] \in V
  BY <1>2, <1>3 DEF ListOK, Above
<1> HIDE DEF V
<1>5. list \in Seq(V)
  BY <1>3, <1>4
<1> QED BY <1>5 DEF list

\* min of two naturals
LEMMA MinOfTwo ==
  ASSUME NEW a \in Nat, NEW b \in Nat
  PROVE  Min({a, b}) = IF a <= b THEN a ELSE b
<1> DEFINE S == {a, b}
           m == Min(S)
<1>1. m \in S /\ \A x \in S : m <= x
  BY MinFacts
<1> HIDE DEF m
<1>2. (m = a \/ m = b) /\ m <= a /\ m <= b
  BY <1>1
<1> QED BY <1>2 DEF m

LEMMA SameEntry ==
  ASSUME NEW K, NEW g, NEW h, EntryOK(g), SameNodes(g, h)
  PROVE  EntryOK(h)
<1>1. Size(h) = Size(g)
  BY DEF SameNodes, Size
<1> QED BY <1>1 DEF SameNodes, EntryOK


-----------------------------------------------------------------------------
(* The operations on a graph. *)

\* The graph with one more node, not linked yet.
Grown(g, key, vec, level) ==
  [g EXCEPT !.nodes = [s \in 0 .. Size(g) |-> IF s = Size(g) THEN NewNode(key, vec, level) ELSE g.nodes[s]]]

LEMMA GrownFacts ==
  ASSUME NEW K, NEW g, NodesOK(g, K), NEW key \in K, NEW vec \in Int, NEW level \in Nat,
         NEW h, h = Grown(g, key, vec, level)
  PROVE  /\ NodesOK(h, K) /\ Size(h) = Size(g) + 1 /\ h.entry = g.entry /\ h.max_level = g.max_level
         /\ DOMAIN h.nodes = 0 .. Size(g)
         /\ h.nodes[Size(g)] = NewNode(key, vec, level)
         /\ \A s \in DOMAIN g.nodes : h.nodes[s] = g.nodes[s]
<1> DEFINE n == Size(g)
           new == NewNode(key, vec, level)
           X == [s \in 0 .. n |-> IF s = n THEN new ELSE g.nodes[s]]
           b == g.entry
           c == g.max_level
<1>1. n \in Nat /\ DOMAIN g.nodes = 0 .. n - 1 /\ g = [nodes |-> g.nodes, entry |-> b, max_level |-> c]
  BY DEF NodesOK
<1>2. h = [nodes |-> X, entry |-> b, max_level |-> c]
  <2> DEFINE a == g.nodes
  <2>1. g = [nodes |-> a, entry |-> b, max_level |-> c]
    BY <1>1
  <2>2. h = [g EXCEPT !.nodes = X]
    BY DEF Grown
  <2> HIDE DEF a, b, c, X
  <2> QED BY <2>1, <2>2
<1>3. DOMAIN X = 0 .. n /\ X = [s \in 0 .. n |-> X[s]] /\ X[n] = new /\ \A s \in 0 .. n - 1 : X[s] = g.nodes[s]
  BY <1>1
<1> HIDE DEF b, c, X, new
<1>4. h.nodes = X /\ h.entry = b /\ h.max_level = c /\ h = [nodes |-> h.nodes, entry |-> h.entry, max_level |-> h.max_level]
  <2>1. h.nodes = X /\ h.entry = b /\ h.max_level = c
    BY <1>2
  <2> QED BY <1>2, <2>1
<1>5. Size(h) = n + 1
  <2>1. Cardinality(0 .. n) = n + 1
    <3> HIDE DEF n
    <3>1. 0 \in Int /\ n \in Int /\ ~ (0 > n)
      BY <1>1
    <3> QED BY <3>1, FS_Interval
  <2> QED BY <2>1, <1>3, <1>4 DEF Size
<1>6. NodeShape(new, K) /\ new.level = level /\ \A l \in 0 .. level : new.nbrs[l] = <<>>
  BY DEF new, NewNode, NodeShape
<1>7. 0 .. (n + 1) - 1 = 0 .. n /\ \A s \in 0 .. n : s = n \/ s \in 0 .. n - 1
  BY <1>1
<1>8. \A s \in 0 .. n : NodeShape(h.nodes[s], K)
  BY <1>1, <1>3, <1>4, <1>6, <1>7 DEF NodesOK
<1>9. ASSUME NEW s \in 0 .. n, NEW l \in 0 .. h.nodes[s].level
      PROVE  ListOK(h, s, l, h.nodes[s].nbrs[l])
  <2>1. CASE s = n
    <3>1. h.nodes[s].nbrs[l] = <<>>
      BY <2>1, <1>3, <1>4, <1>6, <1>9
    <3>2. l \in Nat
      BY <2>1, <1>3, <1>4, <1>6, <1>9
    <3>3. connectivity_max(l) \in Nat
      BY <3>2, GraphAssumption DEF connectivity_max
    <3> DEFINE list == h.nodes[s].nbrs[l]
    <3>4. list = <<>>
      BY <3>1
    <3> HIDE DEF list
    <3>5. ListOK(h, s, l, list)
      BY <3>3, <3>4 DEF ListOK, IsInjective
    <3> QED BY <3>5 DEF list
  <2>2. CASE s \in 0 .. n - 1
    <3> DEFINE list == h.nodes[s].nbrs[l]
    <3>1. ListOK(g, s, l, list)
      BY <2>2, <1>1, <1>3, <1>4, <1>9 DEF NodesOK
    <3> HIDE DEF list
    <3>2. list \in Seq(DOMAIN g.nodes) /\ \A i \in DOMAIN list : list[i] \in 0 .. n - 1
      BY <3>1, <1>1, LenProperties, ElementOfSeq DEF ListOK
    <3>3. list \in Seq(0 .. n)
      <4>1. Len(list) \in Nat /\ DOMAIN list = 1 .. Len(list) /\ list = [i \in 1 .. Len(list) |-> list[i]]
        BY <3>2, LenProperties
      <4>2. \A i \in 1 .. Len(list) : list[i] \in 0 .. n
        BY <3>2, <4>1, <1>1
      <4> DEFINE T == 0 .. n
      <4>3. \A i \in 1 .. Len(list) : list[i] \in T
        BY <4>2
      <4> HIDE DEF T
      <4>4. list \in Seq(T)
        BY <4>1, <4>3
      <4> QED BY <4>4 DEF T
    <3>4. \A i \in DOMAIN list : h.nodes[list[i]] = g.nodes[list[i]]
      BY <3>2, <1>3, <1>4
    <3>5. ListOK(h, s, l, list)
      BY <3>1, <3>3, <3>4, <1>3, <1>4 DEF ListOK
    <3> QED BY <3>5 DEF list
  <2> QED BY <2>1, <2>2, <1>7
<1>10. NodesOK(h, K)
  <2>1. Size(h) \in Nat /\ 0 .. Size(h) - 1 = 0 .. n
    BY <1>1, <1>5, <1>7
  <2>2. h.nodes = [s \in 0 .. n |-> h.nodes[s]]
    BY <1>3, <1>4
  <2> QED BY <1>4, <1>8, <1>9, <2>1, <2>2 DEF NodesOK
<1> QED BY <1>1, <1>3, <1>4, <1>5, <1>10 DEF b, c, new

\* An insertion keeps the graph in order and every node its key and vector.
LEMMA AddFacts ==
  ASSUME NEW K, NEW g, GraphOK(g, K), NEW key \in K, NEW vec \in Int, NEW level \in Nat,
         NEW h, h = add(g, key, vec, level)
  PROVE  /\ GraphOK(h, K) /\ Size(h) = Size(g) + 1
         /\ DOMAIN h.nodes = 0 .. Size(g)
         /\ h.nodes[Size(g)].key = key /\ h.nodes[Size(g)].vec = vec
         /\ \A s \in DOMAIN g.nodes : h.nodes[s].key = g.nodes[s].key /\ h.nodes[s].vec = g.nodes[s].vec
<1> DEFINE n == Size(g)
           g1 == Grown(g, key, vec, level)
           low == Min({level, g.max_level})
           closest == search_for_one_(g1, vec, g.entry, g.max_level, level)
           g2 == LinkDown(g1, n, vec, low, closest, FALSE)
           Old == DOMAIN g.nodes
<1>1. h = IF n = 0 THEN [g1 EXCEPT !.entry = 0, !.max_level = level]
          ELSE IF level > g.max_level THEN [g2 EXCEPT !.entry = n, !.max_level = level] ELSE g2
  BY DEF add, Grown
<1>2. /\ NodesOK(g1, K) /\ Size(g1) = n + 1 /\ g1.entry = g.entry /\ g1.max_level = g.max_level
      /\ DOMAIN g1.nodes = 0 .. n /\ g1.nodes[n] = NewNode(key, vec, level)
      /\ \A s \in Old : g1.nodes[s] = g.nodes[s]
  <2>1. NodesOK(g, K) /\ g1 = Grown(g, key, vec, level)
    BY DEF GraphOK
  <2> HIDE DEF g1
  <2> QED BY <2>1, GrownFacts
<1> HIDE DEF g1
<1>3. n \in Nat /\ Old = 0 .. n - 1 /\ Old \in SUBSET DOMAIN g1.nodes /\ n \notin Old /\ n \in DOMAIN g1.nodes
  BY <1>2 DEF GraphOK, NodesOK
<1>4. g1.nodes[n].key = key /\ g1.nodes[n].vec = vec /\ g1.nodes[n].level = level
  BY <1>2 DEF NewNode
\* What is left to show once the final graph is at hand.
<1>5. ASSUME NEW r, NEW e, NEW m, h = [r EXCEPT !.entry = e, !.max_level = m], NodesOK(r, K), SameNodes(g1, r),
             e \in 0 .. n, r.nodes[e].level = m, \A s \in 0 .. n : r.nodes[s].level <= m
      PROVE  /\ GraphOK(h, K) /\ Size(h) = n + 1 /\ DOMAIN h.nodes = 0 .. n
             /\ h.nodes[n].key = key /\ h.nodes[n].vec = vec
             /\ \A s \in DOMAIN g.nodes : h.nodes[s].key = g.nodes[s].key /\ h.nodes[s].vec = g.nodes[s].vec
  <2> DEFINE a == r.nodes
             b == r.entry
             c == r.max_level
  <2>1. r = [nodes |-> a, entry |-> b, max_level |-> c]
    BY <1>5 DEF NodesOK
  <2> HIDE DEF a, b, c
  <2>2. h = [nodes |-> a, entry |-> e, max_level |-> m]
    BY <2>1, <1>5
  <2>3. h.nodes = r.nodes /\ h.entry = e /\ h.max_level = m /\ h = [nodes |-> h.nodes, entry |-> h.entry, max_level |-> h.max_level]
    BY <2>2 DEF a
  <2>4. Size(h) = Size(r)
    BY <2>3 DEF Size
  <2>5. \A s, l, list : ListOK(r, s, l, list) <=> ListOK(h, s, l, list)
    BY <2>3 DEF ListOK
  <2>6. NodesOK(h, K)
    BY <2>3, <2>4, <2>5, <1>5 DEF NodesOK
  <2>7. DOMAIN h.nodes = 0 .. n
    BY <2>3, <1>2, <1>5 DEF SameNodes
  <2>8. EntryOK(h)
    BY <2>3, <2>7, <1>5 DEF EntryOK
  <2>9. Size(h) = n + 1
    <3>1. Size(r) = Size(g1)
      BY <1>5 DEF SameNodes, Size
    <3> QED BY <3>1, <2>4, <1>2
  <2>10. \A s \in 0 .. n : h.nodes[s].key = g1.nodes[s].key /\ h.nodes[s].vec = g1.nodes[s].vec
    BY <2>3, <1>2, <1>5 DEF SameNodes
  <2> QED BY <2>6, <2>7, <2>8, <2>9, <2>10, <1>2, <1>3, <1>4 DEF GraphOK
<1>6. CASE n = 0
  <2>1. h = [g1 EXCEPT !.entry = 0, !.max_level = level]
    BY <1>1, <1>6
  <2>2. SameNodes(g1, g1)
    BY DEF SameNodes
  <2>3. 0 \in 0 .. n /\ g1.nodes[0].level = level /\ \A s \in 0 .. n : g1.nodes[s].level <= level
    BY <1>4, <1>6
  <2>4. /\ GraphOK(h, K) /\ Size(h) = n + 1 /\ DOMAIN h.nodes = 0 .. n
        /\ h.nodes[n].key = key /\ h.nodes[n].vec = vec
        /\ \A s \in DOMAIN g.nodes : h.nodes[s].key = g.nodes[s].key /\ h.nodes[s].vec = g.nodes[s].vec
    BY <2>1, <2>2, <2>3, <1>2, <1>5
  <2> QED BY <2>4
<1>7. CASE n # 0
  <2> DEFINE top == g.max_level
  <2>1. g.entry \in Old /\ top = g.nodes[g.entry].level /\ top \in Nat /\ \A s \in Old : g.nodes[s].level <= top /\ g.nodes[s].level \in Nat
    <3>1. g.entry \in Old /\ top = g.nodes[g.entry].level /\ \A s \in Old : g.nodes[s].level <= top
      BY <1>3, <1>7 DEF GraphOK, EntryOK
    <3>2. \A s \in Old : g.nodes[s].level \in Nat
      BY DEF GraphOK, NodesOK, NodeShape
    <3> QED BY <3>1, <3>2
  <2>2. \A l \in Nat : Above(g1, Old, l) = Above(g, Old, l)
    BY <1>2 DEF Above
  <2>3. ASSUME NEW l \in Nat PROVE Within(g1, Above(g1, Old, l), l)
    <3>1. Within(g, Above(g, Old, l), l)
      BY WholeWithin DEF GraphOK
    <3>2. \A s \in Above(g, Old, l) : neighbors_(g1, s, l) = neighbors_(g, s, l)
      BY <1>2 DEF Above, neighbors_
    <3>3. Above(g1, Old, l) = Above(g, Old, l) /\ Above(g, Old, l) \subseteq DOMAIN g1.nodes
      BY <2>2, <1>3 DEF Above
    <3> QED BY <3>1, <3>2, <3>3 DEF Within
  <2>4. low = (IF level <= top THEN level ELSE top) /\ low \in Nat
    BY <2>1, MinOfTwo
  <2> HIDE DEF low
  <2>5. closest \in Above(g1, Old, low)
    <3>1. \A l \in Int : level < l /\ l <= top => Within(g1, Above(g1, Old, l), l)
      BY <2>3
    <3>2. g.entry \in Above(g1, Old, top)
      BY <2>1, <1>2 DEF Above
    <3>3. closest \in Above(g1, Old, IF top <= level THEN top ELSE level)
      <4> DEFINE t == top
                 e == g.entry
      <4>1. t \in Int /\ e \in Above(g1, Old, t) /\ \A l \in Int : level < l /\ l <= t => Within(g1, Above(g1, Old, l), l)
        BY <2>1, <3>1, <3>2
      <4>3. NodesOK(g1, K) /\ Old \subseteq DOMAIN g1.nodes
        BY <1>2, <1>3
      <4> HIDE DEF t, e, Old
      <4>2. search_for_one_(g1, vec, e, t, level) \in Above(g1, Old, IF t <= level THEN t ELSE level)
        BY <4>1, <4>3, DescentFacts
      <4> QED BY <4>2 DEF t, e
    <3>4. (IF top <= level THEN top ELSE level) = low
      BY <2>1, <2>4
    <3> QED BY <3>3, <3>4
  <2> HIDE DEF closest
  <2>6. low <= g1.nodes[n].level
    BY <1>4, <2>1, <2>4
  <2>7. NodesOK(g2, K) /\ SameNodes(g1, g2)
    <3>1. NodesOK(g1, K) /\ n \in DOMAIN g1.nodes /\ low \in Nat /\ Old \in SUBSET DOMAIN g1.nodes /\ n \notin Old
          /\ \A l \in 0 .. low : Within(g1, Above(g1, Old, l), l)
      BY <1>2, <1>3, <2>3, <2>4
    <3> HIDE DEF n, Old
    <3> QED BY <3>1, <2>5, <2>6, LinkDownFacts
  <2> HIDE DEF g2
  <2>8. \A s \in 0 .. n : g2.nodes[s].level = g1.nodes[s].level
    BY <2>7, <1>2 DEF SameNodes
  <2>9. CASE level > top
    <3>1. h = [g2 EXCEPT !.entry = n, !.max_level = level]
      BY <2>9, <1>1, <1>7
    <3>2. n \in 0 .. n /\ g2.nodes[n].level = level
      BY <1>3, <1>4, <2>8
    <3>3. \A s \in 0 .. n : g2.nodes[s].level <= level
      <4> SUFFICES ASSUME NEW s \in 0 .. n PROVE g1.nodes[s].level <= level
        BY <2>8
      <4>1. s = n \/ s \in Old
        BY <1>3
      <4>2. CASE s \in Old
        BY <4>2, <2>1, <2>9, <1>2
      <4> QED BY <4>1, <4>2, <1>4
    <3>4. /\ GraphOK(h, K) /\ Size(h) = n + 1 /\ DOMAIN h.nodes = 0 .. n
          /\ h.nodes[n].key = key /\ h.nodes[n].vec = vec
          /\ \A s \in DOMAIN g.nodes : h.nodes[s].key = g.nodes[s].key /\ h.nodes[s].vec = g.nodes[s].vec
      BY <2>7, <3>1, <3>2, <3>3, <1>5
    <3> QED BY <3>4
  <2>10. CASE ~ (level > top)
    <3>1. h = g2
      BY <2>10, <1>1, <1>7
    <3>2. EntryOK(h)
      <4>1. h.entry = g.entry /\ h.max_level = top /\ DOMAIN h.nodes = 0 .. n
        BY <3>1, <2>7, <1>2 DEF SameNodes
      <4>2. \A s \in 0 .. n : h.nodes[s].level <= top
        <5> SUFFICES ASSUME NEW s \in 0 .. n PROVE g1.nodes[s].level <= top
          BY <3>1, <2>8
        <5>1. s = n \/ s \in Old
          BY <1>3
        <5>2. CASE s \in Old
          BY <5>2, <2>1, <1>2
        <5>3. CASE s = n
          BY <5>3, <2>1, <2>10, <1>4
        <5> QED BY <5>1, <5>2, <5>3
      <4>3. h.nodes[g.entry].level = top
        BY <3>1, <2>1, <2>8, <1>2, <1>3
      <4> QED BY <4>1, <4>2, <4>3, <2>1, <1>3 DEF EntryOK
    <3>3. Size(h) = n + 1 /\ DOMAIN h.nodes = 0 .. n
      <4>1. DOMAIN h.nodes = DOMAIN g1.nodes
        BY <3>1, <2>7 DEF SameNodes
      <4> QED BY <4>1, <1>2 DEF Size
    <3>4. \A s \in 0 .. n : h.nodes[s].key = g1.nodes[s].key /\ h.nodes[s].vec = g1.nodes[s].vec
      BY <3>1, <2>7, <1>2 DEF SameNodes
    <3>5. /\ GraphOK(h, K) /\ Size(h) = n + 1 /\ DOMAIN h.nodes = 0 .. n
          /\ h.nodes[n].key = key /\ h.nodes[n].vec = vec
          /\ \A s \in DOMAIN g.nodes : h.nodes[s].key = g.nodes[s].key /\ h.nodes[s].vec = g.nodes[s].vec
      BY <3>1, <3>2, <3>3, <3>4, <2>7, <1>2, <1>3, <1>4 DEF GraphOK
    <3> QED BY <3>5
  <2> QED BY <2>9, <2>10
<1> QED BY <1>6, <1>7

\* A reused node keeps its level; every other node its key and vector.
LEMMA UpdateFacts ==
  ASSUME NEW K, NEW g, GraphOK(g, K), NEW slot \in DOMAIN g.nodes, NEW key \in K, NEW vec \in Int,
         NEW h, h = update(g, slot, key, vec)
  PROVE  /\ GraphOK(h, K) /\ Size(h) = Size(g) /\ DOMAIN h.nodes = DOMAIN g.nodes
         /\ h.nodes[slot].key = key /\ h.nodes[slot].vec = vec
         /\ \A s \in DOMAIN g.nodes \ {slot} :
              h.nodes[s].key = g.nodes[s].key /\ h.nodes[s].vec = g.nodes[s].vec
<1> DEFINE D == DOMAIN g.nodes
           level == g.nodes[slot].level
           top == g.max_level
           low == Min({level, top})
           closest == IF level = top THEN g.entry ELSE search_for_one_(g, vec, g.entry, top, level)
           g1 == LinkDown(g, slot, vec, low, closest, TRUE)
<1>1. h = [g1 EXCEPT !.nodes[slot].key = key, !.nodes[slot].vec = vec]
  BY DEF update
<1>2. NodesOK(g, K) /\ Size(g) \in Nat /\ D = 0 .. Size(g) - 1 /\ level \in Nat
  BY DEF GraphOK, NodesOK, NodeShape
<1>3. g.entry \in D /\ top = g.nodes[g.entry].level /\ top \in Nat /\ level <= top
  <2>1. g.entry \in D /\ top = g.nodes[g.entry].level /\ \A s \in D : g.nodes[s].level <= top
    BY <1>2 DEF GraphOK, EntryOK
  <2>2. \A s \in D : g.nodes[s].level \in Nat
    BY DEF GraphOK, NodesOK, NodeShape
  <2> QED BY <2>1, <2>2
<1>4. low = level
  BY <1>2, <1>3, MinOfTwo
<1>5. closest \in Above(g, D, level)
  <2>1. g.entry \in Above(g, D, top)
    BY <1>3 DEF Above
  <2>2. CASE level = top
    BY <2>1, <2>2
  <2>3. CASE level # top
    <3> DEFINE t == top
               e == g.entry
               lv == level
    <3>1. \A l \in Int : lv < l /\ l <= t => Within(g, Above(g, D, l), l)
      BY <1>2, <1>3, WholeWithin
    <3>2. lv \in Int /\ t \in Int /\ e \in Above(g, D, t) /\ ~ (t <= lv)
      BY <1>2, <1>3, <2>1, <2>3
    <3> HIDE DEF t, e, lv
    <3>3. search_for_one_(g, vec, e, t, lv) \in Above(g, D, IF t <= lv THEN t ELSE lv)
      BY <1>2, <3>1, <3>2, DescentFacts
    <3>4. search_for_one_(g, vec, e, t, lv) \in Above(g, D, lv)
      BY <3>2, <3>3
    <3> QED BY <3>4, <2>3 DEF t, e, lv
  <2> QED BY <2>2, <2>3
<1> HIDE DEF closest
<1>6. NodesOK(g1, K) /\ SameNodes(g, g1)
  <2>1. g1 = LinkDown(g, slot, vec, level, closest, TRUE)
    BY <1>4
  <2>2. \A l \in 0 .. level : Within(g, Above(g, D, l), l)
    BY <1>2, WholeWithin
  <2>3. level <= g.nodes[slot].level
    BY <1>2
  <2> DEFINE lv == level
  <2> HIDE DEF lv
  <2>4. lv \in Nat /\ lv <= g.nodes[slot].level /\ (\A l \in 0 .. lv : Within(g, Above(g, D, l), l)) /\ closest \in Above(g, D, lv)
        /\ g1 = LinkDown(g, slot, vec, lv, closest, TRUE)
    BY <1>2, <1>5, <2>1, <2>2, <2>3 DEF lv
  <2> HIDE DEF g1
  <2> QED BY <1>2, <2>4, LinkDownFacts
<1> HIDE DEF g1
<1> DEFINE x == [g1.nodes[slot] EXCEPT !.key = key, !.vec = vec]
<1>7. slot \in DOMAIN g1.nodes /\ DOMAIN g1.nodes = D /\ NodeShape(g1.nodes[slot], K)
      /\ \A l \in 0 .. g1.nodes[slot].level : ListOK(g1, slot, l, g1.nodes[slot].nbrs[l])
  BY <1>6 DEF SameNodes, NodesOK
<1>8. NodeShape(x, K) /\ x.key = key /\ x.vec = vec /\ x.level = g1.nodes[slot].level /\ x.nbrs = g1.nodes[slot].nbrs
  <2> DEFINE z == g1.nodes[slot]
             a == z.key
             b == z.level
             c == z.vec
             d == z.nbrs
  <2>1. z = [key |-> a, level |-> b, vec |-> c, nbrs |-> d] /\ b \in Nat /\ d = [l \in 0 .. b |-> d[l]]
    BY <1>7 DEF NodeShape
  <2>2. x = [z EXCEPT !.key = key, !.vec = vec]
    OBVIOUS
  <2> HIDE DEF z, a, b, c, d, x
  <2>3. x = [key |-> key, level |-> b, vec |-> vec, nbrs |-> d]
    BY <2>1, <2>2
  <2>4. x.key = key /\ x.vec = vec /\ x.level = b /\ x.nbrs = d
    BY <2>3
  <2>5. NodeShape(x, K)
    BY <2>1, <2>3, <2>4 DEF NodeShape
  <2> QED BY <2>4, <2>5 DEF a, b, c, d, z
<1>9. h = [g1 EXCEPT !.nodes[slot] = x]
  <2>1. g1 = [nodes |-> g1.nodes, entry |-> g1.entry, max_level |-> g1.max_level] /\ g1.nodes = [s \in D |-> g1.nodes[s]]
    BY <1>6, <1>7 DEF NodesOK
  <2> QED BY <1>1, <1>7, <2>1
<1> HIDE DEF x
<1>10. /\ NodesOK(h, K) /\ h.entry = g1.entry /\ h.max_level = g1.max_level
       /\ Size(h) = Size(g1) /\ DOMAIN h.nodes = D
       /\ \A s \in D : h.nodes[s] = IF s = slot THEN x ELSE g1.nodes[s]
  BY <1>6, <1>7, <1>8, <1>9, NodeReplaced
<1>11. Size(h) = Size(g)
  BY <1>10 DEF Size
<1>12. EntryOK(h)
  <2>1. h.entry = g.entry /\ h.max_level = top /\ \A s \in D : h.nodes[s].level = g.nodes[s].level
    BY <1>6, <1>8, <1>10 DEF SameNodes
  <2>2. \A s \in D : g.nodes[s].level <= top
    BY <1>2 DEF GraphOK, EntryOK
  <2> QED BY <2>1, <2>2, <1>3, <1>10 DEF EntryOK
<1>13. \A s \in D \ {slot} : h.nodes[s].key = g.nodes[s].key /\ h.nodes[s].vec = g.nodes[s].vec
  BY <1>6, <1>10 DEF SameNodes
<1> QED BY <1>8, <1>10, <1>11, <1>12, <1>13 DEF GraphOK

\* Isolation keeps every node with its key and vector, and only drops links.
LEMMA IsolateFacts ==
  ASSUME NEW K, NEW g, GraphOK(g, K)
  PROVE  GraphOK(isolate(g), K) /\ SameNodes(g, isolate(g)) /\ Size(isolate(g)) = Size(g)
<1> DEFINE D == DOMAIN g.nodes
           kept == D \ Freed(g)
           F(s) == [l \in DOMAIN g.nodes[s].nbrs |-> Only(g.nodes[s].nbrs[l], kept)]
           X == [s \in D |-> [g.nodes[s] EXCEPT !.nbrs = F(s)]]
           h == isolate(g)
<1>1. h = [g EXCEPT !.nodes = X]
  BY DEF isolate
<1>2. NodesOK(g, K) /\ Size(g) \in Nat /\ D = 0 .. Size(g) - 1 /\ EntryOK(g)
      /\ \A s \in D : NodeShape(g.nodes[s], K)
  BY DEF GraphOK, NodesOK
<1> HIDE DEF h, kept
<1>3. ASSUME NEW s \in D
      PROVE  /\ NodeShape(X[s], K) /\ X[s].key = g.nodes[s].key /\ X[s].level = g.nodes[s].level /\ X[s].vec = g.nodes[s].vec
             /\ \A l \in 0 .. g.nodes[s].level : ListOK(g, s, l, X[s].nbrs[l])
  <2> DEFINE x == g.nodes[s]
             f == F(s)
             y == X[s]
             a == x.key
             b == x.level
             c == x.vec
             d == x.nbrs
  <2>1. x = [key |-> a, level |-> b, vec |-> c, nbrs |-> d] /\ a \in K /\ b \in Nat /\ c \in Int /\ d = [l \in 0 .. b |-> d[l]]
    BY <1>2 DEF NodeShape
  <2>2. y = [x EXCEPT !.nbrs = f]
    OBVIOUS
  <2>3. f = [l \in DOMAIN d |-> Only(d[l], kept)]
    OBVIOUS
  <2>4. \A l \in 0 .. b : ListOK(g, s, l, d[l])
    BY <1>2 DEF NodesOK
  <2> HIDE DEF x, f, y, a, b, c, d
  <2>5. f = [l \in 0 .. b |-> f[l]] /\ \A l \in 0 .. b : f[l] = Only(d[l], kept)
    BY <2>1, <2>3
  <2>6. y = [key |-> a, level |-> b, vec |-> c, nbrs |-> f]
    BY <2>1, <2>2
  <2>7. y.key = a /\ y.level = b /\ y.vec = c /\ y.nbrs = f
    BY <2>6
  <2>8. NodeShape(y, K)
    BY <2>1, <2>5, <2>6, <2>7 DEF NodeShape
  <2>9. ASSUME NEW l \in 0 .. b PROVE ListOK(g, s, l, y.nbrs[l])
    <3> DEFINE list == d[l]
               o == Only(list, kept)
    <3>1. ListOK(g, s, l, list) /\ y.nbrs[l] = o
      BY <2>4, <2>5, <2>7
    <3> HIDE DEF list
    <3>2. list \in Seq(D) /\ Len(list) <= connectivity_max(l) /\ IsInjective(list)
          /\ \A i \in DOMAIN list : list[i] # s /\ g.nodes[list[i]].level >= l
      BY <3>1 DEF ListOK
    <3>3. /\ o \in Seq(D) /\ Len(o) <= Len(list) /\ ToSet(o) = ToSet(list) \intersect kept
          /\ IsInjective(list) => IsInjective(o)
      BY <3>2, OnlySeqFacts
    <3> HIDE DEF o
    <3>4. Len(o) <= connectivity_max(l)
      <4>1. connectivity_max(l) \in Nat
        BY <2>1, GraphAssumption DEF connectivity_max
      <4> QED BY <4>1, <3>2, <3>3, LenProperties
    <3>5. \A i \in DOMAIN o : o[i] # s /\ g.nodes[o[i]].level >= l
      <4> SUFFICES ASSUME NEW i \in DOMAIN o PROVE o[i] # s /\ g.nodes[o[i]].level >= l
        OBVIOUS
      <4>1. o[i] \in ToSet(list)
        BY <3>3 DEF ToSet
      <4>2. PICK j \in DOMAIN list : o[i] = list[j]
        BY <4>1 DEF ToSet
      <4> QED BY <4>2, <3>2
    <3>6. ListOK(g, s, l, o)
      BY <3>2, <3>3, <3>4, <3>5 DEF ListOK
    <3> QED BY <3>1, <3>6
  <2> QED BY <2>7, <2>8, <2>9 DEF a, b, c, x, y
<1>4. FunOn(X, D) /\ DOMAIN X = D
  BY DEF FunOn
<1> HIDE DEF X
<1>5. NodesOK(h, K) /\ h.nodes = X /\ h.entry = g.entry /\ h.max_level = g.max_level /\ Size(h) = Size(g)
  <2>1. \A s \in DOMAIN g.nodes : NodeShape(X[s], K) /\ X[s].level = g.nodes[s].level
    BY <1>3
  <2>2. \A s \in DOMAIN g.nodes : \A l \in 0 .. g.nodes[s].level : ListOK(g, s, l, X[s].nbrs[l])
    BY <1>3
  <2>3. FunOn(X, DOMAIN g.nodes)
    BY <1>4
  <2> QED BY <1>1, <1>2, <2>1, <2>2, <2>3, Renewed, SMTT(30)
<1>6. SameNodes(g, h)
  BY <1>3, <1>4, <1>5 DEF SameNodes
<1>7. EntryOK(h)
  BY <1>2, <1>6, SameEntry
<1> QED BY <1>5, <1>6, <1>7 DEF GraphOK, h

\* What a search answers: candidates that are not freed, none twice, closest first.
LEMMA SearchFacts ==
  ASSUME NEW K, NEW g, GraphOK(g, K), NEW q \in Int, NEW wanted \in Nat
  PROVE  TopOK(g, q, DOMAIN g.nodes, Freed(g), search(g, q, wanted))
<1> DEFINE D == DOMAIN g.nodes
           start == search_for_one_(g, q, g.entry, g.max_level, 0)
           limit == Max({ExpansionSearch, wanted})
           top == search_to_find_in_base_(g, q, start, limit)
           found == SubSeq(top, 1, Min({wanted, Len(top)}))
           r == search(g, q, wanted)
<1>1. r = IF wanted = 0 \/ Size(g) = 0 THEN <<>> ELSE found
  BY DEF search
<1> HIDE DEF r
<1>2. CASE wanted = 0 \/ Size(g) = 0
  <2>1. r = <<>>
    BY <1>1, <1>2
  <2>2. TopOK(g, q, D, Freed(g), r)
    BY <2>1 DEF TopOK, IsInjective, Closest1st
  <2> QED BY <2>2 DEF r
<1>3. CASE ~ (wanted = 0 \/ Size(g) = 0)
  <2>1. NodesOK(g, K) /\ g.entry \in D /\ g.max_level = g.nodes[g.entry].level
    BY <1>3 DEF GraphOK, EntryOK, NodesOK
  <2>2. g.max_level \in Nat /\ \A s \in D : g.nodes[s].level \in Nat
    BY <2>1 DEF NodesOK, NodeShape
  <2>3. Above(g, D, 0) = D
    BY <2>2 DEF Above
  <2>4. start \in D
    <3> DEFINE t == g.max_level
               e == g.entry
    <3>1. t \in Nat /\ e \in Above(g, D, t) /\ (t <= 0 => t = 0)
      BY <2>1, <2>2 DEF Above
    <3>2. \A l \in Int : 0 < l /\ l <= t => Within(g, Above(g, D, l), l)
      BY <2>1, <2>2, WholeWithin
    <3> HIDE DEF t, e
    <3>3. search_for_one_(g, q, e, t, 0) \in Above(g, D, IF t <= 0 THEN t ELSE 0)
      BY <2>1, <3>1, <3>2, DescentFacts
    <3>4. search_for_one_(g, q, e, t, 0) \in Above(g, D, 0)
      BY <3>1, <3>3
    <3> QED BY <3>4, <2>3 DEF t, e
  <2>5. Within(g, D, 0)
    BY <2>1, <2>3, WholeWithin
  <2>6. limit \in Nat
    <3> DEFINE S == {ExpansionSearch, wanted}
    <3>1. ExpansionSearch \in Nat
      BY GraphAssumption
    <3>2. \E m \in S : \A x \in S : m >= x
      <4>1. ExpansionSearch >= wanted \/ wanted >= ExpansionSearch
        BY <3>1
      <4> QED BY <3>1, <4>1
    <3>3. Max(S) \in S
      BY <3>2, Zenon DEF Max
    <3> QED BY <3>1, <3>3
  <2> HIDE DEF start, limit
  <2>7. TopOK(g, q, D, Freed(g), top)
    BY <2>1, <2>4, <2>5, <2>6, TraverseFromFacts DEF search_to_find_in_base_
  <2> HIDE DEF top
  <2>8. top \in Seq(Cand(g, q, D)) /\ IsInjective(top) /\ Closest1st(top) /\ (\A i \in DOMAIN top : top[i].slot \in D \ Freed(g))
        /\ Len(top) \in Nat /\ DOMAIN top = 1 .. Len(top) /\ \A i \in 1 .. Len(top) : top[i] \in Cand(g, q, D)
    BY <2>7, LenProperties, ElementOfSeq DEF TopOK
  <2> DEFINE m == Min({wanted, Len(top)})
  <2>9. m \in Nat /\ m <= Len(top)
    BY <2>8, MinOfTwo
  <2> HIDE DEF m
  <2>10. r = SubSeq(top, 1, m)
    BY <1>1, <1>3 DEF m
  <2>11. \A i \in 1 .. m : i \in 1 .. Len(top) /\ top[i] \in Cand(g, q, D)
    BY <2>8, <2>9
  <2>12. /\ r \in Seq(Cand(g, q, D))
         /\ Len(r) = IF 1 <= m THEN m - 1 + 1 ELSE 0
         /\ \A i \in 1 .. m - 1 + 1 : r[i] = top[1 + i - 1]
    BY <2>9, <2>10, <2>11, SubSeqProperties
  <2>13. DOMAIN r = 1 .. m /\ \A i \in 1 .. m : r[i] = top[i]
    <3>1. Len(r) = m /\ \A i \in 1 .. m : i \in 1 .. m - 1 + 1 /\ 1 + i - 1 = i
      BY <2>9, <2>12
    <3> QED BY <2>12, <3>1, LenProperties
  <2>14. IsInjective(r) /\ Closest1st(r) /\ \A i \in DOMAIN r : r[i].slot \in D \ Freed(g)
    BY <2>8, <2>11, <2>13 DEF IsInjective, Closest1st
  <2>15. TopOK(g, q, D, Freed(g), r)
    BY <2>12, <2>14 DEF TopOK
  <2> QED BY <2>15 DEF r
<1> QED BY <1>2, <1>3

\* An order of the slots of g: each of them once.
IsOrder(g, order) ==
  /\ order \in [1 .. Size(g) -> 0 .. Size(g) - 1]
  /\ \A i, j \in 1 .. Size(g) : order[i] = order[j] => i = j
  /\ \A s \in 0 .. Size(g) - 1 : \E i \in 1 .. Size(g) : order[i] = s

LEMMA OrderFacts ==
  ASSUME NEW K, NEW g, GraphOK(g, K), NEW order \in CompactOrders(g)
  PROVE  IsOrder(g, order)
<1> DEFINE n == Size(g)
           D == DOMAIN g.nodes
<1>1. D = 0 .. n - 1
  BY DEF GraphOK, NodesOK
<1>2. order \in Bijection(1 .. n, D)
  BY DEF CompactOrders
<1> HIDE DEF n, D
<1>3. order \in [1 .. n -> D] /\ IsInjective(order) /\ \A x \in D : \E i \in 1 .. n : order[i] = x
  BY <1>2 DEF Bijection, Injection, Surjection
<1>4. \A i, j \in 1 .. n : order[i] = order[j] => i = j
  BY <1>3 DEF IsInjective
<1> QED BY <1>1, <1>3, <1>4 DEF IsOrder, n

\* Compaction moves every node, with its key and vector, to its place in the order.
LEMMA CompactFacts ==
  ASSUME NEW K, NEW g, GraphOK(g, K), NEW order, IsOrder(g, order),
         NEW h, h = compact(g, order)
  PROVE  /\ GraphOK(h, K) /\ Size(h) = Size(g) /\ DOMAIN h.nodes = DOMAIN g.nodes
         /\ \A s \in DOMAIN g.nodes : /\ h.nodes[s].key = g.nodes[order[s + 1]].key
                                      /\ h.nodes[s].vec = g.nodes[order[s + 1]].vec
<1> DEFINE n == Size(g)
           D == DOMAIN g.nodes
           New(old) == (CHOOSE i \in DOMAIN order : order[i] = old) - 1
           Links(x) == [l \in DOMAIN x.nbrs |-> [i \in DOMAIN x.nbrs[l] |-> New(x.nbrs[l][i])]]
           Moved(x) == [x EXCEPT !.nbrs = Links(x)]
           X == [s \in D |-> Moved(g.nodes[order[s + 1]])]
           b == IF n = 0 THEN g.entry ELSE New(g.entry)
           c == g.max_level
<1>1. NodesOK(g, K) /\ n \in Nat /\ D = 0 .. n - 1 /\ EntryOK(g) /\ (\A s \in D : NodeShape(g.nodes[s], K))
  BY DEF GraphOK, NodesOK
<1>2. h = [nodes |-> X, entry |-> b, max_level |-> c]
  <2> DEFINE a == g.nodes
             e == g.entry
  <2>1. g = [nodes |-> a, entry |-> e, max_level |-> c]
    BY <1>1 DEF NodesOK
  <2>2. h = [g EXCEPT !.nodes = X, !.entry = IF n = 0 THEN @ ELSE New(@)]
    BY DEF compact
  <2>3. h = [g EXCEPT !.nodes = X, !.entry = b]
    <3> HIDE DEF X, c, n, a
    <3> QED BY <2>1, <2>2
  <2> HIDE DEF a, e, c, X, b
  <2> QED BY <2>1, <2>3
<1> HIDE DEF n
<1>3. ASSUME NEW s \in D
      PROVE  New(s) \in D /\ order[New(s) + 1] = s
  <2> DEFINE i == CHOOSE j \in DOMAIN order : order[j] = s
  <2>1. \E j \in DOMAIN order : order[j] = s
    BY <1>1 DEF IsOrder, n
  <2>2. i \in DOMAIN order /\ order[i] = s
    BY <2>1, Zenon
  <2>3. i \in 1 .. n
    BY <2>2 DEF IsOrder, n
  <2>4. New(s) = i - 1
    OBVIOUS
  <2> HIDE DEF i, New
  <2>5. New(s) + 1 = i /\ New(s) \in 0 .. n - 1
    BY <1>1, <2>3, <2>4
  <2> QED BY <1>1, <2>2, <2>5
<1>4. ASSUME NEW s \in D
      PROVE  order[s + 1] \in D /\ s + 1 \in 1 .. n
  BY <1>1 DEF IsOrder, n
<1>10. \A s \in D : \A t \in D : New(t) = s => t = order[s + 1]
  BY <1>3
<1> HIDE DEF New
<1>5. ASSUME NEW s \in D
      PROVE  LET x == g.nodes[order[s + 1]]
             IN  /\ NodeShape(X[s], K) /\ X[s].key = x.key /\ X[s].level = x.level /\ X[s].vec = x.vec
                 /\ \A l \in 0 .. x.level : X[s].nbrs[l] = [i \in DOMAIN x.nbrs[l] |-> New(x.nbrs[l][i])]
  <2> DEFINE x == g.nodes[order[s + 1]]
             f == Links(x)
             y == X[s]
             a1 == x.key
             b1 == x.level
             c1 == x.vec
             d1 == x.nbrs
  <2>1. x = [key |-> a1, level |-> b1, vec |-> c1, nbrs |-> d1] /\ a1 \in K /\ b1 \in Nat /\ c1 \in Int /\ d1 = [l \in 0 .. b1 |-> d1[l]]
    BY <1>1, <1>4 DEF NodeShape
  <2>2. y = [x EXCEPT !.nbrs = f]
    OBVIOUS
  <2>3. f = [l \in DOMAIN d1 |-> [i \in DOMAIN d1[l] |-> New(d1[l][i])]]
    OBVIOUS
  <2> HIDE DEF x, f, y, a1, b1, c1, d1
  <2>5. f = [l \in 0 .. b1 |-> f[l]] /\ \A l \in 0 .. b1 : f[l] = [i \in DOMAIN d1[l] |-> New(d1[l][i])]
    BY <2>1, <2>3
  <2>6. y = [key |-> a1, level |-> b1, vec |-> c1, nbrs |-> f]
    BY <2>1, <2>2
  <2>7. y.key = a1 /\ y.level = b1 /\ y.vec = c1 /\ y.nbrs = f
    BY <2>6
  <2>8. NodeShape(y, K)
    BY <2>1, <2>5, <2>6, <2>7 DEF NodeShape
  <2> QED BY <2>5, <2>7, <2>8 DEF a1, b1, c1, d1, x, y
<1>6. DOMAIN X = D /\ FunOn(X, D)
  BY DEF FunOn
<1> HIDE DEF X, b, c
<1>7. h.nodes = X /\ h.entry = b /\ h.max_level = c /\ h = [nodes |-> h.nodes, entry |-> h.entry, max_level |-> h.max_level]
  <2>1. h.nodes = X /\ h.entry = b /\ h.max_level = c
    BY <1>2
  <2> QED BY <1>2, <2>1
<1>8. Size(h) = n /\ DOMAIN h.nodes = D
  BY <1>6, <1>7 DEF Size, n
<1>9. ASSUME NEW s \in D, NEW l \in 0 .. h.nodes[s].level
      PROVE  ListOK(h, s, l, h.nodes[s].nbrs[l])
  <2> DEFINE o == order[s + 1]
             list == g.nodes[o].nbrs[l]
             r == h.nodes[s].nbrs[l]
  <2>1. o \in D /\ l \in 0 .. g.nodes[o].level /\ r = [i \in DOMAIN list |-> New(list[i])]
    BY <1>4, <1>5, <1>7, <1>9
  <2>2. ListOK(g, o, l, list)
    BY <1>1, <2>1 DEF NodesOK, n
  <2>9. o = order[s + 1]
    OBVIOUS
  <2> HIDE DEF o, list, r
  <2>3. list \in Seq(D) /\ Len(list) \in Nat /\ DOMAIN list = 1 .. Len(list) /\ IsInjective(list) /\ Len(list) <= connectivity_max(l)
        /\ \A i \in 1 .. Len(list) : list[i] \in D /\ list[i] # o /\ g.nodes[list[i]].level >= l
    BY <2>2, LenProperties, ElementOfSeq DEF ListOK
  <2>4. r = [i \in 1 .. Len(list) |-> New(list[i])]
    BY <2>1, <2>3
  <2>5. \A i \in 1 .. Len(list) : r[i] = New(list[i]) /\ r[i] \in D /\ order[r[i] + 1] = list[i]
    BY <2>3, <2>4, <1>3
  <2>6. r \in Seq(D) /\ Len(r) = Len(list) /\ DOMAIN r = 1 .. Len(list)
    <3> DEFINE E == D
    <3>1. \A i \in 1 .. Len(list) : New(list[i]) \in E
      BY <2>5
    <3> HIDE DEF E
    <3>2. r \in Seq(E) /\ Len(r) = Len(list) /\ DOMAIN r = 1 .. Len(list)
      BY <2>3, <2>4, <3>1
    <3> QED BY <3>2 DEF E
  <2>7. IsInjective(r)
    BY <2>3, <2>5, <2>6 DEF IsInjective
  <2>8. \A i \in DOMAIN r : r[i] # s /\ h.nodes[r[i]].level >= l
    <3> SUFFICES ASSUME NEW i \in 1 .. Len(list) PROVE r[i] # s /\ h.nodes[r[i]].level >= l
      BY <2>6
    <3>1. r[i] # s
      BY <2>3, <2>5, <2>9
    <3>2. h.nodes[r[i]].level = g.nodes[list[i]].level
      BY <2>5, <1>5, <1>7
    <3> QED BY <3>1, <3>2, <2>3
  <2>10. ListOK(h, s, l, r)
    BY <2>3, <2>6, <2>7, <2>8, <1>8 DEF ListOK
  <2> QED BY <2>10 DEF r
<1>11. NodesOK(h, K)
  <2>1. Size(h) \in Nat /\ 0 .. Size(h) - 1 = D
    BY <1>1, <1>8
  <2>2. h.nodes = [s \in D |-> h.nodes[s]]
    BY <1>6, <1>7 DEF FunOn
  <2>3. \A s \in D : NodeShape(h.nodes[s], K)
    BY <1>5, <1>7
  <2> HIDE DEF D
  <2> QED BY <1>7, <1>9, <2>1, <2>2, <2>3 DEF NodesOK
<1>12. EntryOK(h)
  <2> SUFFICES ASSUME n > 0
               PROVE  /\ h.entry \in D /\ h.max_level = h.nodes[h.entry].level
                      /\ \A s \in D : h.nodes[s].level <= h.max_level
    BY <1>8 DEF EntryOK
  <2>1. g.entry \in D /\ g.max_level = g.nodes[g.entry].level /\ \A s \in D : g.nodes[s].level <= g.max_level
    BY <1>1 DEF EntryOK, n
  <2>2. h.entry = New(g.entry) /\ h.max_level = g.max_level
    BY <1>1, <1>7 DEF b, c
  <2>3. h.entry \in D /\ order[h.entry + 1] = g.entry
    BY <2>1, <2>2, <1>3
  <2>4. \A s \in D : h.nodes[s].level = g.nodes[order[s + 1]].level /\ order[s + 1] \in D
    BY <1>4, <1>5, <1>7
  <2> QED BY <2>1, <2>2, <2>3, <2>4
<1>13. \A s \in D : h.nodes[s].key = g.nodes[order[s + 1]].key /\ h.nodes[s].vec = g.nodes[order[s + 1]].vec
  BY <1>5, <1>7
<1> QED BY <1>8, <1>11, <1>12, <1>13 DEF GraphOK, n

(* The vector index: what holds of its graph, its lookup table and its free ring. *)

NodeKeys == Keys \union {FreeKey}
CellKeys == Keys \union {0}

\* Whatever was written to a wrong slot: the three stay usable.
Usable(g, t, free) ==
  /\ GraphOK(g, NodeKeys)
  /\ Table(t, CellKeys) /\ ProbeReachable(t)
  /\ \A c \in LiveCells(t) : t[c].slot \in DOMAIN g.nodes
  /\ free \in Seq(DOMAIN g.nodes)

\* As long as no write went to a wrong slot: the nodes hold the content, and the
\* lookup one entry for each present key, of the right slot or not.
Good(g, t, c) ==
  /\ Faithful(g, c)
  /\ OnePerKey(t)
  /\ \A k \in Keys : CellsOf(t, k) # {} <=> c[k] # None

\* As long as no node moved either: entries, free ring and marks agree.
Agree(g, t, free) ==
  /\ Entries(t) = {<<g.nodes[s].key, s>> : s \in DOMAIN g.nodes \ Freed(g)}
  /\ ToSet(free) = Freed(g) /\ IsInjective(free)

IndexShape(ix) ==
  ix = [graph |-> ix.graph, lookup |-> ix.lookup, free |-> ix.free,
        capacity |-> ix.capacity, buffer |-> ix.buffer, deleted |-> ix.deleted]

HistoryShape(h) ==
  /\ h = [stale |-> h.stale, lost |-> h.lost, drift |-> h.drift]
  /\ h.stale \in BOOLEAN /\ h.lost \in BOOLEAN

LEMMA EmptyGraphFacts ==
  ASSUME NEW K
  PROVE  GraphOK(EmptyGraph, K) /\ Size(EmptyGraph) = 0 /\ DOMAIN EmptyGraph.nodes = {}
<1> DEFINE g == EmptyGraph
<1>1. g.nodes = [s \in {} |-> 0] /\ g.entry = 0 /\ g.max_level = -1
      /\ g = [nodes |-> g.nodes, entry |-> g.entry, max_level |-> g.max_level]
  BY DEF EmptyGraph
<1> HIDE DEF g
<1>2. DOMAIN g.nodes = {}
  BY <1>1
<1>3. Size(g) = 0
  BY <1>2, FS_EmptySet DEF Size
<1>4. 0 .. Size(g) - 1 = {}
  BY <1>3
<1>5. NodesOK(g, K)
  BY <1>1, <1>3, <1>4 DEF NodesOK
<1>6. EntryOK(g)
  BY <1>3 DEF EntryOK
<1> QED BY <1>2, <1>3, <1>5, <1>6 DEF GraphOK, g

LEMMA KeyAssumptions ==
  /\ NodeKeys = Keys \union {FreeKey} /\ FreeKey \in NodeKeys /\ FreeKey \notin Keys
  /\ CellKeys \in SUBSET Nat /\ 0 \in CellKeys
  /\ \A k \in Keys : k \in NodeKeys /\ k \in CellKeys /\ k \in Nat /\ k # FreeKey
  BY IndexAssumption DEF NodeKeys, CellKeys

\* The cells of a key are the entries that hold it.
LEMMA CellsEntries ==
  ASSUME NEW t, NEW k
  PROVE  CellsOf(t, k) # {} <=> \E s : <<k, s>> \in Entries(t)
<1>1. ASSUME CellsOf(t, k) # {} PROVE \E s : <<k, s>> \in Entries(t)
  <2>1. PICK c \in DOMAIN t : t[c].use = "live" /\ t[c].key = k
    BY <1>1 DEF CellsOf, HoldsKey
  <2>2. c \in LiveCells(t)
    BY <2>1 DEF LiveCells
  <2>3. <<k, t[c].slot>> \in Entries(t)
    BY <2>1, <2>2 DEF Entries
  <2> QED BY <2>3
<1>2. ASSUME NEW s, <<k, s>> \in Entries(t) PROVE CellsOf(t, k) # {}
  <2>1. PICK c \in LiveCells(t) : <<k, s>> = <<t[c].key, t[c].slot>>
    BY <1>2 DEF Entries
  <2>2. c \in CellsOf(t, k)
    BY <2>1 DEF LiveCells, CellsOf, HoldsKey
  <2> QED BY <2>2
<1> QED BY <1>1, <1>2

\* The entries of a table whose cells have slots.
LEMMA EntriesSlots ==
  ASSUME NEW K, NEW t, Table(t, K), NEW D
  PROVE  (\A c \in LiveCells(t) : t[c].slot \in D) <=> (\A e \in Entries(t) : e[2] \in D)
<1>1. \A c \in LiveCells(t) : <<t[c].key, t[c].slot>> \in Entries(t)
  BY DEF Entries
<1>2. ASSUME \A e \in Entries(t) : e[2] \in D, NEW c \in LiveCells(t) PROVE t[c].slot \in D
  <2>1. <<t[c].key, t[c].slot>>[2] \in D
    BY <1>1, <1>2
  <2> QED BY <2>1
<1>3. ASSUME \A c \in LiveCells(t) : t[c].slot \in D, NEW e \in Entries(t) PROVE e[2] \in D
  <2>1. PICK c \in LiveCells(t) : e = <<t[c].key, t[c].slot>>
    BY <1>3 DEF Entries
  <2> QED BY <2>1, <1>3
<1> QED BY <1>2, <1>3

-----------------------------------------------------------------------------
(* remove *)

\* The graph after the nodes in F lost their key.
Marked(g, F) ==
  [g EXCEPT !.nodes = [s \in DOMAIN g.nodes |-> IF s \in F THEN [g.nodes[s] EXCEPT !.key = FreeKey]
                                                           ELSE g.nodes[s]]]

LEMMA MarkedFacts ==
  ASSUME NEW K, FreeKey \in K, NEW g, GraphOK(g, K), NEW F,
         NEW h, h = Marked(g, F)
  PROVE  /\ GraphOK(h, K) /\ DOMAIN h.nodes = DOMAIN g.nodes /\ Size(h) = Size(g)
         /\ \A s \in DOMAIN g.nodes : /\ h.nodes[s].vec = g.nodes[s].vec
                                      /\ h.nodes[s].key = IF s \in F THEN FreeKey ELSE g.nodes[s].key
<1> DEFINE D == DOMAIN g.nodes
           X == [s \in D |-> IF s \in F THEN [g.nodes[s] EXCEPT !.key = FreeKey] ELSE g.nodes[s]]
<1>1. h = [g EXCEPT !.nodes = X]
  BY DEF Marked
<1>2. NodesOK(g, K) /\ EntryOK(g) /\ D = 0 .. Size(g) - 1 /\ \A s \in D : NodeShape(g.nodes[s], K)
  BY DEF GraphOK, NodesOK
<1>3. ASSUME NEW s \in D
      PROVE  /\ NodeShape(X[s], K) /\ X[s].level = g.nodes[s].level /\ X[s].vec = g.nodes[s].vec
             /\ X[s].nbrs = g.nodes[s].nbrs /\ X[s].key = IF s \in F THEN FreeKey ELSE g.nodes[s].key
  <2> DEFINE x == g.nodes[s]
             y == X[s]
             a == x.key
             b == x.level
             c == x.vec
             d == x.nbrs
  <2>1. x = [key |-> a, level |-> b, vec |-> c, nbrs |-> d] /\ a \in K /\ b \in Nat /\ c \in Int /\ d = [l \in 0 .. b |-> d[l]]
        /\ NodeShape(x, K)
    BY <1>2 DEF NodeShape
  <2>2. y = IF s \in F THEN [x EXCEPT !.key = FreeKey] ELSE x
    OBVIOUS
  <2> HIDE DEF X, x, y, a, b, c, d
  <2>3. CASE s \in F
    <3>1. y = [key |-> FreeKey, level |-> b, vec |-> c, nbrs |-> d]
      BY <2>1, <2>2, <2>3
    <3>2. y.key = FreeKey /\ y.level = b /\ y.vec = c /\ y.nbrs = d
      BY <3>1
    <3>3. NodeShape(y, K)
      BY <2>1, <3>1, <3>2 DEF NodeShape
    <3> QED BY <2>3, <3>2, <3>3 DEF b, c, d, x, y
  <2>4. CASE s \notin F
    <3>1. y = x
      BY <2>2, <2>4
    <3> QED BY <2>1, <2>4, <3>1 DEF x, y
  <2> QED BY <2>3, <2>4
<1>4. FunOn(X, D) /\ DOMAIN X = D
  BY DEF FunOn
<1> HIDE DEF X
<1>5. NodesOK(h, K) /\ h.nodes = X /\ h.entry = g.entry /\ h.max_level = g.max_level /\ Size(h) = Size(g)
  <2>1. \A s \in DOMAIN g.nodes : NodeShape(X[s], K) /\ X[s].level = g.nodes[s].level
    BY <1>3
  <2>2. \A s \in DOMAIN g.nodes : \A l \in 0 .. g.nodes[s].level : ListOK(g, s, l, X[s].nbrs[l])
    BY <1>2, <1>3 DEF NodesOK
  <2>3. FunOn(X, DOMAIN g.nodes)
    BY <1>4
  <2>4. NodesOK(g, K)
    BY <1>2
  <2> HIDE DEF D
  <2> QED BY <1>1, <2>1, <2>2, <2>3, <2>4, Renewed
<1>6. EntryOK(h)
  BY <1>2, <1>3, <1>4, <1>5 DEF EntryOK
<1> QED BY <1>3, <1>4, <1>5, <1>6 DEF GraphOK

\* The slots that removing a key frees.
SlotsOf(t, k) == [i \in DOMAIN equal_range(t, k).cells |-> t[equal_range(t, k).cells[i]].slot]

\* Of a key with one cell, the slots to remove are the one of that cell, or none.
LEMMA RemovedSlots ==
  ASSUME NEW g, NEW t, NEW free, Usable(g, t, free), NEW k \in Keys, NEW slots,
         slots = SlotsOf(t, k)
  PROVE  /\ slots \in Seq(DOMAIN g.nodes)
         /\ slots # <<>> => ToSet(slots) = {t[c].slot : c \in CellsOf(t, k)}
         /\ slots # <<>> /\ OnePerKey(t) => \E c \in LiveCells(t) :
              CellsOf(t, k) = {c} /\ slots = <<t[c].slot>> /\ t[c].key = k
<1> DEFINE m == Matches(t, k)
           cells == equal_range(t, k).cells
<1>1. /\ m \in Seq(DOMAIN t) /\ IsInjective(m) /\ ToSet(m) = CellsOf(t, k)
  BY KeyAssumptions, MatchesFacts DEF Usable
<1>2. cells = <<>> \/ cells = m
  BY DEF equal_range
<1> HIDE DEF m, cells
<1>3. slots = [i \in DOMAIN cells |-> t[cells[i]].slot]
  BY DEF cells, SlotsOf
<1>4. Len(m) \in Nat /\ DOMAIN m = 1 .. Len(m) /\ \A i \in 1 .. Len(m) : m[i] \in DOMAIN t /\ m[i] \in CellsOf(t, k)
  BY <1>1, LenProperties, ElementOfSeq DEF ToSet
<1>5. \A c \in CellsOf(t, k) : c \in LiveCells(t) /\ t[c].key = k /\ t[c].slot \in DOMAIN g.nodes
  BY DEF CellsOf, HoldsKey, LiveCells, Usable
<1>6. CASE cells = <<>>
  <2>1. slots = <<>>
    BY <1>3, <1>6
  <2> QED BY <2>1
<1>7. CASE cells = m
  <2>1. slots = [i \in 1 .. Len(m) |-> t[m[i]].slot]
    BY <1>3, <1>4, <1>7
  <2>2. slots \in Seq(DOMAIN g.nodes) /\ Len(slots) = Len(m) /\ DOMAIN slots = 1 .. Len(m)
    <3> DEFINE E == DOMAIN g.nodes
    <3>1. \A i \in 1 .. Len(m) : t[m[i]].slot \in E
      BY <1>4, <1>5
    <3> HIDE DEF E
    <3>2. slots \in Seq(E) /\ Len(slots) = Len(m) /\ DOMAIN slots = 1 .. Len(m)
      BY <1>4, <2>1, <3>1
    <3> QED BY <3>2 DEF E
  <2>3. ToSet(slots) = {t[c].slot : c \in CellsOf(t, k)}
    <3>1. \A c \in CellsOf(t, k) : \E i \in 1 .. Len(m) : m[i] = c
      BY <1>1, <1>4 DEF ToSet
    <3>2. \A x \in ToSet(slots) : \E c \in CellsOf(t, k) : x = t[c].slot
      BY <2>1, <2>2, <1>4 DEF ToSet
    <3>3. \A c \in CellsOf(t, k) : t[c].slot \in ToSet(slots)
      BY <3>1, <2>1, <2>2 DEF ToSet
    <3> QED BY <3>2, <3>3
  <2>4. ASSUME slots # <<>>, OnePerKey(t)
        PROVE  \E c \in LiveCells(t) : CellsOf(t, k) = {c} /\ slots = <<t[c].slot>> /\ t[c].key = k
    <3>1. 1 \in 1 .. Len(m)
      BY <2>2, <2>4, <1>4
    <3> DEFINE c == m[1]
    <3>2. c \in CellsOf(t, k) /\ c \in LiveCells(t) /\ t[c].key = k
      BY <3>1, <1>4, <1>5
    <3>3. \A d \in CellsOf(t, k) : d = c
      BY <3>2, <2>4, <1>5 DEF OnePerKey
    <3>4. CellsOf(t, k) = {c}
      BY <3>2, <3>3
    <3>5. Len(m) = 1
      <4> SUFFICES ASSUME Len(m) # 1 PROVE FALSE
        OBVIOUS
      <4>1. 2 \in 1 .. Len(m)
        BY <1>4, <3>1
      <4>2. m[2] = m[1]
        BY <4>1, <1>4, <3>3
      <4> QED BY <4>1, <4>2, <3>1, <1>1, <1>4 DEF IsInjective
    <3>6. slots = <<t[c].slot>>
      BY <2>1, <3>5
    <3> QED BY <3>2, <3>4, <3>6
  <2> QED BY <2>2, <2>3, <2>4
<1> QED BY <1>2, <1>6, <1>7

\* What removing does to graph, table and ring.
RemovesSlots(g, t, free, k, slots, g1, t1, free1) ==
  /\ slots # <<>> /\ slots = SlotsOf(t, k)
  /\ g1 = Marked(g, ToSet(slots)) /\ t1 = erase(t, k) /\ free1 = free \o slots

RemovesKey(ix, k, r) ==
  /\ r.slots \in Seq(DOMAIN ix.graph.nodes)
  /\ IndexShape(r.ix) /\ r.ix.deleted = ix.deleted
  /\ r.slots = <<>> => r.ix = ix
  /\ r.slots # <<>> => RemovesSlots(ix.graph, ix.lookup, ix.free, k, r.slots, r.ix.graph, r.ix.lookup, r.ix.free)

LEMMA RemoveShape ==
  ASSUME NEW ix, IndexShape(ix), Usable(ix.graph, ix.lookup, ix.free), NEW k \in Keys
  PROVE  RemovesKey(ix, k, remove(ix, k))
<1> DEFINE r == remove(ix, k)
           g == ix.graph
           t == ix.lookup
           free == ix.free
           slots == SlotsOf(t, k)
           g1 == Marked(g, ToSet(slots))
           e == erase(t, k)
           new == [ix EXCEPT !.free = push(@, slots), !.lookup = erase(@, k),
                      !.graph.nodes = [s \in DOMAIN @ |-> IF s \in ToSet(slots) THEN [g.nodes[s] EXCEPT !.key = FreeKey]
                                                            ELSE g.nodes[s]]]
<1>1. r = [ends |-> equal_range(t, k).ends, slots |-> slots, ix |-> IF slots = <<>> THEN ix ELSE new]
  BY DEF remove, SlotsOf
<1>2. slots \in Seq(DOMAIN g.nodes)
  <2> DEFINE s == slots
             tt == t
             gg == g
             ff == free
  <2>1. s = SlotsOf(tt, k) /\ Usable(gg, tt, ff)
    OBVIOUS
  <2> HIDE DEF s, tt, gg, ff
  <2>3. s \in Seq(DOMAIN gg.nodes)
    BY <2>1, RemovedSlots
  <2> QED BY <2>3 DEF s, tt, gg, ff
<1>3. new = [ix EXCEPT !.free = free \o slots, !.lookup = e, !.graph = g1]
  <2> DEFINE a == ix.capacity
             b == ix.buffer
             c == ix.deleted
  <2>1. ix = [graph |-> g, lookup |-> t, free |-> free, capacity |-> a, buffer |-> b, deleted |-> c]
    BY DEF IndexShape
  <2> HIDE DEF slots
  <2> QED BY <2>1 DEF Marked, push
<1> HIDE DEF new, slots, g1, e, r
<1>4. /\ new.graph = g1 /\ new.lookup = e /\ new.free = free \o slots /\ new.deleted = ix.deleted
      /\ IndexShape(new)
  BY <1>3 DEF IndexShape
<1>5. r.slots = slots /\ r.ix = IF slots = <<>> THEN ix ELSE new
  BY <1>1
<1> QED BY <1>2, <1>4, <1>5 DEF RemovesKey, RemovesSlots, slots, g1, e, r

LEMMA EraseEntries ==
  ASSUME NEW K \in SUBSET Nat, NEW t, Table(t, K), ProbeReachable(t), NEW k \in Nat, NEW e, e = erase(t, k)
  PROVE  /\ \A x, y : <<x, y>> \in Entries(e) <=> <<x, y>> \in Entries(t) /\ x # k
         /\ OnePerKey(t) => OnePerKey(e)
<1>1. (\A c : c \in LiveCells(e) <=> c \in LiveCells(t) /\ t[c].key # k) /\ \A c \in LiveCells(e) : e[c] = t[c]
  <2>1. CellsBut(e, t, k)
    BY EraseFacts
  <2> QED BY <2>1 DEF CellsBut
<1>2. ASSUME NEW x, NEW y, <<x, y>> \in Entries(e) PROVE <<x, y>> \in Entries(t) /\ x # k
  <2>1. PICK c \in LiveCells(e) : <<x, y>> = <<e[c].key, e[c].slot>>
    BY <1>2 DEF Entries
  <2>2. c \in LiveCells(t) /\ <<x, y>> = <<t[c].key, t[c].slot>> /\ t[c].key # k
    BY <2>1, <1>1
  <2> QED BY <2>2 DEF Entries
<1>3. ASSUME NEW x, NEW y, <<x, y>> \in Entries(t), x # k PROVE <<x, y>> \in Entries(e)
  <2>1. PICK c \in LiveCells(t) : <<x, y>> = <<t[c].key, t[c].slot>>
    BY <1>3 DEF Entries
  <2>2. c \in LiveCells(e) /\ <<x, y>> = <<e[c].key, e[c].slot>>
    BY <2>1, <1>1, <1>3
  <2> QED BY <2>2 DEF Entries
<1>4. OnePerKey(t) => OnePerKey(e)
  BY <1>1 DEF OnePerKey
<1> QED BY <1>2, <1>3, <1>4

\* Faithful, node by node.
NodesMatch(g, c) ==
  /\ \A s \in DOMAIN g.nodes : g.nodes[s].key \in Keys => c[g.nodes[s].key] # None /\ g.nodes[s].vec = c[g.nodes[s].key]
  /\ \A s, u \in DOMAIN g.nodes : g.nodes[s].key \in Keys /\ g.nodes[s].key = g.nodes[u].key => s = u
  /\ \A k \in Keys : c[k] # None => \E s \in DOMAIN g.nodes : g.nodes[s].key = k

LEMMA FaithfulFacts ==
  ASSUME NEW g, NEW c, Faithful(g, c)
  PROVE  NodesMatch(g, c)
<1>1. ASSUME NEW s \in DOMAIN g.nodes, g.nodes[s].key \in Keys
      PROVE  /\ c[g.nodes[s].key] # None /\ g.nodes[s].vec = c[g.nodes[s].key]
             /\ \A u \in DOMAIN g.nodes : g.nodes[s].key = g.nodes[u].key => s = u
  <2> DEFINE k == g.nodes[s].key
  <2>1. s \in NodesOf(g, k) /\ k \in Keys
    BY <1>1 DEF NodesOf
  <2>2. c[k] # None
    BY <2>1 DEF Faithful
  <2>3. PICK x \in DOMAIN g.nodes : NodesOf(g, k) = {x} /\ g.nodes[x].vec = c[k]
    BY <2>1, <2>2 DEF Faithful
  <2>4. x = s
    BY <2>1, <2>3
  <2>5. \A u \in DOMAIN g.nodes : k = g.nodes[u].key => u = s
    BY <2>3, <2>4 DEF NodesOf
  <2> QED BY <2>2, <2>3, <2>4, <2>5
<1>2. ASSUME NEW k \in Keys, c[k] # None PROVE \E s \in DOMAIN g.nodes : g.nodes[s].key = k
  <2>1. PICK x \in DOMAIN g.nodes : NodesOf(g, k) = {x}
    BY <1>2 DEF Faithful
  <2> QED BY <2>1 DEF NodesOf
<1> QED BY <1>1, <1>2 DEF NodesMatch

LEMMA FaithfulFrom ==
  ASSUME NEW g, NEW c, NodesMatch(g, c)
  PROVE  Faithful(g, c)
<1>1. ASSUME NEW k \in Keys, c[k] = None PROVE NodesOf(g, k) = {}
  BY <1>1 DEF NodesOf, NodesMatch
<1>2. ASSUME NEW k \in Keys, c[k] # None
      PROVE  \E s \in DOMAIN g.nodes : NodesOf(g, k) = {s} /\ g.nodes[s].vec = c[k]
  <2>1. PICK s \in DOMAIN g.nodes : g.nodes[s].key = k
    BY <1>2 DEF NodesMatch
  <2>2. \A u \in NodesOf(g, k) : u = s
    BY <2>1 DEF NodesOf, NodesMatch
  <2>3. s \in NodesOf(g, k)
    BY <2>1 DEF NodesOf
  <2>4. NodesOf(g, k) = {s}
    BY <2>2, <2>3
  <2> QED BY <2>1, <2>4 DEF NodesMatch
<1> QED BY <1>1, <1>2 DEF Faithful

\* Pairs of the set that LookupAgrees compares the entries with.
NodePairs(g) == {<<g.nodes[s].key, s>> : s \in DOMAIN g.nodes \ Freed(g)}

LEMMA NodePairsFacts ==
  ASSUME NEW g
  PROVE  \A x, y : <<x, y>> \in NodePairs(g) <=> y \in DOMAIN g.nodes /\ g.nodes[y].key = x /\ x # FreeKey
  BY DEF NodePairs, Freed

LEMMA SamePairs ==
  ASSUME NEW t, NEW g, \A x, y : <<x, y>> \in Entries(t) <=> <<x, y>> \in NodePairs(g)
  PROVE  Entries(t) = NodePairs(g)
<1>1. \A e \in Entries(t) : \E x, y : e = <<x, y>>
  BY DEF Entries
<1>2. \A e \in NodePairs(g) : \E x, y : e = <<x, y>>
  BY DEF NodePairs
<1> QED BY <1>1, <1>2

StaysRight(g, t, free, k, slots, g1, t1, free1) ==
  \A c \in [Keys -> Vectors \union {None}] :
    Good(g, t, c) /\ (\A i \in DOMAIN slots : g.nodes[slots[i]].key = k) =>
      /\ Good(g1, t1, [c EXCEPT ![k] = None])
      /\ Agree(g, t, free) => Agree(g1, t1, free1)

\* Removing keeps the index usable, and right as far as it was right.
LEMMA Removing ==
  ASSUME NEW g, NEW t, NEW free, Usable(g, t, free), NEW k \in Keys, NEW slots, NEW g1, NEW t1, NEW free1,
         RemovesSlots(g, t, free, k, slots, g1, t1, free1)
  PROVE  /\ Usable(g1, t1, free1) /\ CellsOf(t1, k) = {} /\ free1 # <<>>
         /\ StaysRight(g, t, free, k, slots, g1, t1, free1)
<1>0. slots # <<>> /\ slots = SlotsOf(t, k) /\ g1 = Marked(g, ToSet(slots)) /\ t1 = erase(t, k) /\ free1 = free \o slots
  BY DEF RemovesSlots
<1> DEFINE D == DOMAIN g.nodes
<1>1. /\ GraphOK(g1, NodeKeys) /\ DOMAIN g1.nodes = D /\ Size(g1) = Size(g)
      /\ \A s \in D : /\ g1.nodes[s].vec = g.nodes[s].vec
                      /\ g1.nodes[s].key = IF s \in ToSet(slots) THEN FreeKey ELSE g.nodes[s].key
  <2> DEFINE F == ToSet(slots)
             K == NodeKeys
  <2>1. FreeKey \in K /\ GraphOK(g, K) /\ g1 = Marked(g, F)
    BY <1>0, KeyAssumptions DEF Usable
  <2> HIDE DEF F, D, K
  <2>2. /\ GraphOK(g1, K) /\ DOMAIN g1.nodes = DOMAIN g.nodes /\ Size(g1) = Size(g)
        /\ \A s \in DOMAIN g.nodes : /\ g1.nodes[s].vec = g.nodes[s].vec
                                      /\ g1.nodes[s].key = IF s \in F THEN FreeKey ELSE g.nodes[s].key
    BY <2>1, MarkedFacts
  <2> QED BY <2>2 DEF F, D, K
<1>2. Table(t, CellKeys) /\ ProbeReachable(t) /\ CellKeys \in SUBSET Nat /\ k \in Nat /\ k # FreeKey
  BY KeyAssumptions DEF Usable
<1>3. Table(t1, CellKeys) /\ ProbeReachable(t1) /\ CellsOf(t1, k) = {}
  <2> HIDE DEF D
  <2>1. Table(t1, CellKeys) /\ ProbeReachable(t1)
    BY <1>0, <1>2, EraseFacts
  <2>2. CellsOf(t1, k) = {}
    BY <1>0, <1>2, EraseFacts
  <2> QED BY <2>1, <2>2
<1>4. /\ \A x, y : <<x, y>> \in Entries(t1) <=> <<x, y>> \in Entries(t) /\ x # k
      /\ OnePerKey(t) => OnePerKey(t1)
  BY <1>0, <1>2, EraseEntries
<1>5. /\ slots \in Seq(D)
      /\ OnePerKey(t) => \E c \in LiveCells(t) :
           CellsOf(t, k) = {c} /\ slots = <<t[c].slot>> /\ t[c].key = k
  BY <1>0, RemovedSlots
<1>6. free \in Seq(D)
  BY DEF Usable
<1>7. free1 \in Seq(D) /\ free1 # <<>> /\ ToSet(free1) = ToSet(free) \union ToSet(slots)
      /\ Len(free1) = Len(free) + Len(slots)
      /\ \A i \in 1 .. Len(free) + Len(slots) : free1[i] = IF i <= Len(free) THEN free[i] ELSE slots[i - Len(free)]
  <2> DEFINE E == D
  <2>0. free \in Seq(E) /\ slots \in Seq(E)
    BY <1>5, <1>6
  <2> HIDE DEF E
  <2>1. /\ free1 \in Seq(E) /\ Len(free1) = Len(free) + Len(slots)
        /\ \A i \in 1 .. Len(free) + Len(slots) : free1[i] = IF i <= Len(free) THEN free[i] ELSE slots[i - Len(free)]
    BY <1>0, <2>0, ConcatProperties
  <2>2. Len(free) \in Nat /\ Len(slots) \in Nat /\ DOMAIN free = 1 .. Len(free) /\ DOMAIN slots = 1 .. Len(slots) /\ Len(slots) # 0
        /\ DOMAIN free1 = 1 .. Len(free1)
    BY <1>0, <2>0, <2>1, LenProperties
  <2>3. free1 # <<>>
    BY <2>1, <2>2
  <2>4. ASSUME NEW x \in ToSet(free1) PROVE x \in ToSet(free) \union ToSet(slots)
    <3>1. PICK i \in 1 .. Len(free) + Len(slots) : x = free1[i]
      BY <2>1, <2>2 DEF ToSet
    <3>2. CASE i <= Len(free)
      <4>1. i \in DOMAIN free /\ x = free[i]
        BY <3>1, <3>2, <2>1, <2>2
      <4> QED BY <4>1 DEF ToSet
    <3>3. CASE ~ (i <= Len(free))
      <4>1. i - Len(free) \in 1 .. Len(slots)
        BY <3>1, <3>3, <2>2
      <4> QED BY <3>1, <3>3, <4>1, <2>1, <2>2 DEF ToSet
    <3> QED BY <3>2, <3>3
  <2>5. ASSUME NEW x \in ToSet(free) PROVE x \in ToSet(free1)
    <3>1. PICK i \in 1 .. Len(free) : x = free[i]
      BY <2>2 DEF ToSet
    <3>2. i \in 1 .. Len(free) + Len(slots) /\ i <= Len(free)
      BY <2>2
    <3> QED BY <3>1, <3>2, <2>1, <2>2 DEF ToSet
  <2>6. ASSUME NEW x \in ToSet(slots) PROVE x \in ToSet(free1)
    <3>1. PICK j \in 1 .. Len(slots) : x = slots[j]
      BY <2>2 DEF ToSet
    <3> DEFINE i == j + Len(free)
    <3>2. i \in 1 .. Len(free) + Len(slots) /\ ~ (i <= Len(free)) /\ i - Len(free) = j
      BY <2>2
    <3> HIDE DEF i
    <3> QED BY <3>1, <3>2, <2>1, <2>2 DEF ToSet
  <2>7. ToSet(free1) = ToSet(free) \union ToSet(slots)
    BY <2>4, <2>5, <2>6
  <2> QED BY <2>1, <2>3, <2>7 DEF E
<1>8. Usable(g1, t1, free1)
  <2>1. \A c \in LiveCells(t) : t[c].slot \in D
    BY DEF Usable
  <2>2. \A c \in LiveCells(t1) : t1[c].slot \in D
    <3> SUFFICES ASSUME NEW c \in LiveCells(t1) PROVE t1[c].slot \in D
      OBVIOUS
    <3>1. <<t1[c].key, t1[c].slot>> \in Entries(t)
      BY <1>4 DEF Entries
    <3>2. PICK d \in LiveCells(t) : <<t1[c].key, t1[c].slot>> = <<t[d].key, t[d].slot>>
      BY <3>1 DEF Entries
    <3> QED BY <3>2, <2>1
  <2> QED BY <1>1, <1>3, <1>7, <2>2 DEF Usable
<1>9. ASSUME NEW c \in [Keys -> Vectors \union {None}], Good(g, t, c), \A i \in DOMAIN slots : g.nodes[slots[i]].key = k
      PROVE  /\ Good(g1, t1, [c EXCEPT ![k] = None])
             /\ Agree(g, t, free) => Agree(g1, t1, free1)
  <2>1. Faithful(g, c) /\ OnePerKey(t) /\ \A x \in Keys : CellsOf(t, x) # {} <=> c[x] # None
    BY <1>9 DEF Good
  <2>2. PICK d \in LiveCells(t) : CellsOf(t, k) = {d} /\ slots = <<t[d].slot>> /\ t[d].key = k
    BY <2>1, <1>5
  <2> DEFINE s == t[d].slot
             c1 == [c EXCEPT ![k] = None]
  <2>3. ToSet(slots) = {s} /\ s \in D /\ g.nodes[s].key = k
    <3>1. slots[1] = s /\ 1 \in DOMAIN slots /\ DOMAIN slots = {1}
      BY <2>2
    <3>2. g.nodes[s].key = k
      BY <3>1, <1>9
    <3>3. ToSet(slots) = {s}
      BY <3>1 DEF ToSet
    <3>4. s \in D
      BY DEF Usable
    <3> QED BY <3>2, <3>3, <3>4
  <2>4. c1[k] = None /\ \A x \in Keys : x # k => c1[x] = c[x]
    OBVIOUS
  <2> HIDE DEF s, c1
  <2>5. /\ \A u \in D : g.nodes[u].key \in Keys => c[g.nodes[u].key] # None /\ g.nodes[u].vec = c[g.nodes[u].key]
        /\ \A u, w \in D : g.nodes[u].key \in Keys /\ g.nodes[u].key = g.nodes[w].key => u = w
        /\ \A x \in Keys : c[x] # None => \E u \in D : g.nodes[u].key = x
    BY <2>1, FaithfulFacts DEF NodesMatch
  <2>6. \A u \in D : g1.nodes[u].vec = g.nodes[u].vec /\ g1.nodes[u].key = IF u = s THEN FreeKey ELSE g.nodes[u].key
    BY <1>1, <2>3
  <2>7. \A u \in D : g1.nodes[u].key \in Keys => u # s /\ g1.nodes[u].key = g.nodes[u].key /\ g.nodes[u].key # k
    BY <2>3, <2>5, <2>6, KeyAssumptions
  <2>8. Faithful(g1, c1)
    <3>1. ASSUME NEW u \in D, g1.nodes[u].key \in Keys
          PROVE  c1[g1.nodes[u].key] # None /\ g1.nodes[u].vec = c1[g1.nodes[u].key]
      <4> DEFINE x == g.nodes[u].key
      <4>1. g1.nodes[u].key = x /\ x \in Keys /\ x # k /\ g1.nodes[u].vec = g.nodes[u].vec
        BY <3>1, <2>6, <2>7
      <4>2. c[x] # None /\ g.nodes[u].vec = c[x] /\ c1[x] = c[x]
        BY <4>1, <2>4, <2>5
      <4> HIDE DEF x
      <4> QED BY <4>1, <4>2
    <3>2. \A u, w \in D : g1.nodes[u].key \in Keys /\ g1.nodes[u].key = g1.nodes[w].key => u = w
      BY <2>5, <2>7
    <3>3. ASSUME NEW x \in Keys, c1[x] # None PROVE \E u \in D : g1.nodes[u].key = x
      <4>1. x # k /\ c[x] # None
        BY <2>4, <3>3
      <4>2. PICK u \in D : g.nodes[u].key = x
        BY <2>5, <4>1
      <4> QED BY <4>1, <4>2, <2>3, <2>6
    <3>4. DOMAIN g1.nodes = D
      BY <1>1
    <3> HIDE DEF D
    <3>5. \A u \in DOMAIN g1.nodes : g1.nodes[u].key \in Keys => c1[g1.nodes[u].key] # None /\ g1.nodes[u].vec = c1[g1.nodes[u].key]
      BY <3>1, <3>4
    <3>6. \A u, w \in DOMAIN g1.nodes : g1.nodes[u].key \in Keys /\ g1.nodes[u].key = g1.nodes[w].key => u = w
      BY <3>2, <3>4
    <3>7. \A x \in Keys : c1[x] # None => \E u \in DOMAIN g1.nodes : g1.nodes[u].key = x
      BY <3>3, <3>4
    <3>8. NodesMatch(g1, c1)
      BY <3>5, <3>6, <3>7 DEF NodesMatch
    <3> QED BY <3>8, FaithfulFrom
  <2>9. \A x \in Keys : CellsOf(t1, x) # {} <=> c1[x] # None
    <3> SUFFICES ASSUME NEW x \in Keys PROVE CellsOf(t1, x) # {} <=> c1[x] # None
      OBVIOUS
    <3>1. CASE x = k
      BY <3>1, <1>3, <2>4
    <3>2. CASE x # k
      BY <3>2, <1>4, <2>1, <2>4, CellsEntries
    <3> QED BY <3>1, <3>2
  <2>10. Good(g1, t1, c1)
    BY <2>1, <2>8, <2>9, <1>4 DEF Good
  <2>11. ASSUME Agree(g, t, free) PROVE Agree(g1, t1, free1)
    <3>1. Entries(t) = NodePairs(g) /\ ToSet(free) = Freed(g) /\ IsInjective(free)
      BY <2>11 DEF Agree, NodePairs
    <3>2. ASSUME NEW x, NEW y
          PROVE  <<x, y>> \in Entries(t1) <=> <<x, y>> \in NodePairs(g1)
      <4>1. <<x, y>> \in Entries(t1) <=> y \in D /\ g.nodes[y].key = x /\ x # FreeKey /\ x # k
        BY <3>1, <1>4, NodePairsFacts
      <4>2. <<x, y>> \in NodePairs(g1) <=> y \in D /\ g1.nodes[y].key = x /\ x # FreeKey
        BY <1>1, NodePairsFacts
      <4>3. y \in D => (g1.nodes[y].key = x /\ x # FreeKey <=> g.nodes[y].key = x /\ x # FreeKey /\ x # k)
        BY <2>3, <2>5, <2>6
      <4> QED BY <4>1, <4>2, <4>3
    <3>3. Entries(t1) = NodePairs(g1)
      BY <3>2, SamePairs
    <3>4. Freed(g1) = Freed(g) \union {s}
      BY <1>1, <2>3, <2>6 DEF Freed
    <3>5. s \notin Freed(g)
      BY <2>3, <1>2 DEF Freed
    <3>6. IsInjective(free1)
      <4>1. Len(slots) = 1 /\ slots[1] = s
        BY <2>2 DEF s
      <4>2. Len(free) \in Nat /\ DOMAIN free = 1 .. Len(free) /\ DOMAIN free1 = 1 .. Len(free) + 1
        BY <1>6, <1>7, <4>1, LenProperties
      <4>3. \A i \in 1 .. Len(free) : free1[i] = free[i] /\ free[i] # s
        BY <1>7, <3>1, <3>5, <4>1, <4>2 DEF ToSet
      <4>4. free1[Len(free) + 1] = s
        <5>1. Len(free) + 1 \in 1 .. Len(free) + Len(slots) /\ ~ (Len(free) + 1 <= Len(free)) /\ (Len(free) + 1) - Len(free) = 1
          BY <4>1, <4>2
        <5> QED BY <5>1, <4>1, <1>7
      <4>5. \A i \in 1 .. Len(free) + 1 : i \in 1 .. Len(free) \/ i = Len(free) + 1
        BY <4>2
      <4>6. \A i, j \in 1 .. Len(free) : free[i] = free[j] => i = j
        BY <3>1, <4>2 DEF IsInjective
      <4> SUFFICES ASSUME NEW i \in 1 .. Len(free) + 1, NEW j \in 1 .. Len(free) + 1, free1[i] = free1[j] PROVE i = j
        BY <4>2 DEF IsInjective
      <4> QED BY <4>3, <4>4, <4>5, <4>6
    <3> QED BY <3>1, <3>3, <3>4, <3>6, <1>7, <2>3 DEF Agree, NodePairs
  <2> QED BY <2>10, <2>11 DEF c1
<1> QED BY <1>3, <1>7, <1>8, <1>9 DEF StaysRight

-----------------------------------------------------------------------------
(* add *)

LEMMA VectorFacts ==
  ASSUME NEW v \in Vectors
  PROVE  v \in Int /\ v # None
  BY IndexAssumption DEF Vectors

\* h is g with the key and the vector at slot s, whose node is new or reused.
FilledNode(g, h, s, k, v) ==
  /\ GraphOK(h, NodeKeys) /\ s \in Nat
  /\ DOMAIN h.nodes = DOMAIN g.nodes \union {s}
  /\ h.nodes[s].key = k /\ h.nodes[s].vec = v
  /\ \A u \in DOMAIN g.nodes \ {s} : h.nodes[u].key = g.nodes[u].key /\ h.nodes[u].vec = g.nodes[u].vec

FreeSlot(g, s) == s \in DOMAIN g.nodes => g.nodes[s].key = FreeKey

Without(free, s, free1) == ToSet(free1) = ToSet(free) \ {s} /\ IsInjective(free1)

StaysAgreed(g, t, free, s, h, t1, free1) ==
  Agree(g, t, free) /\ FreeSlot(g, s) /\ Without(free, s, free1) => Agree(h, t1, free1)

LEMMA Filling ==
  ASSUME NEW g, NEW t, NEW free, Usable(g, t, free), NEW k \in Keys, NEW v \in Vectors, CellsOf(t, k) = {},
         NEW h, NEW s, FilledNode(g, h, s, k, v), NEW t1, t1 = try_emplace(t, k, s),
         NEW free1, free1 \in Seq(DOMAIN g.nodes)
  PROVE  /\ Usable(h, t1, free1)
         /\ \A c \in [Keys -> Vectors \union {None}] :
              Good(g, t, c) /\ FreeSlot(g, s) => Good(h, t1, [c EXCEPT ![k] = v])
         /\ StaysAgreed(g, t, free, s, h, t1, free1)
<1> DEFINE D == DOMAIN g.nodes
           E == DOMAIN h.nodes
<1>1. /\ GraphOK(h, NodeKeys) /\ s \in Nat /\ E = D \union {s}
      /\ h.nodes[s].key = k /\ h.nodes[s].vec = v
      /\ \A u \in D \ {s} : h.nodes[u].key = g.nodes[u].key /\ h.nodes[u].vec = g.nodes[u].vec
  BY DEF FilledNode
<1>2. Table(t, CellKeys) /\ ProbeReachable(t) /\ CellKeys \in SUBSET Nat /\ 0 \in CellKeys /\ k \in CellKeys /\ k # FreeKey
  BY KeyAssumptions DEF Usable
<1> HIDE DEF D, E
<1>3. /\ Table(t1, CellKeys) /\ ProbeReachable(t1) /\ Entries(t1) = Entries(t) \union {<<k, s>>}
      /\ OnePerKey(t) => OnePerKey(t1)
  BY <1>1, <1>2, EmplaceFacts
<1>4. \A x, y : <<x, y>> \in Entries(t1) <=> <<x, y>> \in Entries(t) \/ (x = k /\ y = s)
  <2> SUFFICES ASSUME NEW x, NEW y
               PROVE  <<x, y>> \in Entries(t1) <=> <<x, y>> \in Entries(t) \/ (x = k /\ y = s)
    OBVIOUS
  <2>1. <<x, y>> = <<k, s>> <=> x = k /\ y = s
    OBVIOUS
  <2>2. <<x, y>> \in Entries(t1) <=> <<x, y>> \in Entries(t) \/ <<x, y>> = <<k, s>>
    BY <1>3
  <2> QED BY <2>1, <2>2
<1>5. Usable(h, t1, free1)
  <2>1. \A c \in LiveCells(t1) : t1[c].slot \in E
    <3> SUFFICES ASSUME NEW c \in LiveCells(t1) PROVE t1[c].slot \in E
      OBVIOUS
    <3>1. <<t1[c].key, t1[c].slot>> \in Entries(t1)
      BY DEF Entries
    <3>2. CASE t1[c].slot = s
      BY <3>2, <1>1
    <3>3. CASE <<t1[c].key, t1[c].slot>> \in Entries(t)
      <4>1. PICK d \in LiveCells(t) : <<t1[c].key, t1[c].slot>> = <<t[d].key, t[d].slot>>
        BY <3>3 DEF Entries
      <4>2. t[d].slot \in D
        BY DEF Usable, D
      <4> QED BY <4>1, <4>2, <1>1
    <3> QED BY <3>1, <3>2, <3>3, <1>4
  <2>2. free1 \in Seq(E)
    <3>1. free1 \in Seq(D)
      BY DEF D
    <3>2. \A i \in 1 .. Len(free1) : free1[i] \in E
      BY <3>1, <1>1, ElementOfSeq
    <3>3. Len(free1) \in Nat /\ free1 = [i \in 1 .. Len(free1) |-> free1[i]]
      BY <3>1, LenProperties
    <3> QED BY <3>2, <3>3
  <2> QED BY <1>1, <1>3, <2>1, <2>2 DEF Usable, E
<1>6. ASSUME NEW c \in [Keys -> Vectors \union {None}], Good(g, t, c), FreeSlot(g, s)
      PROVE  Good(h, t1, [c EXCEPT ![k] = v])
  <2> DEFINE c1 == [c EXCEPT ![k] = v]
  <2>1. Faithful(g, c) /\ OnePerKey(t) /\ \A x \in Keys : CellsOf(t, x) # {} <=> c[x] # None
    BY <1>6 DEF Good
  <2>2. c1[k] = v /\ v # None /\ (\A x \in Keys : x # k => c1[x] = c[x]) /\ c[k] = None
    BY <2>1, VectorFacts
  <2> HIDE DEF c1
  <2>3. /\ \A u \in D : g.nodes[u].key \in Keys => c[g.nodes[u].key] # None /\ g.nodes[u].vec = c[g.nodes[u].key]
        /\ \A u, w \in D : g.nodes[u].key \in Keys /\ g.nodes[u].key = g.nodes[w].key => u = w
        /\ \A x \in Keys : c[x] # None => \E u \in D : g.nodes[u].key = x
    BY <2>1, FaithfulFacts DEF NodesMatch, D
  <2>4. \A u \in E : h.nodes[u].key \in Keys => u = s \/ (u \in D /\ u # s /\ h.nodes[u].key = g.nodes[u].key /\ g.nodes[u].key # k)
    BY <1>1, <2>2, <2>3
  <2>5. ASSUME NEW u \in E, h.nodes[u].key \in Keys
        PROVE  c1[h.nodes[u].key] # None /\ h.nodes[u].vec = c1[h.nodes[u].key]
    <3>1. CASE u = s
      BY <3>1, <1>1, <2>2
    <3>2. CASE u # s
      <4> DEFINE x == g.nodes[u].key
      <4>1. h.nodes[u].key = x /\ x \in Keys /\ x # k /\ h.nodes[u].vec = g.nodes[u].vec /\ u \in D
        BY <2>5, <3>2, <2>4, <1>1
      <4>2. c[x] # None /\ g.nodes[u].vec = c[x] /\ c1[x] = c[x]
        BY <4>1, <2>2, <2>3
      <4> HIDE DEF x
      <4> QED BY <4>1, <4>2
    <3> QED BY <3>1, <3>2
  <2>6. \A u, w \in E : h.nodes[u].key \in Keys /\ h.nodes[u].key = h.nodes[w].key => u = w
    BY <1>1, <2>3, <2>4
  <2>7. ASSUME NEW x \in Keys, c1[x] # None PROVE \E u \in E : h.nodes[u].key = x
    <3>1. CASE x = k
      BY <3>1, <1>1
    <3>2. CASE x # k
      <4>1. PICK u \in D : g.nodes[u].key = x
        BY <3>2, <2>7, <2>2, <2>3
      <4>2. u # s
        BY <4>1, <1>6, KeyAssumptions DEF FreeSlot, D
      <4> QED BY <4>1, <4>2, <1>1
    <3> QED BY <3>1, <3>2
  <2>8. Faithful(h, c1)
    <3>1. NodesMatch(h, c1)
      BY <2>5, <2>6, <2>7 DEF NodesMatch, E
    <3> QED BY <3>1, FaithfulFrom
  <2>9. \A x \in Keys : CellsOf(t1, x) # {} <=> c1[x] # None
    <3> SUFFICES ASSUME NEW x \in Keys PROVE CellsOf(t1, x) # {} <=> c1[x] # None
      OBVIOUS
    <3>0. CellsOf(t1, x) # {} <=> \E y : <<x, y>> \in Entries(t1)
      BY CellsEntries
    <3>1. CASE x = k
      BY <3>0, <3>1, <1>4, <2>2
    <3>2. CASE x # k
      <4>1. CellsOf(t, x) # {} <=> \E y : <<x, y>> \in Entries(t)
        BY CellsEntries
      <4> QED BY <3>0, <3>2, <4>1, <1>4, <2>1, <2>2
    <3> QED BY <3>1, <3>2
  <2>10. Good(h, t1, c1)
    BY <2>1, <2>8, <2>9, <1>3 DEF Good
  <2> QED BY <2>10 DEF c1
<1>7. ASSUME Agree(g, t, free), FreeSlot(g, s), Without(free, s, free1)
      PROVE  Agree(h, t1, free1)
  <2>1. Entries(t) = NodePairs(g) /\ ToSet(free) = Freed(g)
    BY <1>7 DEF Agree, NodePairs
  <2>2. ASSUME NEW x, NEW y
        PROVE  <<x, y>> \in Entries(t1) <=> <<x, y>> \in NodePairs(h)
    <3>1. <<x, y>> \in Entries(t) <=> y \in D /\ g.nodes[y].key = x /\ x # FreeKey
      BY <2>1, NodePairsFacts DEF D
    <3>2. <<x, y>> \in NodePairs(h) <=> y \in E /\ h.nodes[y].key = x /\ x # FreeKey
      BY NodePairsFacts DEF E
    <3>3. CASE y = s
      BY <3>1, <3>2, <3>3, <1>1, <1>2, <1>4, <1>7 DEF FreeSlot, D
    <3>4. CASE y # s
      BY <3>1, <3>2, <3>4, <1>1, <1>4
    <3> QED BY <3>3, <3>4
  <2>3. Entries(t1) = NodePairs(h)
    BY <2>2, SamePairs
  <2>4. Freed(h) = Freed(g) \ {s}
    <3>1. \A y : y \in Freed(h) <=> y \in E /\ h.nodes[y].key = FreeKey
      BY DEF Freed, E
    <3>2. \A y : y \in Freed(g) <=> y \in D /\ g.nodes[y].key = FreeKey
      BY DEF Freed, D
    <3>3. \A y : y \in Freed(h) <=> y \in Freed(g) /\ y # s
      BY <3>1, <3>2, <1>1, <1>2
    <3> QED BY <3>3
  <2> QED BY <2>1, <2>3, <2>4, <1>7 DEF Agree, NodePairs, Without
<1> QED BY <1>5, <1>6, <1>7 DEF StaysAgreed

\* The free ring without its first slot.
LEMMA TailFacts ==
  ASSUME NEW D, NEW free \in Seq(D), free # <<>>
  PROVE  /\ Head(free) \in D /\ Tail(free) \in Seq(D)
         /\ IsInjective(free) => IsInjective(Tail(free)) /\ ToSet(Tail(free)) = ToSet(free) \ {Head(free)}
<1> DEFINE n == Len(free)
           r == Tail(free)
           x == Head(free)
<1>1. x \in D /\ r \in Seq(D) /\ x = free[1] /\ Len(r) = n - 1 /\ \A i \in 1 .. n - 1 : r[i] = free[i + 1]
  BY HeadTailProperties
<1>2. n \in Nat /\ n # 0 /\ DOMAIN free = 1 .. n /\ DOMAIN r = 1 .. n - 1
  <2>1. n \in Nat /\ DOMAIN free = 1 .. n /\ n # 0
    BY LenProperties
  <2>2. DOMAIN r = 1 .. Len(r)
    BY <1>1, LenProperties
  <2> QED BY <2>1, <2>2, <1>1
<1> HIDE DEF n, r, x
<1>3. ASSUME IsInjective(free) PROVE IsInjective(r) /\ ToSet(r) = ToSet(free) \ {x}
  <2>1. \A i, j \in 1 .. n : free[i] = free[j] => i = j
    BY <1>2, <1>3 DEF IsInjective
  <2>2. \A i \in 1 .. n - 1 : i + 1 \in 1 .. n /\ r[i] = free[i + 1] /\ i + 1 # 1
    BY <1>1, <1>2
  <2>3. IsInjective(r)
    <3> SUFFICES ASSUME NEW i \in 1 .. n - 1, NEW j \in 1 .. n - 1, r[i] = r[j] PROVE i = j
      BY <1>2 DEF IsInjective
    <3>1. i + 1 = j + 1
      BY <2>1, <2>2
    <3> QED BY <3>1, <1>2
  <2>4. 1 \in 1 .. n
    BY <1>2
  <2>5. \A y \in ToSet(r) : y \in ToSet(free) /\ y # x
    BY <2>1, <2>2, <2>4, <1>1, <1>2 DEF ToSet
  <2>6. ASSUME NEW y \in ToSet(free), y # x PROVE y \in ToSet(r)
    <3>1. PICK i \in 1 .. n : y = free[i]
      BY <1>2 DEF ToSet
    <3>2. i - 1 \in 1 .. n - 1 /\ (i - 1) + 1 = i
      BY <3>1, <2>6, <1>1, <1>2
    <3>3. r[i - 1] = y
      BY <3>1, <3>2, <1>1
    <3> QED BY <3>2, <3>3, <1>2 DEF ToSet
  <2> QED BY <2>3, <2>5, <2>6
<1> QED BY <1>1, <1>3 DEF r, x

ReuseKeeps(g, t, free, s, k, v, h, t1, free1) ==
  \A c \in [Keys -> Vectors \union {None}] :
    Good(g, t, c) /\ g.nodes[s].key = FreeKey =>
      /\ Good(h, t1, [c EXCEPT ![k] = v])
      /\ Agree(g, t, free) => Agree(h, t1, free1)

LEMMA Reusing ==
  ASSUME NEW g, NEW t, NEW free, Usable(g, t, free), free # <<>>, NEW k \in Keys, NEW v \in Vectors, CellsOf(t, k) = {},
         NEW s, s = Head(free), NEW h, h = update(g, s, k, v), NEW t1, t1 = try_emplace(t, k, s),
         NEW free1, free1 = Tail(free)
  PROVE  /\ Usable(h, t1, free1)
         /\ ReuseKeeps(g, t, free, s, k, v, h, t1, free1)
<1>1. GraphOK(g, NodeKeys) /\ free \in Seq(DOMAIN g.nodes) /\ k \in NodeKeys /\ v \in Int
  BY KeyAssumptions, VectorFacts DEF Usable
<1>2. /\ s \in DOMAIN g.nodes /\ free1 \in Seq(DOMAIN g.nodes)
      /\ IsInjective(free) => IsInjective(free1) /\ ToSet(free1) = ToSet(free) \ {s}
  <2> DEFINE D == DOMAIN g.nodes
  <2>1. free \in Seq(D)
    BY <1>1
  <2> HIDE DEF D
  <2>2. /\ s \in D /\ free1 \in Seq(D)
        /\ IsInjective(free) => IsInjective(free1) /\ ToSet(free1) = ToSet(free) \ {s}
    BY <2>1, TailFacts
  <2> QED BY <2>2 DEF D
<1>3. /\ GraphOK(h, NodeKeys) /\ DOMAIN h.nodes = DOMAIN g.nodes
      /\ h.nodes[s].key = k /\ h.nodes[s].vec = v
      /\ \A u \in DOMAIN g.nodes \ {s} : h.nodes[u].key = g.nodes[u].key /\ h.nodes[u].vec = g.nodes[u].vec
  BY <1>1, <1>2, UpdateFacts
<1>4. s \in Nat
  BY <1>1, <1>2 DEF GraphOK, NodesOK
<1>5. FilledNode(g, h, s, k, v)
  BY <1>2, <1>3, <1>4 DEF FilledNode
<1>6. Usable(h, t1, free1)
  BY <1>2, <1>5, Filling
<1>8. StaysAgreed(g, t, free, s, h, t1, free1)
  BY <1>2, <1>5, Filling
<1>9. ASSUME NEW c \in [Keys -> Vectors \union {None}], Good(g, t, c), FreeSlot(g, s)
      PROVE  Good(h, t1, [c EXCEPT ![k] = v])
  BY <1>2, <1>5, <1>9, Filling
<1>7. Agree(g, t, free) => IsInjective(free)
  BY DEF Agree
<1> QED BY <1>2, <1>6, <1>7, <1>8, <1>9 DEF ReuseKeeps, FreeSlot, Without, StaysAgreed

LEMMA Making ==
  ASSUME NEW g, NEW t, Usable(g, t, <<>>), NEW k \in Keys, NEW v \in Vectors, NEW level \in Nat, CellsOf(t, k) = {},
         NEW h, h = add(g, k, v, level), NEW t1, t1 = try_emplace(t, k, Size(g))
  PROVE  /\ Usable(h, t1, <<>>)
         /\ \A c \in [Keys -> Vectors \union {None}] :
              Good(g, t, c) =>
                /\ Good(h, t1, [c EXCEPT ![k] = v])
                /\ Agree(g, t, <<>>) => Agree(h, t1, <<>>)
<1> DEFINE s == Size(g)
           e == <<>>
<1>1. GraphOK(g, NodeKeys) /\ k \in NodeKeys /\ v \in Int
  BY KeyAssumptions, VectorFacts DEF Usable
<1>2. s \in Nat /\ DOMAIN g.nodes = 0 .. s - 1
  BY <1>1 DEF GraphOK, NodesOK
<1>3. /\ GraphOK(h, NodeKeys) /\ DOMAIN h.nodes = 0 .. Size(g)
      /\ h.nodes[Size(g)].key = k /\ h.nodes[Size(g)].vec = v
      /\ \A u \in DOMAIN g.nodes : h.nodes[u].key = g.nodes[u].key /\ h.nodes[u].vec = g.nodes[u].vec
  BY <1>1, AddFacts
<1>4. 0 .. s = (0 .. s - 1) \union {s} /\ s \notin 0 .. s - 1
  <2> HIDE DEF s
  <2> QED BY <1>2
<1>5. FilledNode(g, h, s, k, v)
  BY <1>2, <1>3, <1>4 DEF FilledNode
<1>6. e \in Seq(DOMAIN g.nodes) /\ ToSet(e) = {} /\ IsInjective(e)
  BY DEF ToSet, IsInjective
<1>7. FreeSlot(g, s)
  BY <1>2, <1>4 DEF FreeSlot
<1>8. Usable(g, t, e) /\ t1 = try_emplace(t, k, s)
  OBVIOUS
<1> HIDE DEF s, e
<1>9. /\ Usable(h, t1, e)
      /\ \A c \in [Keys -> Vectors \union {None}] :
           Good(g, t, c) /\ FreeSlot(g, s) => Good(h, t1, [c EXCEPT ![k] = v])
      /\ StaysAgreed(g, t, e, s, h, t1, e)
  BY <1>5, <1>6, <1>8, Filling
<1>10. Without(e, s, e)
  BY <1>6 DEF Without
<1> QED BY <1>6, <1>7, <1>9, <1>10 DEF e, StaysAgreed

-----------------------------------------------------------------------------
(* load_from_stream *)

\* The slots that reindex_keys_ goes through.
LEMMA ReindexLoop ==
  ASSUME NEW g, NEW cells, Size(g) \in Nat
  PROVE  \E f : /\ f[0] = cells
                /\ \A i \in 1 .. Size(g) : f[i] = Reindexed(f[i - 1], g, i - 1)
                /\ reindex_keys_(g, cells).lookup = f[Size(g)]
<1> DEFINE n == Size(g)
           St(x, i) == Reindexed(x, g, i - 1)
           base == cells
           Run(m, f) == f = [i \in 0 .. m |-> IF i = 0 THEN base ELSE St(f[i - 1], i)]
           S == {m \in 0 .. n : \E f : Run(m, f)}
           at == CHOOSE f : Run(n, f)
<1>0. n \in Nat
  OBVIOUS
<1>1. reindex_keys_(g, cells).lookup = at[n]
  BY DEF reindex_keys_
<1> HIDE DEF n, St, base
<1>2. 0 \in S
  <2> DEFINE f == [i \in 0 .. 0 |-> base]
  <2>1. \A i \in 0 .. 0 : f[i] = IF i = 0 THEN base ELSE St(f[i - 1], i)
    OBVIOUS
  <2>2. Run(0, f)
    BY <2>1
  <2> HIDE DEF Run, f
  <2> QED BY <1>0, <2>2
<1>3. ASSUME NEW m \in 0 .. n, m < n, m \in S
      PROVE  m + 1 \in S
  <2>1. PICK f : Run(m, f)
    BY <1>3
  <2> DEFINE h == [i \in 0 .. m + 1 |-> IF i = m + 1 THEN St(f[m], m + 1) ELSE f[i]]
  <2>2. \A i \in 0 .. m + 1 : h[i] = IF i = 0 THEN base ELSE St(h[i - 1], i)
    <3> SUFFICES ASSUME NEW i \in 0 .. m + 1
                 PROVE h[i] = IF i = 0 THEN base ELSE St(h[i - 1], i)
      OBVIOUS
    <3>1. CASE i = m + 1
      <4>1. h[i] = St(f[m], m + 1) /\ i - 1 = m /\ i # 0 /\ h[m] = f[m]
        BY <3>1, <1>0
      <4> HIDE DEF h
      <4> QED BY <3>1, <4>1
    <3>2. CASE i # m + 1
      <4>1. i \in 0 .. m /\ h[i] = f[i]
        BY <3>2, <1>0
      <4>2. i # 0 => h[i - 1] = f[i - 1]
        BY <3>2, <1>0
      <4>3. f[i] = IF i = 0 THEN base ELSE St(f[i - 1], i)
        BY <2>1, <4>1
      <4> HIDE DEF h
      <4> QED BY <4>1, <4>2, <4>3
    <3> QED BY <3>1, <3>2
  <2>3. Run(m + 1, h)
    BY <2>2
  <2> HIDE DEF Run, h
  <2>4. m + 1 \in 0 .. n
    BY <1>0, <1>3
  <2> QED BY <2>3, <2>4
<1>4. n \in S
  <2> HIDE DEF S
  <2>1. \A i \in 0 .. n : i \in S
    BY <1>0, <1>2, <1>3, CountUp
  <2> QED BY <1>0, <2>1
<1>5. Run(n, at)
  <2>1. \E f : Run(n, f)
    BY <1>4
  <2> HIDE DEF Run
  <2> QED BY <2>1, Zenon
<1>6. at[0] = base /\ \A i \in 1 .. n : at[i] = St(at[i - 1], i)
  <2>1. \A i \in 0 .. n : at[i] = IF i = 0 THEN base ELSE St(at[i - 1], i)
    <3>1. at = [i \in 0 .. n |-> IF i = 0 THEN base ELSE St(at[i - 1], i)]
      BY <1>5
    <3> HIDE DEF at
    <3> QED BY <3>1
  <2> HIDE DEF at
  <2> QED BY <2>1, <1>0
<1> HIDE DEF at
<1> QED BY <1>1, <1>6 DEF n, St, base

\* The table after the first i slots were entered.
Reindexing(g, t, i) ==
  /\ Table(t, CellKeys) /\ ProbeReachable(t)
  /\ Cardinality(LiveCells(t)) <= i
  /\ \A x, y : <<x, y>> \in Entries(t) <=> y \in 0 .. i - 1 /\ g.nodes[y].key = x /\ x # FreeKey
  /\ (\A s, u \in DOMAIN g.nodes : g.nodes[s].key \in Keys /\ g.nodes[s].key = g.nodes[u].key => s = u) => OnePerKey(t)

LEMMA ReindexStep ==
  ASSUME NEW g, GraphOK(g, NodeKeys), NEW t, NEW i \in DOMAIN g.nodes, Reindexing(g, t, i),
         NEW t1, t1 = Reindexed(t, g, i)
  PROVE  Reindexing(g, t1, i + 1)
<1> DEFINE D == DOMAIN g.nodes
           k == g.nodes[i].key
           OneNode == \A s, u \in D : g.nodes[s].key \in Keys /\ g.nodes[s].key = g.nodes[u].key => s = u
<1>1. /\ Table(t, CellKeys) /\ ProbeReachable(t)
      /\ Cardinality(LiveCells(t)) <= i
      /\ \A x, y : <<x, y>> \in Entries(t) <=> y \in 0 .. i - 1 /\ g.nodes[y].key = x /\ x # FreeKey
      /\ OneNode => OnePerKey(t)
  BY DEF Reindexing
<1>2. i \in Nat /\ D = 0 .. Size(g) - 1 /\ Size(g) \in Nat /\ k \in NodeKeys
  <2>1. Size(g) \in Nat /\ D = 0 .. Size(g) - 1 /\ \A s \in 0 .. Size(g) - 1 : NodeShape(g.nodes[s], NodeKeys)
    BY DEF GraphOK, NodesOK
  <2>2. NodeShape(g.nodes[i], NodeKeys)
    BY <2>1
  <2> QED BY <2>1, <2>2 DEF NodeShape
<1>3. Cardinality(LiveCells(t)) \in Nat
  BY <1>1, LiveFinite
<1>4. \A y : y \in 0 .. (i + 1) - 1 <=> y \in 0 .. i - 1 \/ y = i
  BY <1>2
<1>5. i \notin 0 .. i - 1
  BY <1>2
<1>6. t1 = IF k = FreeKey THEN t ELSE try_emplace(t, k, i)
  BY DEF Reindexed, Freed
<1> HIDE DEF k, OneNode, D
<1>7. CASE k = FreeKey
  <2>1. t1 = t
    BY <1>6, <1>7
  <2>2. ASSUME NEW x, NEW y
        PROVE  <<x, y>> \in Entries(t) <=> y \in 0 .. (i + 1) - 1 /\ g.nodes[y].key = x /\ x # FreeKey
    BY <1>1, <1>4, <1>7 DEF k
  <2>3. Cardinality(LiveCells(t)) <= i + 1
    BY <1>1, <1>2, <1>3
  <2> QED BY <1>1, <2>1, <2>2, <2>3 DEF Reindexing, OneNode, D
<1>8. CASE k # FreeKey
  <2>1. t1 = try_emplace(t, k, i)
    BY <1>6, <1>8
  <2>2. k \in Keys /\ k \in CellKeys /\ CellKeys \in SUBSET Nat /\ 0 \in CellKeys
    BY <1>2, <1>8, KeyAssumptions
  <2>3. /\ Table(t1, CellKeys) /\ ProbeReachable(t1)
        /\ Entries(t1) = Entries(t) \union {<<k, i>>}
        /\ OnePerKey(t) /\ CellsOf(t, k) = {} => OnePerKey(t1)
        /\ Cardinality(LiveCells(t1)) = Cardinality(LiveCells(t)) + 1
    BY <1>1, <1>2, <2>1, <2>2, EmplaceFacts
  <2>4. Cardinality(LiveCells(t1)) <= i + 1
    BY <1>1, <1>2, <1>3, <2>3
  <2>5. ASSUME NEW x, NEW y
        PROVE  <<x, y>> \in Entries(t1) <=> y \in 0 .. (i + 1) - 1 /\ g.nodes[y].key = x /\ x # FreeKey
    <3>1. <<x, y>> = <<k, i>> <=> x = k /\ y = i
      OBVIOUS
    <3>2. <<x, y>> \in Entries(t1) <=> <<x, y>> \in Entries(t) \/ <<x, y>> = <<k, i>>
      BY <2>3
    <3>3. <<x, y>> \in Entries(t) <=> y \in 0 .. i - 1 /\ g.nodes[y].key = x /\ x # FreeKey
      BY <1>1
    <3>4. y = i => (g.nodes[y].key = x <=> x = k)
      BY DEF k
    <3>5. y \in 0 .. (i + 1) - 1 <=> y \in 0 .. i - 1 \/ y = i
      BY <1>4
    <3> QED BY <3>1, <3>2, <3>3, <3>4, <3>5, <1>5, <1>8
  <2>6. ASSUME OneNode PROVE OnePerKey(t1)
    <3>1. CellsOf(t, k) = {}
      <4> SUFFICES ASSUME CellsOf(t, k) # {} PROVE FALSE
        OBVIOUS
      <4>1. PICK y : <<k, y>> \in Entries(t)
        BY CellsEntries
      <4>2. y \in 0 .. i - 1 /\ g.nodes[y].key = k
        BY <4>1, <1>1
      <4>3. y \in D /\ i \in D
        BY <4>2, <1>2 DEF D
      <4> QED BY <4>2, <4>3, <2>6, <2>2, <1>5 DEF OneNode, k
    <3> QED BY <3>1, <2>3, <2>6, <1>1
  <2> QED BY <2>3, <2>4, <2>5, <2>6 DEF Reindexing, OneNode, D
<1> QED BY <1>7, <1>8

LEMMA ReindexFacts ==
  ASSUME NEW g, GraphOK(g, NodeKeys), NEW cells, Reindexing(g, cells, 0), NEW r, r = reindex_keys_(g, cells)
  PROVE  /\ Reindexing(g, r.lookup, Size(g))
         /\ r.free \in Seq(DOMAIN g.nodes) /\ ToSet(r.free) = Freed(g) /\ IsInjective(r.free)
<1> DEFINE n == Size(g)
<1>1. n \in Nat /\ DOMAIN g.nodes = 0 .. n - 1
  BY DEF GraphOK, NodesOK
<1>2. PICK f : /\ f[0] = cells
               /\ \A i \in 1 .. n : f[i] = Reindexed(f[i - 1], g, i - 1)
               /\ r.lookup = f[n]
  BY <1>1, ReindexLoop
<1>3. r.free = Ascending(Freed(g))
  BY DEF reindex_keys_
<1> HIDE DEF n
<1> DEFINE S == {i \in 0 .. n : Reindexing(g, f[i], i)}
<1>4. 0 \in S
  BY <1>1, <1>2
<1>5. ASSUME NEW i \in 0 .. n, i < n, i \in S PROVE i + 1 \in S
  <2> DEFINE t == f[i]
             t1 == f[i + 1]
  <2>1. i + 1 \in 0 .. n /\ t1 = Reindexed(t, g, i) /\ i \in DOMAIN g.nodes
    <3>1. i + 1 \in 1 .. n /\ (i + 1) - 1 = i /\ i + 1 \in 0 .. n /\ i \in 0 .. n - 1
      BY <1>1, <1>5
    <3> QED BY <3>1, <1>1, <1>2
  <2>2. Reindexing(g, t, i)
    BY <1>5
  <2> HIDE DEF t, t1
  <2>3. Reindexing(g, t1, i + 1)
    BY <2>1, <2>2, ReindexStep
  <2> QED BY <2>1, <2>3 DEF t1
<1>6. n \in S
  <2> HIDE DEF S
  <2>1. \A i \in 0 .. n : i \in S
    BY <1>1, <1>4, <1>5, CountUp
  <2> QED BY <2>1, <1>1
<1>7. Reindexing(g, r.lookup, n)
  BY <1>2, <1>6
<1>8. Freed(g) \in SUBSET Int /\ IsFiniteSet(Freed(g)) /\ Freed(g) \subseteq DOMAIN g.nodes
  <2>1. IsFiniteSet(0 .. n - 1) /\ 0 .. n - 1 \subseteq Int
    BY <1>1, FS_Interval
  <2>2. Freed(g) \subseteq 0 .. n - 1
    BY <1>1 DEF Freed
  <2> QED BY <2>1, <2>2, <1>1, FS_Subset
<1>9. r.free \in Seq(Freed(g)) /\ ToSet(r.free) = Freed(g) /\ IsInjective(r.free)
  BY <1>3, <1>8, AscendingFacts
<1>10. r.free \in Seq(DOMAIN g.nodes)
  <2> DEFINE F == Freed(g)
             D == DOMAIN g.nodes
  <2>0. F \subseteq D /\ r.free \in Seq(F)
    BY <1>8, <1>9
  <2> HIDE DEF F, D
  <2>1. \A i \in 1 .. Len(r.free) : r.free[i] \in D
    BY <2>0, ElementOfSeq
  <2>2. Len(r.free) \in Nat /\ r.free = [i \in 1 .. Len(r.free) |-> r.free[i]]
    BY <2>0, LenProperties
  <2>3. r.free \in Seq(D)
    BY <2>1, <2>2
  <2> QED BY <2>3 DEF D
<1> QED BY <1>7, <1>9, <1>10 DEF n


LEMMA ReservedIndex ==
  ASSUME NEW ix, IndexShape(ix), NEW m, NEW r, r = reserve(ix, m)
  PROVE  /\ IndexShape(r) /\ r.graph = ix.graph /\ r.free = ix.free /\ r.deleted = ix.deleted
         /\ r.lookup = try_reserve(ix.lookup, m)
<1> DEFINE t == try_reserve(ix.lookup, m)
           n == CellCount(t)
<1>1. r = IF n <= ix.capacity THEN [ix EXCEPT !.lookup = t] ELSE [ix EXCEPT !.lookup = t, !.capacity = n, !.buffer = n]
  BY DEF reserve
<1> HIDE DEF t, n
<1>2. CASE n <= ix.capacity
  <2>1. r = [ix EXCEPT !.lookup = t]
    BY <1>1, <1>2
  <2> QED BY <2>1 DEF IndexShape, t
<1>3. CASE ~ (n <= ix.capacity)
  <2>1. r = [ix EXCEPT !.lookup = t, !.capacity = n, !.buffer = n]
    BY <1>1, <1>3
  <2> QED BY <2>1 DEF IndexShape, t
<1> QED BY <1>2, <1>3

\* A rebuilt index, its table grown once more.
LEMMA Rebuilt ==
  ASSUME NEW g, GraphOK(g, NodeKeys), NEW t, Reindexing(g, t, Size(g)), NEW m \in Nat, m >= Size(g),
         NEW t1, t1 = try_reserve(t, m),
         NEW free \in Seq(DOMAIN g.nodes), ToSet(free) = Freed(g), IsInjective(free)
  PROVE  /\ Usable(g, t1, free) /\ Agree(g, t1, free)
         /\ \A c : Faithful(g, c) => Good(g, t1, c)
<1> DEFINE D == DOMAIN g.nodes
           n == Size(g)
           OneNode == \A s, u \in D : g.nodes[s].key \in Keys /\ g.nodes[s].key = g.nodes[u].key => s = u
<1>1. /\ Table(t, CellKeys) /\ ProbeReachable(t)
      /\ Cardinality(LiveCells(t)) <= n
      /\ \A x, y : <<x, y>> \in Entries(t) <=> y \in 0 .. n - 1 /\ g.nodes[y].key = x /\ x # FreeKey
      /\ OneNode => OnePerKey(t)
  BY DEF Reindexing
<1>2. n \in Nat /\ D = 0 .. n - 1 /\ \A s \in D : g.nodes[s].key \in NodeKeys
  <2>1. n \in Nat /\ D = 0 .. n - 1 /\ \A s \in 0 .. n - 1 : NodeShape(g.nodes[s], NodeKeys)
    BY DEF GraphOK, NodesOK
  <2> QED BY <2>1 DEF NodeShape
<1>3. Cardinality(LiveCells(t)) <= m
  <2>1. Cardinality(LiveCells(t)) \in Nat
    BY <1>1, LiveFinite
  <2> HIDE DEF n
  <2>2. m >= n
    BY DEF n
  <2> QED BY <2>1, <2>2, <1>1, <1>2
<1>4. CellKeys \in SUBSET Nat /\ 0 \in CellKeys
  BY KeyAssumptions
<1> HIDE DEF D, n, OneNode
<1>5. Table(t1, CellKeys) /\ ProbeReachable(t1) /\ SameEntries(t, LiveCells(t), t1)
  BY <1>1, <1>3, <1>4, ReserveFacts
<1>6. Entries(t1) = Entries(t) /\ (OnePerKey(t) => OnePerKey(t1))
  BY <1>5, SameEntriesFacts
<1>7. \A x, y : <<x, y>> \in Entries(t1) <=> y \in D /\ g.nodes[y].key = x /\ x # FreeKey
  BY <1>1, <1>2, <1>6
<1>8. Usable(g, t1, free)
  <2>1. \A c \in LiveCells(t1) : t1[c].slot \in D
    <3> SUFFICES ASSUME NEW c \in LiveCells(t1) PROVE t1[c].slot \in D
      OBVIOUS
    <3>1. <<t1[c].key, t1[c].slot>> \in Entries(t1)
      BY DEF Entries
    <3> QED BY <3>1, <1>7
  <2> QED BY <2>1, <1>5 DEF Usable, D
<1>9. Agree(g, t1, free)
  <2>1. \A x, y : <<x, y>> \in Entries(t1) <=> <<x, y>> \in NodePairs(g)
    BY <1>7, NodePairsFacts DEF D
  <2>2. Entries(t1) = NodePairs(g)
    BY <2>1, SamePairs
  <2> QED BY <2>2 DEF Agree, NodePairs
<1>10. ASSUME NEW c, Faithful(g, c) PROVE Good(g, t1, c)
  <2>1. /\ \A u \in D : g.nodes[u].key \in Keys => c[g.nodes[u].key] # None
        /\ OneNode
        /\ \A x \in Keys : c[x] # None => \E u \in D : g.nodes[u].key = x
    BY <1>10, FaithfulFacts DEF NodesMatch, D, OneNode
  <2>2. ASSUME NEW k \in Keys PROVE CellsOf(t1, k) # {} <=> c[k] # None
    <3>1. CellsOf(t1, k) # {} <=> \E y : <<k, y>> \in Entries(t1)
      BY CellsEntries
    <3>2. k # FreeKey
      BY KeyAssumptions
    <3>3. (\E y : <<k, y>> \in Entries(t1)) <=> \E y \in D : g.nodes[y].key = k
      BY <3>2, <1>7
    <3> QED BY <3>1, <3>3, <2>1
  <2> QED BY <2>1, <2>2, <1>1, <1>6, <1>10 DEF Good
<1> QED BY <1>8, <1>9, <1>10

LEMMA MaxOfTwo ==
  ASSUME NEW a \in Nat, NEW b \in Nat
  PROVE  Max({a, b}) \in Nat /\ Max({a, b}) >= b
<1>1. \E x \in {a, b} : \A y \in {a, b} : x >= y
  <2>1. CASE a >= b
    BY <2>1
  <2>2. CASE ~ (a >= b)
    BY <2>2
  <2> QED BY <2>1, <2>2
<1>2. Max({a, b}) \in {a, b} /\ \A y \in {a, b} : Max({a, b}) >= y
  BY <1>1, Zenon DEF Max
<1> QED BY <1>2

LEMMA EmptyLookup ==
  ASSUME NEW g, NEW m \in Nat, NEW t, t = try_reserve(EmptyTable(0), m)
  PROVE  Reindexing(g, t, 0)
<1> DEFINE e == EmptyTable(0)
<1>1. CellKeys \in SUBSET Nat /\ 0 \in CellKeys
  BY KeyAssumptions
<1>2. Table(e, CellKeys) /\ LiveCells(e) = {} /\ ProbeReachable(e)
  BY <1>1, EmptyTableFacts
<1>3. Cardinality(LiveCells(e)) = 0
  BY <1>2, FS_EmptySet
<1>4. t = try_reserve(e, m)
  OBVIOUS
<1> HIDE DEF e
<1>5. Table(t, CellKeys) /\ ProbeReachable(t) /\ SameEntries(e, LiveCells(e), t)
  BY <1>1, <1>2, <1>3, <1>4, ReserveFacts
<1>6. IsFiniteSet(LiveCells(e))
  BY <1>2, LiveFinite
<1>7. Cardinality(LiveCells(t)) = 0 /\ IsFiniteSet(LiveCells(t))
  BY <1>3, <1>5, <1>6, SameCount
<1>8. LiveCells(t) = {}
  BY <1>7, FS_EmptySet
<1>9. \A x, y : <<x, y>> \notin Entries(t)
  BY <1>8 DEF Entries
<1>10. OnePerKey(t)
  BY <1>8 DEF OnePerKey
<1> QED BY <1>5, <1>7, <1>9, <1>10 DEF Reindexing

LEMMA LoadedGraph ==
  ASSUME NEW g, GraphOK(g, NodeKeys), NEW h, h = LoadGraph(g)
  PROVE  GraphOK(h, NodeKeys) /\ \A c : Faithful(g, c) => Faithful(h, c)
<1>1. CASE Size(g) = 0
  <2>1. h = EmptyGraph
    BY <1>1 DEF LoadGraph
  <2>2. GraphOK(h, NodeKeys) /\ DOMAIN h.nodes = {}
    BY <2>1, EmptyGraphFacts
  <2>3. DOMAIN g.nodes = {}
    BY <1>1 DEF GraphOK, NodesOK
  <2>4. ASSUME NEW c, Faithful(g, c) PROVE Faithful(h, c)
    BY <2>2, <2>3, <2>4 DEF Faithful, NodesOf
  <2> QED BY <2>2, <2>4
<1>2. CASE Size(g) # 0
  BY <1>2 DEF LoadGraph
<1> QED BY <1>1, <1>2

LEMMA LoadFacts ==
  ASSUME NEW image, GraphOK(image.graph, NodeKeys), NEW r, r = LoadFromSnapshot(image)
  PROVE  /\ IndexShape(r) /\ r.deleted = image.count_deleted
         /\ Usable(r.graph, r.lookup, r.free) /\ Agree(r.graph, r.lookup, r.free)
         /\ \A c : Faithful(image.graph, c) => Good(r.graph, r.lookup, c)
<1> DEFINE g == LoadGraph(image.graph)
           total == Size(g)
           live == total - Cardinality(Freed(g))
           cells == try_reserve(EmptyTable(0), live)
           keys == reindex_keys_(g, cells)
           ix == [graph |-> g, lookup |-> keys.lookup, free |-> keys.free,
                  capacity |-> 0, buffer |-> 0, deleted |-> image.count_deleted]
           m == Max({InitialCapacity, total})
<1>1. r = reserve(ix, m)
  BY DEF LoadFromSnapshot
<1>2. GraphOK(g, NodeKeys) /\ \A c : Faithful(image.graph, c) => Faithful(g, c)
  <2> DEFINE i == image.graph
  <2>1. GraphOK(i, NodeKeys) /\ g = LoadGraph(i)
    OBVIOUS
  <2> HIDE DEF i, g
  <2>2. GraphOK(g, NodeKeys) /\ \A c : Faithful(i, c) => Faithful(g, c)
    BY <2>1, LoadedGraph
  <2> QED BY <2>2 DEF i
<1> HIDE DEF g
<1>3. total \in Nat /\ live \in Nat
  <2>1. total \in Nat /\ DOMAIN g.nodes = 0 .. total - 1
    BY <1>2 DEF GraphOK, NodesOK
  <2>2. IsFiniteSet(DOMAIN g.nodes) /\ Freed(g) \subseteq DOMAIN g.nodes /\ total = Cardinality(DOMAIN g.nodes)
    BY <2>1, FS_Interval DEF Freed, Size
  <2>3. Cardinality(Freed(g)) \in Nat /\ Cardinality(Freed(g)) <= total
    <3>1. IsFiniteSet(Freed(g)) /\ Cardinality(Freed(g)) <= Cardinality(DOMAIN g.nodes)
      BY <2>2, FS_Subset
    <3>2. Cardinality(Freed(g)) \in Nat
      BY <3>1, FS_CardinalityType
    <3> QED BY <3>1, <3>2, <2>2
  <2> HIDE DEF total
  <2> QED BY <2>1, <2>3
<1> HIDE DEF live
<1>4. Reindexing(g, cells, 0)
  BY <1>3, EmptyLookup
<1> HIDE DEF cells
<1>5. Reindexing(g, keys.lookup, Size(g)) /\ keys.free \in Seq(DOMAIN g.nodes) /\ ToSet(keys.free) = Freed(g) /\ IsInjective(keys.free)
  BY <1>2, <1>4, ReindexFacts
<1>6. m \in Nat /\ m >= total
  <2> HIDE DEF total
  <2> QED BY <1>3, MaxOfTwo, IndexAssumption
<1> HIDE DEF m, keys
<1>7. IndexShape(ix) /\ ix.graph = g /\ ix.lookup = keys.lookup /\ ix.free = keys.free /\ ix.deleted = image.count_deleted
  BY DEF IndexShape
<1> HIDE DEF ix
<1>8. /\ IndexShape(r) /\ r.graph = g /\ r.free = keys.free /\ r.deleted = image.count_deleted
      /\ r.lookup = try_reserve(keys.lookup, m)
  <2>1. IndexShape(r) /\ r.graph = ix.graph /\ r.free = ix.free /\ r.deleted = ix.deleted
        /\ r.lookup = try_reserve(ix.lookup, m)
    BY <1>1, <1>7, ReservedIndex
  <2> QED BY <2>1, <1>7
<1>9. Usable(r.graph, r.lookup, r.free) /\ Agree(r.graph, r.lookup, r.free) /\ \A c : Faithful(g, c) => Good(r.graph, r.lookup, c)
  <2> DEFINE t == keys.lookup
             t1 == r.lookup
             f == keys.free
  <2>1. Reindexing(g, t, Size(g)) /\ f \in Seq(DOMAIN g.nodes) /\ ToSet(f) = Freed(g) /\ IsInjective(f)
        /\ t1 = try_reserve(t, m) /\ m >= Size(g)
    BY <1>5, <1>6, <1>8
  <2> HIDE DEF t, t1, f
  <2>2. Usable(g, t1, f) /\ Agree(g, t1, f) /\ \A c : Faithful(g, c) => Good(g, t1, c)
    BY <1>2, <1>6, <2>1, Rebuilt
  <2> QED BY <2>2, <1>8 DEF t1, f
<1> QED BY <1>2, <1>8, <1>9

LEMMA CreateFacts ==
  /\ IndexShape(Create) /\ Create.deleted = 0 /\ Create.free = <<>>
  /\ Usable(Create.graph, Create.lookup, Create.free)
  /\ Agree(Create.graph, Create.lookup, Create.free)
  /\ Good(Create.graph, Create.lookup, [k \in Keys |-> None])
<1> DEFINE g == EmptyGraph
           e == EmptyTable(0)
           f == <<>>
           ix == [graph |-> g, lookup |-> e, free |-> f, capacity |-> 0, buffer |-> 0, deleted |-> 0]
           r == Create
           m == InitialCapacity
           c == [k \in Keys |-> None]
<1>1. r = reserve(ix, m)
  BY DEF Create
<1>2. GraphOK(g, NodeKeys) /\ Size(g) = 0 /\ DOMAIN g.nodes = {}
  BY EmptyGraphFacts
<1>3. m \in Nat /\ m >= 0
  BY IndexAssumption
<1>4. IndexShape(ix) /\ ix.graph = g /\ ix.lookup = e /\ ix.free = f /\ ix.deleted = 0
  BY DEF IndexShape
<1> HIDE DEF ix, r, m
<1>5. IndexShape(r) /\ r.graph = g /\ r.free = f /\ r.deleted = 0 /\ r.lookup = try_reserve(e, m)
  <2>1. IndexShape(r) /\ r.graph = ix.graph /\ r.free = ix.free /\ r.deleted = ix.deleted
        /\ r.lookup = try_reserve(ix.lookup, m)
    BY <1>1, <1>4, ReservedIndex
  <2> QED BY <2>1, <1>4
<1>6. Reindexing(g, e, 0)
  <2>1. e = try_reserve(e, 0)
    <3>1. CellCount(e) = 0
      BY KeyAssumptions, EmptyTableFacts
    <3> QED BY <3>1 DEF try_reserve
  <2> HIDE DEF g
  <2> QED BY <2>1, EmptyLookup
<1>7. Freed(g) = {}
  BY <1>2 DEF Freed
<1>8. f \in Seq(DOMAIN g.nodes) /\ ToSet(f) = Freed(g) /\ IsInjective(f)
  BY <1>7 DEF ToSet, IsInjective
<1>9. Faithful(g, c)
  BY <1>2 DEF Faithful, NodesOf
<1>10. Usable(r.graph, r.lookup, r.free) /\ Agree(r.graph, r.lookup, r.free) /\ Good(r.graph, r.lookup, c)
  <2> DEFINE t1 == r.lookup
  <2>1. Reindexing(g, e, Size(g)) /\ m >= Size(g) /\ t1 = try_reserve(e, m)
    BY <1>2, <1>3, <1>5, <1>6
  <2> HIDE DEF g, e, f, c, t1
  <2>2. Usable(g, t1, f) /\ Agree(g, t1, f) /\ \A x : Faithful(g, x) => Good(g, t1, x)
    BY <1>2, <1>3, <1>8, <2>1, Rebuilt
  <2> QED BY <2>2, <1>5, <1>9 DEF t1
<1> QED BY <1>5, <1>10 DEF r, f, c

-----------------------------------------------------------------------------
(* isolate and compact *)

\* h holds the keys and vectors of g, each in its slot.
SameContent(g, h) ==
  /\ DOMAIN h.nodes = DOMAIN g.nodes
  /\ \A s \in DOMAIN g.nodes : h.nodes[s].key = g.nodes[s].key /\ h.nodes[s].vec = g.nodes[s].vec

LEMMA KeepingSlots ==
  ASSUME NEW g, NEW t, NEW free, Usable(g, t, free), NEW h, GraphOK(h, NodeKeys), SameContent(g, h)
  PROVE  /\ Usable(h, t, free)
         /\ \A c : Good(g, t, c) => Good(h, t, c)
         /\ Agree(g, t, free) => Agree(h, t, free)
<1> DEFINE D == DOMAIN g.nodes
<1>1. DOMAIN h.nodes = D /\ \A s \in D : h.nodes[s].key = g.nodes[s].key /\ h.nodes[s].vec = g.nodes[s].vec
  BY DEF SameContent
<1>2. Usable(h, t, free)
  BY <1>1 DEF Usable
<1> HIDE DEF D
<1>3. ASSUME NEW c, Good(g, t, c) PROVE Good(h, t, c)
  <2>1. NodesMatch(g, c)
    BY <1>3, FaithfulFacts DEF Good
  <2>2. NodesMatch(h, c)
    BY <1>1, <2>1 DEF NodesMatch, D
  <2>3. Faithful(h, c)
    BY <2>2, FaithfulFrom
  <2> QED BY <2>3, <1>3 DEF Good
<1>4. ASSUME Agree(g, t, free) PROVE Agree(h, t, free)
  <2>1. Entries(t) = NodePairs(g) /\ ToSet(free) = Freed(g) /\ IsInjective(free)
    BY <1>4 DEF Agree, NodePairs
  <2>2. ASSUME NEW x, NEW y PROVE <<x, y>> \in Entries(t) <=> <<x, y>> \in NodePairs(h)
    <3>1. <<x, y>> \in NodePairs(g) <=> y \in D /\ g.nodes[y].key = x /\ x # FreeKey
      BY NodePairsFacts DEF D
    <3>2. <<x, y>> \in NodePairs(h) <=> y \in D /\ h.nodes[y].key = x /\ x # FreeKey
      BY <1>1, NodePairsFacts
    <3> QED BY <3>1, <3>2, <2>1, <1>1
  <2>3. Entries(t) = NodePairs(h)
    BY <2>2, SamePairs
  <2>4. Freed(h) = Freed(g)
    BY <1>1 DEF Freed, D
  <2> QED BY <2>1, <2>3, <2>4 DEF Agree, NodePairs
<1> QED BY <1>2, <1>3, <1>4

LEMMA Isolating ==
  ASSUME NEW g, NEW t, NEW free, Usable(g, t, free), NEW h, h = isolate(g)
  PROVE  /\ Usable(h, t, free)
         /\ \A c : Good(g, t, c) => Good(h, t, c)
         /\ Agree(g, t, free) => Agree(h, t, free)
<1>1. GraphOK(g, NodeKeys)
  BY DEF Usable
<1>2. GraphOK(h, NodeKeys) /\ SameNodes(g, h)
  BY <1>1, IsolateFacts
<1>3. SameContent(g, h)
  BY <1>2 DEF SameNodes, SameContent
<1> QED BY <1>2, <1>3, KeepingSlots

\* Compaction moves nodes with their vectors; the lookup stays usable, and right
\* if the order is the one there was.
LEMMA Compacting ==
  ASSUME NEW g, NEW t, NEW free, Usable(g, t, free),
         NEW order \in CompactOrders(g), NEW h, h = compact(g, order)
  PROVE  /\ Usable(h, t, free)
         /\ \A c : Good(g, t, c) => Good(h, t, c)
         /\ Agree(g, t, free) /\ order = [i \in 1 .. Size(g) |-> i - 1] => Agree(h, t, free)
<1> DEFINE D == DOMAIN g.nodes
           n == Size(g)
<1>1. GraphOK(g, NodeKeys)
  BY DEF Usable
<1>2. n \in Nat /\ D = 0 .. n - 1
  BY <1>1 DEF GraphOK, NodesOK
<1>3. IsOrder(g, order)
  BY <1>1, OrderFacts
<1>4. /\ GraphOK(h, NodeKeys) /\ DOMAIN h.nodes = DOMAIN g.nodes
      /\ \A s \in DOMAIN g.nodes : /\ h.nodes[s].key = g.nodes[order[s + 1]].key
                                   /\ h.nodes[s].vec = g.nodes[order[s + 1]].vec
  BY <1>1, <1>3, CompactFacts
<1>5. /\ order \in [1 .. n -> 0 .. n - 1]
      /\ \A i, j \in 1 .. n : order[i] = order[j] => i = j
      /\ \A s \in 0 .. n - 1 : \E i \in 1 .. n : order[i] = s
  BY <1>3 DEF IsOrder
<1>6. Usable(h, t, free)
  BY <1>4 DEF Usable
<1> DEFINE Old(s) == order[s + 1]
<1> HIDE DEF n
<1>7. \A s \in D : Old(s) \in D /\ h.nodes[s].key = g.nodes[Old(s)].key /\ h.nodes[s].vec = g.nodes[Old(s)].vec
  <2>1. \A s \in D : s + 1 \in 1 .. n
    BY <1>2
  <2> QED BY <2>1, <1>2, <1>4, <1>5
<1>8. \A s, u \in D : Old(s) = Old(u) => s = u
  <2> SUFFICES ASSUME NEW s \in D, NEW u \in D, Old(s) = Old(u) PROVE s = u
    OBVIOUS
  <2>1. s + 1 \in 1 .. n /\ u + 1 \in 1 .. n /\ s \in Int /\ u \in Int
    BY <1>2
  <2>2. s + 1 = u + 1
    BY <2>1, <1>5
  <2> QED BY <2>1, <2>2
<1>9. \A u \in D : \E s \in D : Old(s) = u
  <2> SUFFICES ASSUME NEW u \in D PROVE \E s \in D : Old(s) = u
    OBVIOUS
  <2>1. PICK i \in 1 .. n : order[i] = u
    BY <1>2, <1>5
  <2>2. i - 1 \in D /\ (i - 1) + 1 = i
    BY <1>2
  <2> QED BY <2>1, <2>2
<1>10. DOMAIN h.nodes = D
  BY <1>4
<1> HIDE DEF D, Old
<1>11. ASSUME NEW c, Good(g, t, c) PROVE Good(h, t, c)
  <2>1. /\ \A u \in D : g.nodes[u].key \in Keys => c[g.nodes[u].key] # None /\ g.nodes[u].vec = c[g.nodes[u].key]
        /\ \A u, w \in D : g.nodes[u].key \in Keys /\ g.nodes[u].key = g.nodes[w].key => u = w
        /\ \A x \in Keys : c[x] # None => \E u \in D : g.nodes[u].key = x
    <3>1. Faithful(g, c)
      BY <1>11 DEF Good
    <3> QED BY <3>1, FaithfulFacts DEF NodesMatch, D
  <2>2. \A u \in D : h.nodes[u].key \in Keys => c[h.nodes[u].key] # None /\ h.nodes[u].vec = c[h.nodes[u].key]
    BY <2>1, <1>7
  <2>3. \A u, w \in D : h.nodes[u].key \in Keys /\ h.nodes[u].key = h.nodes[w].key => u = w
    BY <2>1, <1>7, <1>8
  <2>4. ASSUME NEW x \in Keys, c[x] # None PROVE \E u \in D : h.nodes[u].key = x
    <3>1. PICK u \in D : g.nodes[u].key = x
      BY <2>1, <2>4
    <3>2. PICK s \in D : Old(s) = u
      BY <1>9
    <3> QED BY <3>1, <3>2, <1>7
  <2>5. NodesMatch(h, c)
    BY <2>2, <2>3, <2>4, <1>10 DEF NodesMatch
  <2>6. Faithful(h, c)
    BY <2>5, FaithfulFrom
  <2> QED BY <2>6, <1>11 DEF Good
<1>12. ASSUME Agree(g, t, free), order = [i \in 1 .. Size(g) |-> i - 1] PROVE Agree(h, t, free)
  <2>1. \A s \in D : Old(s) = s
    <3> SUFFICES ASSUME NEW s \in D PROVE order[s + 1] = s
      BY DEF Old
    <3>1. s + 1 \in 1 .. n /\ s \in Int /\ (s + 1) - 1 = s
      BY <1>2
    <3> QED BY <3>1, <1>12 DEF n
  <2>2. SameContent(g, h)
    BY <2>1, <1>7, <1>10 DEF SameContent, D
  <2>3. Agree(g, t, free) => Agree(h, t, free)
    BY <1>4, <2>2, KeepingSlots
  <2> QED BY <2>3, <1>12
<1> QED BY <1>6, <1>11, <1>12

-----------------------------------------------------------------------------
(* The steps of the index *)

\* An index and the content it is judged by.
Sound(ix, c, lost, stale) ==
  /\ IndexShape(ix)
  /\ c \in [Keys -> Vectors \union {None}]
  /\ Usable(ix.graph, ix.lookup, ix.free)
  /\ ~lost => Good(ix.graph, ix.lookup, c)
  /\ ~lost /\ ~stale => Agree(ix.graph, ix.lookup, ix.free)

LEMMA SoundSame ==
  ASSUME NEW ix, NEW c, NEW lost, NEW stale, Sound(ix, c, lost, stale), NEW ix1, IndexShape(ix1),
         ix1.graph = ix.graph, ix1.lookup = ix.lookup, ix1.free = ix.free
  PROVE  Sound(ix1, c, lost, stale)
  BY DEF Sound

\* Removing a key, as the first step of an upsert or as a deletion.
AfterRemove(ix, k, r) ==
  /\ IndexShape(r.ix) /\ r.ix.deleted = ix.deleted /\ r.slots \in Seq(DOMAIN ix.graph.nodes)
  /\ Usable(r.ix.graph, r.ix.lookup, r.ix.free)
  /\ contains(r.ix.lookup, k) <=> CellsOf(r.ix.lookup, k) # {}
  /\ r.slots = <<>> => r.ix = ix
  /\ r.slots # <<>> => CellsOf(r.ix.lookup, k) = {} /\ r.ix.free # <<>>
  /\ \A c \in [Keys -> Vectors \union {None}] :
       Good(ix.graph, ix.lookup, c) /\ ~WrongSlot(ix, k, r.slots) /\ CellsOf(r.ix.lookup, k) = {} =>
         /\ Good(r.ix.graph, r.ix.lookup, [c EXCEPT ![k] = None])
         /\ Agree(ix.graph, ix.lookup, ix.free) => Agree(r.ix.graph, r.ix.lookup, r.ix.free)

LEMMA RemovedFacts ==
  ASSUME NEW ix, IndexShape(ix), Usable(ix.graph, ix.lookup, ix.free), NEW k \in Keys,
         NEW r, r = remove(ix, k)
  PROVE  AfterRemove(ix, k, r)
<1> DEFINE g == ix.graph
           t == ix.lookup
           free == ix.free
           slots == r.slots
           g1 == r.ix.graph
           t1 == r.ix.lookup
           free1 == r.ix.free
<1>1. /\ slots \in Seq(DOMAIN g.nodes)
      /\ IndexShape(r.ix) /\ r.ix.deleted = ix.deleted
      /\ slots = <<>> => r.ix = ix
      /\ slots # <<>> => RemovesSlots(g, t, free, k, slots, g1, t1, free1)
  <2>1. RemovesKey(ix, k, r)
    BY RemoveShape
  <2> QED BY <2>1 DEF RemovesKey
<1>2. Usable(g, t, free)
  OBVIOUS
<1>3. CASE slots = <<>>
  <2>1. r.ix = ix /\ g1 = g /\ t1 = t /\ free1 = free
    BY <1>1, <1>3
  <2>2. ASSUME NEW c \in [Keys -> Vectors \union {None}], Good(g, t, c), CellsOf(t, k) = {}
        PROVE  Good(g, t, [c EXCEPT ![k] = None])
    <3>1. c[k] = None
      BY <2>2 DEF Good
    <3>2. [c EXCEPT ![k] = None] = c
      BY <3>1
    <3> QED BY <3>2, <2>2
  <2>3. contains(t, k) <=> CellsOf(t, k) # {}
    <3> HIDE DEF t
    <3>1. Table(t, CellKeys) /\ ProbeReachable(t) /\ CellKeys \in SUBSET Nat /\ k \in Nat
      BY <1>2, KeyAssumptions DEF Usable
    <3> QED BY <3>1, MatchesFacts
  <2> QED BY <1>1, <1>3, <2>1, <2>2, <2>3 DEF AfterRemove
<1>4. CASE slots # <<>>
  <2>1. RemovesSlots(g, t, free, k, slots, g1, t1, free1)
    BY <1>1, <1>4
  <2>2. WrongSlot(ix, k, slots) <=> \E i \in DOMAIN slots : g.nodes[slots[i]].key # k
    BY DEF WrongSlot
  <2> HIDE DEF g, t, free, slots, g1, t1, free1
  <2>3. Usable(g1, t1, free1) /\ CellsOf(t1, k) = {} /\ free1 # <<>>
    BY <1>2, <1>4, <2>1, Removing
  <2>5. StaysRight(g, t, free, k, slots, g1, t1, free1)
    BY <1>2, <1>4, <2>1, Removing
  <2>4. contains(t1, k) <=> CellsOf(t1, k) # {}
    <3>1. Table(t1, CellKeys) /\ ProbeReachable(t1) /\ CellKeys \in SUBSET Nat /\ k \in Nat
      BY <2>3, KeyAssumptions DEF Usable
    <3> QED BY <3>1, MatchesFacts
  <2> QED BY <1>1, <1>4, <2>2, <2>3, <2>4, <2>5 DEF AfterRemove, StaysRight, g, t, free, slots, g1, t1, free1
<1> QED BY <1>3, <1>4

\* What a removal leaves for the content without the key, whatever the values.
LEMMA RemovedSound ==
  ASSUME NEW ix, NEW c, NEW lost, NEW stale, Sound(ix, c, lost, stale), NEW k \in Keys,
         NEW r, r = remove(ix, k), CellsOf(r.ix.lookup, k) = {}, NEW lost1, lost \/ WrongSlot(ix, k, r.slots) => lost1
  PROVE  Sound(r.ix, [c EXCEPT ![k] = None], lost1, stale)
<1> DEFINE c1 == [c EXCEPT ![k] = None]
<1>1. IndexShape(ix) /\ Usable(ix.graph, ix.lookup, ix.free) /\ c \in [Keys -> Vectors \union {None}]
  BY DEF Sound
<1>2. IndexShape(r.ix) /\ Usable(r.ix.graph, r.ix.lookup, r.ix.free)
  <2>1. AfterRemove(ix, k, r)
    BY <1>1, RemovedFacts
  <2> QED BY <2>1 DEF AfterRemove
<1>3. c1 \in [Keys -> Vectors \union {None}]
  BY <1>1
<1>4. ASSUME Good(ix.graph, ix.lookup, c), ~WrongSlot(ix, k, r.slots)
      PROVE  /\ Good(r.ix.graph, r.ix.lookup, c1)
             /\ Agree(ix.graph, ix.lookup, ix.free) => Agree(r.ix.graph, r.ix.lookup, r.ix.free)
  <2>1. AfterRemove(ix, k, r)
    BY <1>1, RemovedFacts
  <2> QED BY <2>1, <1>1, <1>4 DEF AfterRemove
<1> HIDE DEF c1
<1>5. Sound(r.ix, c1, lost1, stale)
  BY <1>1, <1>2, <1>3, <1>4 DEF Sound
<1> QED BY <1>5 DEF c1

LEMMA Deleting ==
  ASSUME NEW ix, NEW c, NEW lost, NEW stale, Sound(ix, c, lost, stale), NEW k \in Keys,
         NEW r, r = remove(ix, k), NEW d, NEW ix1, ix1 = [r.ix EXCEPT !.deleted = d],
         NEW lost1, lost1 <=> lost \/ (r.slots = <<>> /\ contains(ix.lookup, k)) \/ WrongSlot(ix, k, r.slots)
  PROVE  Sound(ix1, [c EXCEPT ![k] = None], lost1, stale)
<1> DEFINE c1 == [c EXCEPT ![k] = None]
<1>1. IndexShape(ix) /\ Usable(ix.graph, ix.lookup, ix.free) /\ c \in [Keys -> Vectors \union {None}]
  BY DEF Sound
<1>2. /\ IndexShape(r.ix) /\ Usable(r.ix.graph, r.ix.lookup, r.ix.free)
      /\ contains(r.ix.lookup, k) <=> CellsOf(r.ix.lookup, k) # {}
      /\ r.slots = <<>> => r.ix = ix
      /\ r.slots # <<>> => CellsOf(r.ix.lookup, k) = {}
  <2>1. AfterRemove(ix, k, r)
    BY <1>1, RemovedFacts
  <2> QED BY <2>1 DEF AfterRemove
<1>3. Sound(r.ix, c1, lost1, stale)
  <2>1. CASE CellsOf(r.ix.lookup, k) = {}
    BY <2>1, RemovedSound
  <2>2. CASE CellsOf(r.ix.lookup, k) # {}
    <3>1. lost1
      BY <2>2, <1>2
    <3>2. c1 \in [Keys -> Vectors \union {None}]
      BY <1>1
    <3> QED BY <3>1, <3>2, <1>2 DEF Sound
  <2> QED BY <2>1, <2>2
<1> HIDE DEF c1
<1>4. IndexShape(ix1) /\ ix1.graph = r.ix.graph /\ ix1.lookup = r.ix.lookup /\ ix1.free = r.ix.free
  <2> DEFINE x == r.ix
  <2>1. IndexShape(x) /\ ix1 = [x EXCEPT !.deleted = d]
    BY <1>2
  <2> HIDE DEF x
  <2>2. IndexShape(ix1) /\ ix1.graph = x.graph /\ ix1.lookup = x.lookup /\ ix1.free = x.free
    BY <2>1 DEF IndexShape
  <2> QED BY <2>2 DEF x
<1>5. Sound(ix1, c1, lost1, stale)
  <2> DEFINE x == r.ix
  <2>1. Sound(x, c1, lost1, stale) /\ IndexShape(ix1) /\ ix1.graph = x.graph /\ ix1.lookup = x.lookup /\ ix1.free = x.free
    BY <1>3, <1>4
  <2> HIDE DEF x
  <2> QED BY <2>1, SoundSame
<1> QED BY <1>5 DEF c1

\* An upsert that fails has removed nothing.
LEMMA Failing ==
  ASSUME NEW ix, NEW c, NEW lost, NEW stale, Sound(ix, c, lost, stale), NEW k \in Keys,
         NEW r, r = remove(ix, k), contains(r.ix.lookup, k) \/ r.ix.free = <<>>,
         NEW d, NEW ix1, ix1 = [r.ix EXCEPT !.deleted = d]
  PROVE  Sound(ix1, c, lost, stale) /\ r.slots = <<>> /\ r.ix = ix
<1>1. IndexShape(ix) /\ Usable(ix.graph, ix.lookup, ix.free) /\ c \in [Keys -> Vectors \union {None}]
  BY DEF Sound
<1>2. /\ contains(r.ix.lookup, k) <=> CellsOf(r.ix.lookup, k) # {}
      /\ r.slots = <<>> => r.ix = ix
      /\ r.slots # <<>> => CellsOf(r.ix.lookup, k) = {} /\ r.ix.free # <<>>
  <2>1. AfterRemove(ix, k, r)
    BY <1>1, RemovedFacts
  <2> QED BY <2>1 DEF AfterRemove
<1>3. r.slots = <<>> /\ r.ix = ix
  BY <1>2
<1>4. IndexShape(ix1) /\ ix1.graph = ix.graph /\ ix1.lookup = ix.lookup /\ ix1.free = ix.free
  BY <1>1, <1>3 DEF IndexShape
<1> QED BY <1>3, <1>4, SoundSame

LEMMA ReuseShape ==
  ASSUME NEW ix, IndexShape(ix), NEW k, NEW v, NEW y, y = ReuseNode(ix, k, v)
  PROVE  /\ IndexShape(y) /\ y.graph = update(ix.graph, Head(ix.free), k, v)
         /\ y.lookup = try_emplace(ix.lookup, k, Head(ix.free)) /\ y.free = Tail(ix.free)
<1> DEFINE g == update(ix.graph, Head(ix.free), k, v)
           t == try_emplace(ix.lookup, k, Head(ix.free))
           f == Tail(ix.free)
<1>1. y = [ix EXCEPT !.free = f, !.graph = g, !.lookup = t]
  BY DEF ReuseNode, try_pop, IndexShape
<1> HIDE DEF g, t, f
<1>2. IndexShape(y) /\ y.graph = g /\ y.lookup = t /\ y.free = f
  BY <1>1 DEF IndexShape
<1> QED BY <1>2 DEF g, t, f

LEMMA MakeShape ==
  ASSUME NEW ix, IndexShape(ix), NEW k, NEW v, NEW level, NEW y, y = MakeNode(ix, k, v, level)
  PROVE  /\ IndexShape(y) /\ y.graph = add(ix.graph, k, v, level)
         /\ y.lookup = try_emplace(ix.lookup, k, Size(ix.graph)) /\ y.free = ix.free
<1> DEFINE g == add(ix.graph, k, v, level)
           t == try_emplace(ix.lookup, k, Size(ix.graph))
<1>1. y = [ix EXCEPT !.graph = g, !.lookup = t]
  BY DEF MakeNode, IndexShape
<1> HIDE DEF g, t
<1>2. IndexShape(y) /\ y.graph = g /\ y.lookup = t /\ y.free = ix.free
  BY <1>1 DEF IndexShape
<1> QED BY <1>2 DEF g, t

LEMMA ReusedSound ==
  ASSUME NEW ix, NEW c, NEW lost, NEW stale, Sound(ix, c, lost, stale), ix.free # <<>>,
         NEW k \in Keys, NEW v \in Vectors, CellsOf(ix.lookup, k) = {}, NEW lost1, lost \/ WrongFree(ix) => lost1,
         NEW y, y = ReuseNode(ix, k, v)
  PROVE  Sound(y, [c EXCEPT ![k] = v], lost1, stale)
<1> DEFINE g == ix.graph
           t == ix.lookup
           free == ix.free
           s == Head(free)
           h == y.graph
           t1 == y.lookup
           free1 == y.free
           c1 == [c EXCEPT ![k] = v]
<1>1. /\ IndexShape(ix) /\ Usable(g, t, free) /\ c \in [Keys -> Vectors \union {None}]
      /\ ~lost => Good(g, t, c)
      /\ ~lost /\ ~stale => Agree(g, t, free)
  BY DEF Sound
<1>2. IndexShape(y) /\ h = update(g, s, k, v) /\ t1 = try_emplace(t, k, s) /\ free1 = Tail(free)
  BY <1>1, ReuseShape
<1>3. c1 \in [Keys -> Vectors \union {None}]
  BY <1>1
<1>4. ~lost1 => ~lost /\ g.nodes[s].key = FreeKey
  BY DEF WrongFree
<1>5. free # <<>> /\ CellsOf(t, k) = {} /\ s = Head(free)
  OBVIOUS
<1> HIDE DEF g, t, free, s, h, t1, free1, c1
<1>6. Usable(h, t1, free1)
  BY <1>1, <1>2, <1>5, Reusing
<1>7. ASSUME Good(g, t, c), g.nodes[s].key = FreeKey
      PROVE  Good(h, t1, c1) /\ (Agree(g, t, free) => Agree(h, t1, free1))
  <2>1. ReuseKeeps(g, t, free, s, k, v, h, t1, free1)
    BY <1>1, <1>2, <1>5, Reusing
  <2> QED BY <2>1, <1>1, <1>7 DEF ReuseKeeps, c1
<1>8. Sound(y, c1, lost1, stale)
  BY <1>1, <1>2, <1>3, <1>4, <1>6, <1>7 DEF Sound, h, t1, free1
<1> QED BY <1>8 DEF c1

LEMMA MadeSound ==
  ASSUME NEW ix, NEW c, NEW lost, NEW stale, Sound(ix, c, lost, stale), ix.free = <<>>,
         NEW k \in Keys, NEW v \in Vectors, NEW level \in Nat, CellsOf(ix.lookup, k) = {}, NEW lost1, lost => lost1,
         NEW y, y = MakeNode(ix, k, v, level)
  PROVE  Sound(y, [c EXCEPT ![k] = v], lost1, stale)
<1> DEFINE g == ix.graph
           t == ix.lookup
           h == y.graph
           t1 == y.lookup
           c1 == [c EXCEPT ![k] = v]
<1>1. /\ IndexShape(ix) /\ Usable(g, t, <<>>) /\ c \in [Keys -> Vectors \union {None}]
      /\ ~lost => Good(g, t, c)
      /\ ~lost /\ ~stale => Agree(g, t, <<>>)
  BY DEF Sound
<1>2. IndexShape(y) /\ h = add(g, k, v, level) /\ t1 = try_emplace(t, k, Size(g)) /\ y.free = <<>>
  BY <1>1, MakeShape
<1>3. c1 \in [Keys -> Vectors \union {None}]
  BY <1>1
<1>4. CellsOf(t, k) = {}
  OBVIOUS
<1> HIDE DEF g, t, h, t1, c1
<1>5. Usable(h, t1, <<>>)
  BY <1>1, <1>2, <1>4, Making
<1>6. ASSUME Good(g, t, c)
      PROVE  Good(h, t1, c1) /\ (Agree(g, t, <<>>) => Agree(h, t1, <<>>))
  BY <1>1, <1>2, <1>4, <1>6, Making DEF c1
<1>7. Sound(y, c1, lost1, stale)
  BY <1>1, <1>2, <1>3, <1>5, <1>6 DEF Sound, h, t1
<1> QED BY <1>7 DEF c1

SavedSound(sv, lost) ==
  sv.file # None =>
    /\ sv.content \in [Keys -> Vectors \union {None}]
    /\ GraphOK(sv.file.graph, NodeKeys)
    /\ ~lost => Faithful(sv.file.graph, sv.content)

\* The inductive invariant of the index: the installed one and the snapshot.
IndexInv ==
  /\ HistoryShape(history)
  /\ Sound(index, content, history.lost, history.stale)
  /\ SavedSound(saved, history.lost)

LEMMA IndexInvInit == IndexInit => IndexInv
<1> SUFFICES ASSUME IndexInit PROVE IndexInv
  OBVIOUS
<1>1. index = Create /\ content = [k \in Keys |-> None] /\ saved = [file |-> None, content |-> content]
      /\ history = [stale |-> FALSE, lost |-> FALSE, drift |-> FALSE]
  BY DEF IndexInit
<1>2. HistoryShape(history)
  BY <1>1 DEF HistoryShape
<1>3. content \in [Keys -> Vectors \union {None}]
  BY <1>1
<1>4. Sound(index, content, history.lost, history.stale)
  BY <1>1, <1>3, CreateFacts DEF Sound
<1>5. SavedSound(saved, history.lost)
  BY <1>1 DEF SavedSound
<1> QED BY <1>2, <1>4, <1>5 DEF IndexInv

\* A step's part in the history of wrong writes.
NotesLoss(h, w, h1) == h1 = [h EXCEPT !.lost = @ \/ w]

LEMMA LostMore ==
  ASSUME NEW h, HistoryShape(h), NEW w \in BOOLEAN, NEW h1, NotesLoss(h, w, h1)
  PROVE  HistoryShape(h1) /\ (h1.lost <=> h.lost \/ w) /\ h1.stale = h.stale
<1> DEFINE a == h.lost \/ w
<1>1. a \in BOOLEAN /\ (a <=> h.lost \/ w)
  BY Zenon DEF HistoryShape
<1>2. h1 = [h EXCEPT !.lost = a]
  BY DEF NotesLoss
<1> HIDE DEF a
<1>3. HistoryShape(h1) /\ h1.lost = a /\ h1.stale = h.stale
  BY <1>1, <1>2 DEF HistoryShape
<1> QED BY <1>1, <1>3

\* What every step leaves: the rest of the invariant follows.
Kept == 
  /\ HistoryShape(history')
  /\ Sound(index', content', history'.lost, history'.stale)
  /\ history.lost => history'.lost

LEMMA UpsertStep ==
  ASSUME IndexInv, NEW k \in Keys, NEW v \in Vectors, NEW level \in Nat, Upsert(k, v, level)
  PROVE  Kept
<1> DEFINE r == remove(index, k)
           gone == [r.ix EXCEPT !.deleted = @ + Len(r.slots)]
           wrong == WrongSlot(index, k, r.slots) \/ WrongFree(r.ix)
           Noted == history' = [history EXCEPT !.lost = @ \/ wrong]
           d == DeletedAfterAdd(gone.deleted)
           c1 == [content EXCEPT ![k] = v]
<1>1. \/ UNCHANGED <<index, content, history>>
      \/ (contains(r.ix.lookup, k) \/ r.ix.free = <<>>) /\ index' = gone /\ UNCHANGED <<content, history>>
      \/ ~contains(r.ix.lookup, k) /\ r.ix.free # <<>> /\ index' = [ReuseNode(gone, k, v) EXCEPT !.deleted = d] /\ content' = c1 /\ Noted
      \/ ~contains(r.ix.lookup, k) /\ r.ix.free = <<>> /\ index' = [MakeNode(gone, k, v, level) EXCEPT !.deleted = d] /\ content' = c1 /\ Noted
  BY DEF Upsert, Stuck
<1>2. HistoryShape(history) /\ Sound(index, content, history.lost, history.stale)
  BY DEF IndexInv
<1>3. CASE UNCHANGED <<index, content, history>>
  BY <1>2, <1>3 DEF Kept
<1>4. CASE (contains(r.ix.lookup, k) \/ r.ix.free = <<>>) /\ index' = gone /\ UNCHANGED <<content, history>>
  <2> DEFINE n == r.ix.deleted + Len(r.slots)
             rr == r
             ix1 == index'
  <2>1. rr = remove(index, k) /\ (contains(rr.ix.lookup, k) \/ rr.ix.free = <<>>) /\ ix1 = [rr.ix EXCEPT !.deleted = n]
    BY <1>4
  <2> HIDE DEF n, rr, ix1
  <2>2. Sound(ix1, content, history.lost, history.stale)
    BY <2>1, <1>2, Failing
  <2> QED BY <2>2, <1>2, <1>4 DEF Kept, ix1
<1>5. IndexShape(index) /\ Usable(index.graph, index.lookup, index.free) /\ content \in [Keys -> Vectors \union {None}]
  BY <1>2 DEF Sound
<1>6. AfterRemove(index, k, r)
  BY <1>5, RemovedFacts
<1>7. ASSUME Noted
      PROVE  HistoryShape(history') /\ (history'.lost <=> history.lost \/ wrong) /\ history'.stale = history.stale
  <2> DEFINE w == wrong
             h == history
             h1 == history'
  <2>1. w \in BOOLEAN
    BY DEF WrongSlot, WrongFree
  <2>2. h1 = [h EXCEPT !.lost = @ \/ w] /\ HistoryShape(h)
    BY <1>2, <1>7
  <2> HIDE DEF w, h, h1
  <2>3. NotesLoss(h, w, h1)
    BY <2>2 DEF NotesLoss
  <2>4. HistoryShape(h1) /\ (h1.lost <=> h.lost \/ w) /\ h1.stale = h.stale
    <3>1. HistoryShape(h)
      BY <2>2
    <3> QED BY <3>1, <2>1, <2>3, LostMore, Zenon
  <2> QED BY <2>4 DEF w, h, h1
<1>8. ASSUME ~contains(r.ix.lookup, k), Noted
      PROVE  /\ CellsOf(r.ix.lookup, k) = {}
             /\ Sound(gone, [content EXCEPT ![k] = None], history'.lost, history.stale)
             /\ IndexShape(gone) /\ gone.graph = r.ix.graph /\ gone.lookup = r.ix.lookup /\ gone.free = r.ix.free
  <2> DEFINE x == r.ix
             c0 == [content EXCEPT ![k] = None]
             n == x.deleted + Len(r.slots)
             y == gone
             rr == r
             l1 == history'.lost
             l0 == history.lost
             st == history.stale
  <2>1. CellsOf(x.lookup, k) = {} /\ IndexShape(x)
    BY <1>6, <1>8 DEF AfterRemove
  <2>2. y = [x EXCEPT !.deleted = n]
    OBVIOUS
  <2>3. l0 \/ WrongSlot(index, k, rr.slots) => l1
    BY <1>7, <1>8
  <2>4. rr = remove(index, k) /\ CellsOf(rr.ix.lookup, k) = {} /\ x = rr.ix /\ Sound(index, content, l0, st)
    BY <2>1, <1>2
  <2> HIDE DEF x, n, y, rr, l1, l0, st
  <2>5. Sound(x, c0, l1, st)
    <3> DEFINE ix == index
               c == content
    <3>2. rr = remove(ix, k) /\ CellsOf(rr.ix.lookup, k) = {} /\ Sound(ix, c, l0, st)
      BY <2>4
    <3>3. l0 \/ WrongSlot(ix, k, rr.slots) => l1
      BY <2>3
    <3> HIDE DEF ix, c
    <3>4. Sound(rr.ix, [c EXCEPT ![k] = None], l1, st)
      BY <3>2, <3>3, RemovedSound, SMTT(30)
    <3>1. Sound(rr.ix, [content EXCEPT ![k] = None], l1, st)
      BY <3>4 DEF c
    <3> QED BY <3>1, <2>4
  <2>6. IndexShape(y) /\ y.graph = x.graph /\ y.lookup = x.lookup /\ y.free = x.free
    BY <2>1, <2>2 DEF IndexShape
  <2> HIDE DEF c0
  <2>7. Sound(y, c0, l1, st)
    BY <2>5, <2>6, SoundSame
  <2> QED BY <2>1, <2>6, <2>7 DEF x, c0, y, l1, st
<1>9. [[content EXCEPT ![k] = None] EXCEPT ![k] = v] = c1
  BY <1>5
<1>10. ASSUME NEW y, Sound(y, c1, history'.lost, history.stale), index' = [y EXCEPT !.deleted = d], content' = c1, Noted
       PROVE  Kept
  <2> DEFINE ix1 == index'
             n == d
             l1 == history'.lost
             l0 == history.lost
             st == history.stale
             c == c1
  <2>1. IndexShape(y) /\ ix1 = [y EXCEPT !.deleted = n] /\ Sound(y, c, l1, st)
    BY <1>10 DEF Sound
  <2> HIDE DEF ix1, n, l1, l0, st, c
  <2>2. IndexShape(ix1) /\ ix1.graph = y.graph /\ ix1.lookup = y.lookup /\ ix1.free = y.free
    BY <2>1 DEF IndexShape
  <2>3. Sound(ix1, c, l1, st)
    BY <2>1, <2>2, SoundSame
  <2> QED BY <2>3, <1>7, <1>10 DEF Kept, ix1, l1, l0, st, c
<1> HIDE DEF gone, c1, d, Noted
<1>11. CASE ~contains(r.ix.lookup, k) /\ r.ix.free # <<>> /\ index' = [ReuseNode(gone, k, v) EXCEPT !.deleted = d] /\ content' = c1 /\ Noted
  <2> DEFINE y == ReuseNode(gone, k, v)
             c0 == [content EXCEPT ![k] = None]
             l1 == history'.lost
             st == history.stale
             x == gone
  <2>1. CellsOf(r.ix.lookup, k) = {} /\ Sound(x, c0, l1, st) /\ x.graph = r.ix.graph /\ x.lookup = r.ix.lookup /\ x.free = r.ix.free
    BY <1>8, <1>11
  <2>2. l1 \/ WrongFree(x) => l1
    <3>1. WrongFree(x) => WrongFree(r.ix)
      BY <2>1 DEF WrongFree
    <3> QED BY <3>1, <1>7, <1>11
  <2>3. y = ReuseNode(x, k, v) /\ x.free # <<>> /\ CellsOf(x.lookup, k) = {}
    BY <2>1, <1>11
  <2> HIDE DEF y, x, c0, l1, st
  <2>4. Sound(y, [c0 EXCEPT ![k] = v], l1, st)
    BY <2>1, <2>2, <2>3, ReusedSound
  <2>5. Sound(y, c1, l1, st)
    BY <2>4, <1>9 DEF c0
  <2> QED BY <2>5, <1>10, <1>11 DEF y, x, l1, st
<1>12. CASE ~contains(r.ix.lookup, k) /\ r.ix.free = <<>> /\ index' = [MakeNode(gone, k, v, level) EXCEPT !.deleted = d] /\ content' = c1 /\ Noted
  <2> DEFINE y == MakeNode(gone, k, v, level)
             c0 == [content EXCEPT ![k] = None]
             l1 == history'.lost
             st == history.stale
             x == gone
  <2>1. CellsOf(r.ix.lookup, k) = {} /\ Sound(x, c0, l1, st) /\ x.lookup = r.ix.lookup /\ x.free = r.ix.free
    BY <1>8, <1>12
  <2>2. y = MakeNode(x, k, v, level) /\ x.free = <<>> /\ CellsOf(x.lookup, k) = {} /\ (l1 => l1)
    BY <2>1, <1>12
  <2> HIDE DEF y, x, c0, l1, st
  <2>3. Sound(y, [c0 EXCEPT ![k] = v], l1, st)
    BY <2>1, <2>2, MadeSound
  <2>4. Sound(y, c1, l1, st)
    BY <2>3, <1>9 DEF c0
  <2> QED BY <2>4, <1>10, <1>12 DEF y, x, l1, st
<1> HIDE DEF r
<1> QED BY <1>1, <1>3, <1>4, <1>11, <1>12 DEF gone, c1, d, Noted

LEMMA DeleteStep ==
  ASSUME IndexInv, NEW k \in Keys, Delete(k)
  PROVE  Kept
<1> DEFINE r == remove(index, k)
           missed == r.slots = <<>> /\ contains(index.lookup, k)
           n == r.ix.deleted + Len(r.slots)
           w == missed \/ WrongSlot(index, k, r.slots)
           h == history
           h1 == history'
<1>1. \/ UNCHANGED <<index, content, history>>
      \/ /\ index' = [r.ix EXCEPT !.deleted = n]
         /\ content' = [content EXCEPT ![k] = None]
         /\ history' = [history EXCEPT !.lost = @ \/ missed \/ WrongSlot(index, k, r.slots)]
  BY DEF Delete, Stuck
<1>2. HistoryShape(history) /\ Sound(index, content, history.lost, history.stale)
  BY DEF IndexInv
<1>3. CASE UNCHANGED <<index, content, history>>
  BY <1>2, <1>3 DEF Kept
<1>4. CASE /\ index' = [r.ix EXCEPT !.deleted = n]
           /\ content' = [content EXCEPT ![k] = None]
           /\ history' = [history EXCEPT !.lost = @ \/ missed \/ WrongSlot(index, k, r.slots)]
  <2>1. w \in BOOLEAN
    BY DEF WrongSlot
  <2>2. NotesLoss(h, w, h1)
    <3>1. (h.lost \/ missed \/ WrongSlot(index, k, r.slots)) = (h.lost \/ w)
      BY <1>2 DEF HistoryShape
    <3> QED BY <1>4, <3>1 DEF NotesLoss
  <2>3. HistoryShape(h1) /\ (h1.lost <=> h.lost \/ w) /\ h1.stale = h.stale
    <3>1. HistoryShape(h)
      BY <1>2
    <3> HIDE DEF h, h1, w
    <3> QED BY <3>1, <2>1, <2>2, LostMore, Zenon
  <2>4. Sound(index', content', h1.lost, h.stale)
    <3> DEFINE rr == r
               ix == index
               c == content
               ix1 == index'
               l0 == h.lost
               l1 == h1.lost
               st == h.stale
               d == n
    <3>1. Sound(ix, c, l0, st) /\ rr = remove(ix, k) /\ ix1 = [rr.ix EXCEPT !.deleted = d]
      BY <1>2, <1>4
    <3>2. l1 <=> l0 \/ (rr.slots = <<>> /\ contains(ix.lookup, k)) \/ WrongSlot(ix, k, rr.slots)
      BY <2>3
    <3>3. content' = [c EXCEPT ![k] = None]
      BY <1>4
    <3> HIDE DEF rr, ix, c, ix1, l0, l1, st, d
    <3>4. Sound(ix1, [c EXCEPT ![k] = None], l1, st)
      BY <3>1, <3>2, Deleting
    <3> QED BY <3>3, <3>4 DEF ix1, l1, st
  <2> QED BY <2>3, <2>4 DEF Kept
<1> QED BY <1>1, <1>3, <1>4

LEMMA IsolateStep ==
  ASSUME IndexInv, Isolate, UNCHANGED <<content, history>>
  PROVE  Kept
<1> DEFINE ix == index
           ix1 == index'
           h == history
           h1 == history'
           g1 == isolate(ix.graph)
<1>1. HistoryShape(h) /\ Sound(ix, content, h.lost, h.stale)
  BY DEF IndexInv
<1>2. ix1 = [ix EXCEPT !.graph = g1] /\ h1 = h
  BY DEF Isolate
<1>3. HistoryShape(h1) /\ h1.lost = h.lost /\ h1.stale = h.stale
  <2> HIDE DEF h, h1
  <2> QED BY <1>1, <1>2 DEF HistoryShape
<1>4. /\ IndexShape(ix) /\ content \in [Keys -> Vectors \union {None}] /\ Usable(ix.graph, ix.lookup, ix.free)
      /\ ~h.lost => Good(ix.graph, ix.lookup, content)
      /\ ~h.lost /\ ~h.stale => Agree(ix.graph, ix.lookup, ix.free)
  BY <1>1 DEF Sound
<1>5. IndexShape(ix1) /\ ix1.graph = g1 /\ ix1.lookup = ix.lookup /\ ix1.free = ix.free
  <2> HIDE DEF ix, ix1, g1
  <2> QED BY <1>2, <1>4 DEF IndexShape
<1>6. /\ Usable(g1, ix.lookup, ix.free)
      /\ \A c : Good(ix.graph, ix.lookup, c) => Good(g1, ix.lookup, c)
      /\ Agree(ix.graph, ix.lookup, ix.free) => Agree(g1, ix.lookup, ix.free)
  <2> DEFINE g == ix.graph
             t == ix.lookup
             f == ix.free
             gg == g1
  <2>1. Usable(g, t, f) /\ gg = isolate(g)
    BY <1>4
  <2> HIDE DEF g, t, f, gg
  <2>2. /\ Usable(gg, t, f)
        /\ \A c : Good(g, t, c) => Good(gg, t, c)
        /\ Agree(g, t, f) => Agree(gg, t, f)
    BY <2>1, Isolating
  <2> QED BY <2>2 DEF g, t, f, gg
<1> HIDE DEF g1
<1>7. Sound(ix1, content, h1.lost, h1.stale)
  BY <1>3, <1>4, <1>5, <1>6 DEF Sound
<1> QED BY <1>3, <1>7 DEF Kept

LEMMA CompactStep ==
  ASSUME IndexInv, NEW order \in CompactOrders(index.graph), Compact(order), UNCHANGED content
  PROVE  Kept
<1> DEFINE ix == index
           ix1 == index'
           h == history
           h1 == history'
           g1 == compact(ix.graph, order)
           moved == order # [i \in 1 .. Size(ix.graph) |-> i - 1]
           b == RoundUp(Size(ix.graph))
<1>1. HistoryShape(h) /\ Sound(ix, content, h.lost, h.stale)
  BY DEF IndexInv
<1>2. /\ IndexShape(ix) /\ content \in [Keys -> Vectors \union {None}] /\ Usable(ix.graph, ix.lookup, ix.free)
      /\ ~h.lost => Good(ix.graph, ix.lookup, content)
      /\ ~h.lost /\ ~h.stale => Agree(ix.graph, ix.lookup, ix.free)
  BY <1>1 DEF Sound
<1>3. ix1 = [ix EXCEPT !.graph = g1, !.buffer = b, !.deleted = 0]
  BY <1>2 DEF Compact, Compacted, IndexShape
<1>4. \E x : h1 = [h EXCEPT !.stale = @ \/ moved, !.drift = x]
  BY DEF Compact
<1>5. HistoryShape(h1) /\ h1.lost = h.lost /\ (h1.stale <=> h.stale \/ moved)
  <2> DEFINE a == h.stale \/ moved
  <2>1. a \in BOOLEAN /\ (a <=> h.stale \/ moved)
    BY <1>1, Zenon DEF HistoryShape
  <2>2. \E x : h1 = [h EXCEPT !.stale = a, !.drift = x]
    BY <1>4
  <2> HIDE DEF a, h, h1, moved
  <2>3. HistoryShape(h1) /\ h1.lost = h.lost /\ h1.stale = a
    BY <1>1, <2>1, <2>2 DEF HistoryShape
  <2> QED BY <2>1, <2>3
<1>6. IndexShape(ix1) /\ ix1.graph = g1 /\ ix1.lookup = ix.lookup /\ ix1.free = ix.free
  <2> HIDE DEF ix, ix1, g1, b
  <2> QED BY <1>2, <1>3 DEF IndexShape
<1>7. /\ Usable(g1, ix.lookup, ix.free)
      /\ \A c : Good(ix.graph, ix.lookup, c) => Good(g1, ix.lookup, c)
      /\ Agree(ix.graph, ix.lookup, ix.free) /\ ~moved => Agree(g1, ix.lookup, ix.free)
  <2> DEFINE g == ix.graph
             t == ix.lookup
             f == ix.free
             gg == g1
             o == order
  <2>1. Usable(g, t, f) /\ o \in CompactOrders(g) /\ gg = compact(g, o)
    BY <1>2
  <2>2. ~moved <=> o = [i \in 1 .. Size(g) |-> i - 1]
    OBVIOUS
  <2> HIDE DEF g, t, f, gg, o, moved
  <2>3. /\ Usable(gg, t, f)
        /\ \A c : Good(g, t, c) => Good(gg, t, c)
        /\ Agree(g, t, f) /\ o = [i \in 1 .. Size(g) |-> i - 1] => Agree(gg, t, f)
    BY <2>1, Compacting
  <2>4. /\ Usable(gg, t, f)
        /\ \A c : Good(g, t, c) => Good(gg, t, c)
        /\ Agree(g, t, f) /\ ~moved => Agree(gg, t, f)
    BY <2>2, <2>3
  <2> QED BY <2>4 DEF g, t, f, gg
<1> HIDE DEF g1, moved
<1>8. Sound(ix1, content, h1.lost, h1.stale)
  BY <1>2, <1>5, <1>6, <1>7 DEF Sound
<1> QED BY <1>5, <1>8 DEF Kept

\* A loaded snapshot replaces whatever was installed.
LEMMA InstallIndexStep ==
  ASSUME IndexInv, Install
  PROVE  Kept
<1> DEFINE h == history
           h1 == history'
           ix1 == index'
           image == saved.file
           c == saved.content
<1>1. HistoryShape(h) /\ SavedSound(saved, h.lost)
  BY DEF IndexInv
<1>2. image # None /\ ix1 = LoadFromSnapshot(image) /\ content' = c /\ h1 = [h EXCEPT !.stale = FALSE, !.drift = FALSE]
  BY DEF Install
<1>3. c \in [Keys -> Vectors \union {None}] /\ GraphOK(image.graph, NodeKeys) /\ (~h.lost => Faithful(image.graph, c))
  BY <1>1, <1>2 DEF SavedSound
<1>4. HistoryShape(h1) /\ h1.lost = h.lost /\ h1.stale = FALSE
  <2> HIDE DEF h, h1
  <2> QED BY <1>1, <1>2 DEF HistoryShape
<1> HIDE DEF ix1, image, c, h, h1
<1>5. /\ IndexShape(ix1)
      /\ Usable(ix1.graph, ix1.lookup, ix1.free) /\ Agree(ix1.graph, ix1.lookup, ix1.free)
      /\ \A x : Faithful(image.graph, x) => Good(ix1.graph, ix1.lookup, x)
  BY <1>2, <1>3, LoadFacts
<1>6. Sound(ix1, c, h1.lost, h1.stale)
  BY <1>3, <1>4, <1>5 DEF Sound
<1> QED BY <1>2, <1>4, <1>6 DEF Kept, ix1, h, h1

LEMMA IndexInvStep == IndexInv /\ [IndexNext]_indexVars => IndexInv'
<1> SUFFICES ASSUME IndexInv, [IndexNext]_indexVars PROVE IndexInv'
  OBVIOUS
<1> USE DEF IndexInv
<1>1. ASSUME Kept, saved' = saved PROVE IndexInv'
  <2>1. SavedSound(saved', history'.lost)
    BY <1>1 DEF Kept, SavedSound
  <2> QED BY <1>1, <2>1 DEF Kept
<1>2. ASSUME index' = index, content' = content, history' = history PROVE Kept
  BY <1>2 DEF Kept
<1>3. CASE Write
  <2>1. saved' = saved
    BY <1>3 DEF Write
  <2>2. ASSUME NEW p \in Payloads, Upsert(p[1], p[2], p[3]) PROVE Kept
    <3>1. p[1] \in Keys /\ p[2] \in Vectors /\ p[3] \in Nat
      BY IndexAssumption DEF Vectors
    <3> DEFINE k == p[1]
               v == p[2]
               l == p[3]
    <3>2. k \in Keys /\ v \in Vectors /\ l \in Nat /\ Upsert(k, v, l)
      BY <2>2, <3>1
    <3> HIDE DEF k, v, l, IndexInv
    <3> QED BY <3>2, UpsertStep
  <2>3. ASSUME NEW k \in Keys, Delete(k) PROVE Kept
    <3> HIDE DEF IndexInv
    <3> QED BY <2>3, DeleteStep
  <2> QED BY <1>1, <1>3, <2>1, <2>2, <2>3 DEF Write
<1>4. CASE CheckTotal \/ CheckSize \/ \E overdue \in BOOLEAN : CheckDecide(overdue)
  BY <1>1, <1>2, <1>4 DEF CheckTotal, CheckSize, CheckDecide
<1>5. CASE RunDangling \/ RunFinish
  BY <1>1, <1>2, <1>5 DEF RunDangling, RunFinish
<1>6. CASE RunIsolate
  <2>1. Isolate /\ content' = content /\ history' = history /\ saved' = saved
    BY <1>6 DEF RunIsolate
  <2>2. Kept
    <3> HIDE DEF IndexInv
    <3> QED BY <2>1, IsolateStep
  <2> QED BY <1>1, <2>1, <2>2
<1>7. CASE RunCompact
  <2>1. PICK order \in CompactOrders(index.graph) : Compact(order)
    BY <1>7 DEF RunCompact
  <2>2. content' = content /\ saved' = saved
    BY <1>7 DEF RunCompact
  <2>3. Kept
    <3> HIDE DEF IndexInv
    <3> QED BY <2>1, <2>2, CompactStep
  <2> QED BY <1>1, <2>2, <2>3
<1>8. CASE SaveSnapshot
  <2>1. /\ index' = index /\ content' = content /\ history' = history
        /\ saved' = [file |-> SaveImage(CloneUnderLock(index)), content |-> content]
    BY <1>8 DEF SaveSnapshot
  <2>2. saved'.content = content /\ saved'.file.graph = index.graph
    BY <2>1 DEF SaveImage, CloneUnderLock
  <2>3. /\ content \in [Keys -> Vectors \union {None}] /\ GraphOK(index.graph, NodeKeys)
        /\ ~history.lost => Faithful(index.graph, content)
    BY DEF Sound, Usable, Good
  <2>4. SavedSound(saved', history'.lost)
    BY <2>1, <2>2, <2>3 DEF SavedSound
  <2> QED BY <2>1, <2>4
<1>9. CASE Install
  <2>1. saved' = saved
    BY <1>9 DEF Install
  <2>2. Kept
    <3> HIDE DEF IndexInv
    <3> QED BY <1>9, InstallIndexStep
  <2> QED BY <1>1, <2>1, <2>2
<1>10. CASE UNCHANGED indexVars
  BY <1>1, <1>2, <1>10 DEF indexVars
<1> QED BY <1>3, <1>4, <1>5, <1>6, <1>7, <1>8, <1>9, <1>10 DEF IndexNext

\* The inductive invariant of the vector index: Upsert, Delete, the maintenance
\* thread, SaveSnapshot and the installation of a snapshot keep graph, lookup
\* and ring usable always, faithful to the writes while none was lost, and in
\* agreement until a compaction moves a node.
THEOREM IndexInvariant == IndexSpec => []IndexInv
  BY IndexInvInit, IndexInvStep, PTL DEF IndexSpec

\* add, update, isolate and compact of index.hpp keep what its assertions demand
\* of the graph: lists within their limits, without self-loops, duplicates or
\* links to missing levels, and the entry at the top, for any connectivity,
\* expansion, levels drawn and interleaving with the maintenance thread.
THEOREM GraphAlwaysWellFormed == IndexSpec => []GraphWellFormed
<1>1. IndexInv => GraphWellFormed
  <2> SUFFICES ASSUME IndexInv PROVE WellFormed(index.graph)
    BY DEF GraphWellFormed
  <2>1. GraphOK(index.graph, NodeKeys)
    BY DEF IndexInv, Sound, Usable
  <2> QED BY <2>1, WellFormedGraph
<1> QED BY <1>1, IndexInvariant, PTL

\* Until a compaction moves a node, the lookup has one entry for each node that is
\* not removed, the ring holds the removed ones and no empty cell of the table
\* hides an entry: what remove and add_ of index_dense.hpp rely on, however often
\* tombstones are reused, the table grows and a snapshot is loaded.
THEOREM LookupAlwaysAgrees == IndexSpec => []LookupAgrees
<1>1. IndexInv => LookupAgrees
  BY DEF IndexInv, Sound, Usable, Agree, LookupAgrees
<1> QED BY <1>1, IndexInvariant, PTL

\* Upsert leaves one node for each present key, with its last vector, and Delete
\* none, whatever slots were reused, isolated, compacted or loaded in between, as
\* long as no write went to a wrong slot.
THEOREM ContentAlwaysMatches == IndexSpec => []ContentMatches
<1>1. IndexInv => ContentMatches
  BY DEF IndexInv, Sound, Good, ContentMatches
<1> QED BY <1>1, IndexInvariant, PTL

\* LoadFromSnapshot rebuilds from a file of SaveSnapshot the content at the time of
\* the clone, with a lookup and a ring that agree with it, also when the lookup of
\* the cloned index had been left behind by a compaction.
THEOREM SnapshotAlwaysRoundTrips == IndexSpec => []SnapshotRoundTrip
<1>1. IndexInv => SnapshotRoundTrip
  <2> SUFFICES ASSUME IndexInv, saved.file # None, ~history.lost
               PROVE  LET ix == LoadFromSnapshot(saved.file)
                      IN  /\ Faithful(ix.graph, saved.content)
                          /\ \A k \in Keys : contains(ix.lookup, k) <=> saved.content[k] # None
                          /\ \A s \in ToSet(ix.free) : ix.graph.nodes[s].key = FreeKey
    BY DEF SnapshotRoundTrip
  <2> DEFINE image == saved.file
             c == saved.content
             ix == LoadFromSnapshot(image)
  <2>1. GraphOK(image.graph, NodeKeys) /\ Faithful(image.graph, c)
    BY DEF IndexInv, SavedSound
  <2> HIDE DEF image, c, ix
  <2>2. /\ Usable(ix.graph, ix.lookup, ix.free) /\ Agree(ix.graph, ix.lookup, ix.free)
        /\ \A x : Faithful(image.graph, x) => Good(ix.graph, ix.lookup, x)
    BY <2>1, LoadFacts DEF ix
  <2>3. Faithful(ix.graph, c) /\ \A k \in Keys : CellsOf(ix.lookup, k) # {} <=> c[k] # None
    BY <2>1, <2>2 DEF Good
  <2>4. ASSUME NEW k \in Keys PROVE contains(ix.lookup, k) <=> CellsOf(ix.lookup, k) # {}
    <3> DEFINE t == ix.lookup
    <3>1. Table(t, CellKeys) /\ ProbeReachable(t) /\ CellKeys \in SUBSET Nat /\ k \in Nat
      BY <2>2, KeyAssumptions DEF Usable
    <3> HIDE DEF t
    <3>2. contains(t, k) <=> CellsOf(t, k) # {}
      BY <3>1, MatchesFacts
    <3> QED BY <3>2 DEF t
  <2>5. \A s \in ToSet(ix.free) : ix.graph.nodes[s].key = FreeKey
    BY <2>2 DEF Agree, Freed
  <2>6. /\ Faithful(ix.graph, c)
        /\ \A k \in Keys : contains(ix.lookup, k) <=> c[k] # None
        /\ \A s \in ToSet(ix.free) : ix.graph.nodes[s].key = FreeKey
    BY <2>3, <2>4, <2>5
  <2> QED BY <2>6 DEF ix, image, c
<1> QED BY <1>1, IndexInvariant, PTL

\* What a search reports, as keys.
LEMMA ReportedFacts ==
  ASSUME NEW g, GraphOK(g, NodeKeys), NEW c, Faithful(g, c), NEW q \in Int, NEW top,
         TopOK(g, q, DOMAIN g.nodes, Freed(g), top)
  PROVE  /\ \A i \in DOMAIN top :
              /\ g.nodes[top[i].slot].key \in Keys /\ c[g.nodes[top[i].slot].key] # None
              /\ top[i].dist = measure(q, c[g.nodes[top[i].slot].key])
         /\ \A i, j \in DOMAIN top : i < j =>
              g.nodes[top[i].slot].key # g.nodes[top[j].slot].key /\ top[i].dist <= top[j].dist
<1> DEFINE D == DOMAIN g.nodes
           K(i) == g.nodes[top[i].slot].key
<1>1. NodesOK(g, NodeKeys) /\ \A s \in D : g.nodes[s].key \in NodeKeys
  <2>1. Size(g) \in Nat /\ D = 0 .. Size(g) - 1 /\ \A s \in 0 .. Size(g) - 1 : NodeShape(g.nodes[s], NodeKeys)
    BY DEF GraphOK, NodesOK
  <2> QED BY <2>1 DEF NodeShape, GraphOK
<1>2. /\ \A u \in D : g.nodes[u].key \in Keys => c[g.nodes[u].key] # None /\ g.nodes[u].vec = c[g.nodes[u].key]
      /\ \A u, w \in D : g.nodes[u].key \in Keys /\ g.nodes[u].key = g.nodes[w].key => u = w
  BY FaithfulFacts DEF NodesMatch
<1>3. /\ top \in Seq(Cand(g, q, D)) /\ IsInjective(top) /\ Closest1st(top)
      /\ \A i \in DOMAIN top : top[i].slot \in D \ Freed(g)
  BY DEF TopOK
<1>4. \A x \in Cand(g, q, D) : x.dist \in Nat /\ x.slot \in D /\ x = Candidate(g, q, x.slot)
  BY <1>1, CandFacts
<1>5. Len(top) \in Nat /\ DOMAIN top = 1 .. Len(top) /\ \A i \in DOMAIN top : top[i] \in Cand(g, q, D)
  <2> DEFINE X == Cand(g, q, D)
  <2>1. top \in Seq(X)
    BY <1>3
  <2> HIDE DEF X
  <2>2. Len(top) \in Nat /\ DOMAIN top = 1 .. Len(top) /\ \A i \in DOMAIN top : top[i] \in X
    BY <2>1, LenProperties, ElementOfSeq
  <2> QED BY <2>2 DEF X
<1> HIDE DEF D
<1>6. ASSUME NEW i \in DOMAIN top
      PROVE  /\ top[i].slot \in D /\ K(i) \in Keys /\ c[K(i)] # None /\ top[i].dist \in Nat
             /\ top[i] = Candidate(g, q, top[i].slot) /\ top[i].dist = measure(q, c[K(i)])
  <2> DEFINE s == top[i].slot
  <2>1. s \in D /\ s \notin Freed(g) /\ top[i] = Candidate(g, q, s) /\ top[i].dist \in Nat
    BY <1>3, <1>4, <1>5
  <2>2. g.nodes[s].key # FreeKey
    BY <2>1 DEF Freed, D
  <2>3. g.nodes[s].key \in Keys
    BY <2>1, <2>2, <1>1, KeyAssumptions
  <2>4. top[i].dist = measure(q, g.nodes[s].vec)
    BY <2>1 DEF Candidate
  <2> QED BY <2>1, <2>3, <2>4, <1>2
<1>7. ASSUME NEW i \in DOMAIN top, NEW j \in DOMAIN top, i < j
      PROVE  K(i) # K(j) /\ top[i].dist <= top[j].dist
  <2>1. K(i) # K(j)
    <3> SUFFICES ASSUME K(i) = K(j) PROVE FALSE
      OBVIOUS
    <3>1. top[i].slot = top[j].slot
      BY <1>2, <1>6
    <3>2. top[i] = top[j]
      BY <3>1, <1>6
    <3>3. i = j
      BY <3>2, <1>3 DEF IsInjective
    <3> QED BY <3>3, <1>5, <1>7
  <2>2. top[i].dist <= top[j].dist
    BY <1>3, <1>5, <1>6, <1>7 DEF Closest1st
  <2> QED BY <2>1, <2>2
<1> QED BY <1>6, <1>7

\* Search answers with present keys only, none twice, each at the distance of its
\* current vector and closest first, whatever graph the writes have left.
THEOREM SearchAlwaysSound == IndexSpec => []SearchSound
<1>1. IndexInv => SearchSound
  <2> SUFFICES ASSUME IndexInv, ~history.lost, NEW q \in Vectors
               PROVE  LET r == Search(index, q, Cardinality(Keys))
                      IN  /\ \A i \in DOMAIN r : r[i].key \in Present /\ r[i].dist = measure(q, content[r[i].key])
                          /\ \A i, j \in DOMAIN r : i < j => r[i].key # r[j].key /\ r[i].dist <= r[j].dist
    BY DEF SearchSound
  <2> DEFINE g == index.graph
             c == content
             n == Cardinality(Keys)
             top == search(g, q, n)
             r == Search(index, q, n)
  <2>1. GraphOK(g, NodeKeys) /\ Faithful(g, c) /\ q \in Int /\ n \in Nat
    <3>1. GraphOK(g, NodeKeys) /\ Faithful(g, c)
      BY DEF IndexInv, Sound, Usable, Good
    <3>2. n \in Nat
      BY IndexAssumption, FS_CardinalityType
    <3> QED BY <3>1, <3>2, VectorFacts
  <2>2. r = <<>> \/ r = [i \in DOMAIN top |-> [key |-> g.nodes[top[i].slot].key, dist |-> top[i].dist]]
    BY DEF Search
  <2> HIDE DEF g, c, n, top, r
  <2>3. TopOK(g, q, DOMAIN g.nodes, Freed(g), top)
    BY <2>1, SearchFacts DEF top
  <2>4. /\ \A i \in DOMAIN top :
             /\ g.nodes[top[i].slot].key \in Keys /\ c[g.nodes[top[i].slot].key] # None
             /\ top[i].dist = measure(q, c[g.nodes[top[i].slot].key])
        /\ \A i, j \in DOMAIN top : i < j =>
             g.nodes[top[i].slot].key # g.nodes[top[j].slot].key /\ top[i].dist <= top[j].dist
    BY <2>1, <2>3, ReportedFacts
  <2>5. \A k \in Keys : c[k] # None => k \in Present
    BY DEF Present, c
  <2>6. /\ \A i \in DOMAIN r : r[i].key \in Present /\ r[i].dist = measure(q, c[r[i].key])
        /\ \A i, j \in DOMAIN r : i < j => r[i].key # r[j].key /\ r[i].dist <= r[j].dist
    <3>1. CASE r = <<>>
      BY <3>1
    <3>2. CASE r = [i \in DOMAIN top |-> [key |-> g.nodes[top[i].slot].key, dist |-> top[i].dist]]
      <4>1. DOMAIN r = DOMAIN top /\ \A i \in DOMAIN top : r[i].key = g.nodes[top[i].slot].key /\ r[i].dist = top[i].dist
        BY <3>2
      <4> QED BY <4>1, <2>4, <2>5
    <3> QED BY <2>2, <3>1, <3>2
  <2> QED BY <2>6 DEF r, c, n
<1> QED BY <1>1, IndexInvariant, PTL
=============================================================================
