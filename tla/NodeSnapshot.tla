---------------------------- MODULE NodeSnapshot ----------------------------
(***************************************************************************)
(* Snapshots of one node: the background thread of LaunchSnapshotTask, the *)
(* InstallSnapshot handlers, the apply thread they run beside, the files   *)
(* of snapshot_dir they share, and what a restart makes of those files.    *)
(*                                                                         *)
(* An entry is its index and an index file is the set of entries executed  *)
(* on it: every entry here is committed in the cluster, so all nodes have  *)
(* the same one at an index.  The WAL is an interval; where TruncateBefore *)
(* may stop inside it depends on the segments, any place is possible.      *)
(* A write handle follows its file: Initialize may unlink it and another   *)
(* task may rename it while it is being written.  A restart stands for a   *)
(* crash of the process, after which the kernel still has what was         *)
(* written; power failures are not modelled.                               *)
(***************************************************************************)
EXTENDS Naturals, Sequences, FiniteSets, FiniteSetsExt

CONSTANTS
    Local,              \* the thread of LaunchSnapshotTask
    Installers,         \* InstallSnapshot calls, each received once
    Missing, Torn,      \* a file that is not there, one that is partly written
    SnapshotThreshold,  \* config_.raft.snapshot_threshold
    MaxIndex,           \* bound: log entries
    MaxRestarts         \* bound: restarts

Entry == 1..MaxIndex

ASSUME SnapshotAssumption ==
    /\ Local \notin Installers /\ IsFiniteSet(Installers)
    /\ Missing # Torn /\ \A s \in SUBSET Entry : Missing # s /\ Torn # s
    /\ SnapshotThreshold \in Nat
    /\ MaxIndex \in Nat /\ MaxRestarts \in Nat

VARIABLES
    running,              \* FALSE: the last restart could not bootstrap
    wal,                  \* first and last index in the log
    commit_index, applied_index, last_snapshot_index,
    objects,              \* VectorIndex objects by age; vector_index_ is the last one
    dedup,                \* the entries recorded in dedup_table_
    apply,                \* the apply thread: control point, entry, index object held
    tasks,                \* the snapshot thread and the handlers
    disk,                 \* the files of snapshot_dir
    meta, meta_tmp,       \* raft_index of snapshot.meta and snapshot.meta.tmp, 0: no file
    restarts,
    clean,                \* history: no install has met one of the three cases of Disturbed
    forgot                \* history: a crash fell between snapshot.meta and dedup.bin

memory == <<commit_index, applied_index, last_snapshot_index, objects, dedup>>
files == <<disk, meta, meta_tmp>>
vars == <<running, wal, memory, apply, tasks, files, restarts, forgot, clean>>

Tasks == Installers \cup {Local}
Files == {"snapshot.usearch", "snapshot.tmp", "dedup.bin", "dedup.bin.tmp"}
Contents == {Missing, Torn} \cup SUBSET Entry
LocalSteps ==
    {"idle", "init", "clone", "open", "write", "term", "check", "file", "meta",
     "dedup_open", "dedup_write", "dedup_rename", "publish", "truncate"}
InstallSteps ==
    {"idle", "init", "open", "write", "dedup_open", "dedup_write", "check", "file", "meta",
     "dedup_rename", "load", "truncate", "applied", "commit", "load_dedup", "done"}
Task == [pc : LocalSteps \cup InstallSteps, index : 0..MaxIndex, object : Nat,
         data : SUBSET Entry, fd : Files \cup {"closed", "unlinked"}]

EmptyWal == [first |-> 1, last |-> 0]
InWal(i) == i \in wal.first..wal.last
Live == objects[Len(objects)]
LogicalLastIndex == Max({wal.last, last_snapshot_index})

IdleTask == [pc |-> "idle", index |-> 0, object |-> 0, data |-> {}, fd |-> "closed"]
IdleApply == [pc |-> "idle", index |-> 0, object |-> 0]
HasSnapshot == disk["snapshot.usearch"] # Missing /\ meta # 0

RestoredIndex == IF HasSnapshot THEN meta ELSE 0

NodeOK ==
    /\ running \in BOOLEAN
    /\ wal \in [first : 1..(MaxIndex + 1), last : 0..MaxIndex]
    /\ commit_index \in 0..MaxIndex /\ applied_index \in 0..MaxIndex
    /\ last_snapshot_index \in 0..MaxIndex
    /\ objects \in Seq(SUBSET Entry) /\ objects # <<>>
    /\ dedup \subseteq Entry
    /\ apply \in [pc : {"idle", "fetch", "execute", "record", "store"},
                  index : 0..MaxIndex, object : Nat]
    /\ tasks \in [Tasks -> Task]
    /\ tasks[Local].pc \in LocalSteps
    /\ \A h \in Installers : tasks[h].pc \in InstallSteps
    /\ disk \in [Files -> Contents]
    /\ meta \in 0..MaxIndex /\ meta_tmp \in 0..MaxIndex
    /\ restarts \in 0..MaxRestarts
    /\ forgot \in BOOLEAN

TypeOK == NodeOK /\ clean \in BOOLEAN

Init ==
    /\ running = TRUE
    /\ wal = EmptyWal
    /\ commit_index = 0 /\ applied_index = 0 /\ last_snapshot_index = 0
    /\ objects = <<{}>> /\ dedup = {}
    /\ apply = IdleApply
    /\ tasks = [t \in Tasks |-> IdleTask]
    /\ disk = [f \in Files |-> Missing] /\ meta = 0 /\ meta_tmp = 0
    /\ restarts = 0
    /\ clean = TRUE /\ forgot = FALSE

-----------------------------------------------------------------------------
(* The log, as the AppendEntries handlers and MaybeCommit drive it.        *)

\* WAL::Append takes any index when the log is empty and only the next one otherwise.
ReceiveEntry ==
    LET i == LogicalLastIndex + 1 IN
    /\ running /\ i \in Entry
    /\ wal = EmptyWal \/ i = wal.last + 1
    /\ wal' = [first |-> IF wal = EmptyWal THEN i ELSE wal.first, last |-> i]
    /\ UNCHANGED <<running, memory, apply, tasks, files, restarts, forgot>>

AdvanceCommit ==
    /\ running
    /\ \E c \in (commit_index + 1)..LogicalLastIndex : commit_index' = c
    /\ UNCHANGED <<running, wal, applied_index, last_snapshot_index, objects, dedup, apply,
                   tasks, files, restarts, forgot>>

\* Mutant: everything up to the last entry is dropped.
TruncateBeforeEverything(i) == wal' = EmptyWal

\* WAL::TruncateBefore removes the segments that end before i.
TruncateBefore(i) ==
    IF wal.last < i THEN wal' = EmptyWal
    ELSE \E f \in wal.first..wal.last : f <= i /\ wal' = [wal EXCEPT !.first = f]

-----------------------------------------------------------------------------
(* ApplyCommittedEntries and MaybeTriggerSnapshot.                         *)

ApplyRead ==
    /\ running /\ apply.pc = "idle"
    /\ applied_index < commit_index /\ InWal(applied_index + 1)
    /\ apply' = [apply EXCEPT !.pc = "fetch", !.index = applied_index + 1]
    /\ UNCHANGED <<running, wal, memory, tasks, files, restarts, forgot>>

ApplyFetch ==
    /\ running /\ apply.pc = "fetch"
    /\ apply' = [apply EXCEPT !.pc = "execute", !.object = Len(objects)]
    /\ UNCHANGED <<running, wal, memory, tasks, files, restarts, forgot>>

ApplyExecute ==
    /\ running /\ apply.pc = "execute"
    /\ objects' = [objects EXCEPT ![apply.object] = @ \cup {apply.index}]
    /\ apply' = [apply EXCEPT !.pc = "record"]
    /\ UNCHANGED <<running, wal, commit_index, applied_index, last_snapshot_index, dedup,
                   tasks, files, restarts, forgot>>

\* SaveTo holds the table's mutex from the copy of the records to the rename.
SavingDedup == tasks[Local].pc \in {"dedup_write", "dedup_rename"}

ApplyRecord ==
    /\ running /\ apply.pc = "record" /\ ~SavingDedup
    /\ dedup' = dedup \cup {apply.index}
    /\ apply' = [apply EXCEPT !.pc = "store"]
    /\ UNCHANGED <<running, wal, commit_index, applied_index, last_snapshot_index, objects,
                   tasks, files, restarts, forgot>>

ShouldSnapshot(i) ==
    /\ SnapshotThreshold # 0
    /\ i > last_snapshot_index /\ i - last_snapshot_index > SnapshotThreshold
    /\ tasks[Local].pc = "idle"

ApplyStore ==
    /\ running /\ apply.pc = "store"
    /\ applied_index' = apply.index
    /\ apply' = IdleApply
    /\ tasks' = IF ShouldSnapshot(apply.index)
                THEN [tasks EXCEPT ![Local] = [IdleTask EXCEPT !.pc = "init",
                          !.index = apply.index, !.object = Len(objects)]]
                ELSE tasks
    /\ UNCHANGED <<running, wal, commit_index, last_snapshot_index, objects, dedup, files,
                   restarts, forgot>>

-----------------------------------------------------------------------------
(* The files of snapshot_dir.  A task's fd names the file its handle is    *)
(* on now, whatever name it was opened under.                              *)

\* Mutant: FinalizeSnapshot renames snapshot.meta first.
LocalAfterMetaFirst ==
    [init |-> "clone", clone |-> "open", open |-> "write", write |-> "term", term |-> "check",
     check |-> "meta", meta |-> "file", file |-> "dedup_open", dedup_open |-> "dedup_write",
     dedup_write |-> "dedup_rename", dedup_rename |-> "publish", publish |-> "truncate",
     truncate |-> "idle"]

\* The control point after each step, when the step succeeds.
LocalAfter ==
    [init |-> "clone", clone |-> "open", open |-> "write", write |-> "term", term |-> "check",
     check |-> "file", file |-> "meta", meta |-> "dedup_open", dedup_open |-> "dedup_write",
     dedup_write |-> "dedup_rename", dedup_rename |-> "publish", publish |-> "truncate",
     truncate |-> "idle"]

\* Mutants: the log is truncated before the snapshot is on disk; the indices move before
\* vector_index_ does; the table that came with the snapshot is not loaded.
InstallAfterTruncateFirst ==
    [init |-> "truncate", truncate |-> "open", open |-> "write", write |-> "dedup_open",
     dedup_open |-> "dedup_write", dedup_write |-> "check", check |-> "file", file |-> "meta",
     meta |-> "dedup_rename", dedup_rename |-> "load", load |-> "applied",
     applied |-> "commit", commit |-> "load_dedup", load_dedup |-> "done"]

InstallAfterLoadLast ==
    [init |-> "open", open |-> "write", write |-> "dedup_open", dedup_open |-> "dedup_write",
     dedup_write |-> "check", check |-> "file", file |-> "meta", meta |-> "dedup_rename",
     dedup_rename |-> "truncate", truncate |-> "applied", applied |-> "commit",
     commit |-> "load", load |-> "load_dedup", load_dedup |-> "done"]

InstallAfterKeepsTable ==
    [InstallAfterLoadLast EXCEPT !.dedup_rename = "load", !.load = "truncate", !.commit = "done"]

InstallAfter ==
    [init |-> "open", open |-> "write", write |-> "dedup_open", dedup_open |-> "dedup_write",
     dedup_write |-> "check", check |-> "file", file |-> "meta", meta |-> "dedup_rename",
     dedup_rename |-> "load", load |-> "truncate", truncate |-> "applied",
     applied |-> "commit", commit |-> "load_dedup", load_dedup |-> "done"]

At(t, step) == running /\ tasks[t].pc = step
After(t) == IF t = Local THEN LocalAfter[tasks[t].pc] ELSE InstallAfter[tasks[t].pc]
Advance(t, ts) == [ts EXCEPT ![t].pc = After(t)]

\* The tasks once the files `names' are unlinked, and once `from' is renamed to `to'.
Unlink(names) ==
    [t \in Tasks |-> IF tasks[t].fd \in names THEN [tasks[t] EXCEPT !.fd = "unlinked"]
                     ELSE tasks[t]]

RenameHandles(from, to) ==
    [t \in Tasks |-> [tasks[t] EXCEPT !.fd = IF @ = to THEN "unlinked"
                                             ELSE IF @ = from THEN to ELSE @]]

WithoutFiles(names) == [f \in Files |-> IF f \in names THEN Missing ELSE disk[f]]
WithRenamed(from, to) == [disk EXCEPT ![to] = disk[from], ![from] = Missing]
TemporaryFiles == {"snapshot.tmp", "dedup.bin.tmp"}

\* A failed step: the handler removes its temporary files and answers, the snapshot
\* thread only gives up its turn.
Fail(t) ==
    IF t = Local
    THEN tasks' = [tasks EXCEPT ![t] = IdleTask] /\ disk' = disk
    ELSE /\ tasks' = [Unlink(TemporaryFiles) EXCEPT ![t] = [IdleTask EXCEPT !.pc = "done"]]
         /\ disk' = WithoutFiles(TemporaryFiles)

\* SnapshotStore::Initialize removes every .tmp file of the directory.
Initialize(t) ==
    /\ At(t, "init")
    /\ disk' = WithoutFiles(TemporaryFiles) /\ meta_tmp' = 0
    /\ tasks' = Advance(t, Unlink(TemporaryFiles))
    /\ UNCHANGED <<running, wal, memory, apply, meta, restarts, forgot>>

\* Creating the file a task writes: a handler truncates what has that name, SaveSnapshot
\* unlinks it first.
OpenSnapshot(t) ==
    /\ At(t, "open")
    /\ disk' = [disk EXCEPT !["snapshot.tmp"] = Torn]
    /\ LET ts == IF t = Local THEN Unlink({"snapshot.tmp"}) ELSE tasks
       IN  tasks' = [Advance(t, ts) EXCEPT ![t].fd = "snapshot.tmp"]
    /\ UNCHANGED <<running, wal, memory, apply, meta, meta_tmp, restarts, forgot>>

\* The last byte is written and the file closed.
WriteFile(t) ==
    /\ running /\ tasks[t].pc \in {"write", "dedup_write"}
    /\ disk' = IF tasks[t].fd \in Files THEN [disk EXCEPT ![tasks[t].fd] = tasks[t].data]
               ELSE disk
    /\ tasks' = [Advance(t, tasks) EXCEPT ![t].fd = "closed"]
    /\ UNCHANGED <<running, wal, memory, apply, meta, meta_tmp, restarts, forgot>>

\* dedup.bin.tmp: SaveTo writes the table as it is, a handler what the sender had.
OpenDedup(t) ==
    /\ At(t, "dedup_open")
    /\ disk' = [disk EXCEPT !["dedup.bin.tmp"] = Torn]
    /\ tasks' = [Advance(t, tasks) EXCEPT ![t].fd = "dedup.bin.tmp",
                     ![t].data = IF t = Local THEN dedup ELSE @]
    /\ UNCHANGED <<running, wal, memory, apply, meta, meta_tmp, restarts, forgot>>

\* FinalizeSnapshot, first part: snapshot.tmp must exist; snapshot.meta.tmp is written.
FinalizeCheck(t) ==
    /\ At(t, "check")
    /\ IF disk["snapshot.tmp"] # Missing
       THEN meta_tmp' = tasks[t].index /\ tasks' = Advance(t, tasks) /\ disk' = disk
       ELSE Fail(t) /\ meta_tmp' = meta_tmp
    /\ UNCHANGED <<running, wal, memory, apply, meta, restarts, forgot>>

\* Second part: snapshot.tmp becomes snapshot.usearch.
FinalizeFile(t) ==
    /\ At(t, "file")
    /\ IF disk["snapshot.tmp"] # Missing
       THEN /\ disk' = WithRenamed("snapshot.tmp", "snapshot.usearch")
            /\ tasks' = Advance(t, RenameHandles("snapshot.tmp", "snapshot.usearch"))
            /\ meta_tmp' = meta_tmp
       ELSE Fail(t) /\ meta_tmp' = 0
    /\ UNCHANGED <<running, wal, memory, apply, meta, restarts, forgot>>

\* Third part: snapshot.meta.tmp becomes snapshot.meta.
FinalizeMeta(t) ==
    /\ At(t, "meta")
    /\ IF meta_tmp # 0
       THEN meta' = meta_tmp /\ meta_tmp' = 0 /\ tasks' = Advance(t, tasks) /\ disk' = disk
       ELSE Fail(t) /\ UNCHANGED <<meta, meta_tmp>>
    /\ UNCHANGED <<running, wal, memory, apply, restarts, forgot>>

\* dedup.bin.tmp becomes dedup.bin.  SaveTo only logs a failure, a handler answers with it.
RenameDedup(t) ==
    /\ At(t, "dedup_rename")
    /\ IF disk["dedup.bin.tmp"] # Missing
       THEN /\ disk' = WithRenamed("dedup.bin.tmp", "dedup.bin")
            /\ tasks' = Advance(t, RenameHandles("dedup.bin.tmp", "dedup.bin"))
       ELSE /\ disk' = disk
            /\ tasks' = IF t = Local THEN Advance(t, tasks)
                        ELSE [tasks EXCEPT ![t] = [IdleTask EXCEPT !.pc = "done"]]
    /\ UNCHANGED <<running, wal, memory, apply, meta, meta_tmp, restarts, forgot>>

-----------------------------------------------------------------------------
(* The thread of LaunchSnapshotTask.                                       *)

\* CloneUnderLock: the index object may have moved on since the snapshot was triggered.
LocalClone ==
    /\ At(Local, "clone")
    /\ tasks' = [Advance(Local, tasks) EXCEPT ![Local].data = objects[tasks[Local].object]]
    /\ UNCHANGED <<running, wal, memory, apply, files, restarts, forgot>>

\* wal_->TermAt(snapshot_index) fails once the entry is gone from the log.
LocalTerm ==
    /\ At(Local, "term")
    /\ tasks' = IF InWal(tasks[Local].index) THEN Advance(Local, tasks)
                ELSE [tasks EXCEPT ![Local] = IdleTask]
    /\ UNCHANGED <<running, wal, memory, apply, files, restarts, forgot>>

LocalPublish ==
    /\ At(Local, "publish")
    /\ last_snapshot_index' = tasks[Local].index
    /\ tasks' = Advance(Local, tasks)
    /\ UNCHANGED <<running, wal, commit_index, applied_index, objects, dedup, apply, files,
                   restarts, forgot>>

\* Truncation of the log and the end of snapshot_in_progress_.
LocalTruncate ==
    /\ At(Local, "truncate")
    /\ TruncateBefore(tasks[Local].index)
    /\ tasks' = [tasks EXCEPT ![Local] = IdleTask]
    /\ UNCHANGED <<running, memory, apply, files, restarts, forgot>>

-----------------------------------------------------------------------------
(* HandleInstallSnapshot and ApplyInstalledSnapshot.                       *)

\* A leader's snapshot at k arrives; its files may hold entries beyond k (LocalClone).  The
\* handler compares k with nothing and takes no lock: it may find another handler, the
\* snapshot thread and a log or a snapshot that is beyond k.
InstallBegin(h) ==
    /\ At(h, "idle")
    /\ \E k \in Entry : \E c \in k..MaxIndex :
          tasks' = [tasks EXCEPT ![h] = [IdleTask EXCEPT !.pc = "init", !.index = k,
                                                         !.data = 1..c]]
    /\ UNCHANGED <<running, wal, memory, apply, files, restarts, forgot>>

\* A stale leader term, a broken stream or a bad chunk, before anything is committed.
InstallAbort(h) ==
    /\ running /\ tasks[h].pc \in {"open", "write", "dedup_open", "dedup_write"}
    /\ Fail(h)
    /\ UNCHANGED <<running, wal, memory, apply, meta, meta_tmp, restarts, forgot>>

\* LoadFromSnapshot opens snapshot.usearch by name; the result replaces vector_index_.
InstallLoad(h) ==
    /\ At(h, "load")
    /\ LET file == disk["snapshot.usearch"] IN
       IF file \in {Missing, Torn}
       THEN objects' = objects /\ tasks' = [tasks EXCEPT ![h] = [IdleTask EXCEPT !.pc = "done"]]
       ELSE objects' = Append(objects, file) /\ tasks' = Advance(h, tasks)
    /\ UNCHANGED <<running, wal, commit_index, applied_index, last_snapshot_index, dedup,
                   apply, files, restarts, forgot>>

InstallTruncate(h) ==
    /\ At(h, "truncate")
    /\ TruncateBefore(tasks[h].index + 1)
    /\ tasks' = Advance(h, tasks)
    /\ UNCHANGED <<running, memory, apply, files, restarts, forgot>>

InstallApplied(h) ==
    /\ At(h, "applied")
    /\ applied_index' = tasks[h].index
    /\ tasks' = Advance(h, tasks)
    /\ UNCHANGED <<running, wal, commit_index, last_snapshot_index, objects, dedup, apply,
                   files, restarts, forgot>>

InstallCommit(h) ==
    /\ At(h, "commit")
    /\ commit_index' = tasks[h].index /\ last_snapshot_index' = tasks[h].index
    /\ tasks' = Advance(h, tasks)
    /\ UNCHANGED <<running, wal, applied_index, objects, dedup, apply, files, restarts, forgot>>

\* LoadFrom(dedup.bin): no file empties the table, an unreadable one leaves it alone.
InstallDedup(h) ==
    /\ At(h, "load_dedup") /\ ~SavingDedup
    /\ dedup' = CASE disk["dedup.bin"] = Missing -> {}
                  [] disk["dedup.bin"] = Torn -> dedup
                  [] OTHER -> disk["dedup.bin"]
    /\ tasks' = [tasks EXCEPT ![h] = [IdleTask EXCEPT !.pc = "done"]]
    /\ UNCHANGED <<running, wal, commit_index, applied_index, last_snapshot_index, objects,
                   apply, files, restarts, forgot>>

-----------------------------------------------------------------------------
(* A crash of the process and the bootstrap that follows it.               *)

\* snapshot.meta is the new one, dedup.bin the old one.
HalfSaved ==
    \/ tasks[Local].pc \in {"dedup_open", "dedup_write", "dedup_rename"}
    \/ \E h \in Installers : tasks[h].pc = "dedup_rename"

\* Initialize, RestoreVectorIndex, RestoreDedupTable, and the constructor of RaftNode.
Restart ==
    LET file == disk["snapshot.usearch"]
        table == disk["dedup.bin"]
    IN
    /\ running /\ restarts < MaxRestarts
    /\ restarts' = restarts + 1 /\ forgot' = (forgot \/ HalfSaved)
    /\ running' = ~(HasSnapshot /\ (file = Torn \/ table = Torn))
    /\ disk' = WithoutFiles(TemporaryFiles) /\ meta_tmp' = 0
    /\ commit_index' = RestoredIndex /\ applied_index' = RestoredIndex
    /\ last_snapshot_index' = RestoredIndex
    /\ objects' = <<IF running' /\ HasSnapshot THEN file ELSE {}>>
    /\ dedup' = IF running' /\ HasSnapshot /\ table # Missing THEN table ELSE {}
    /\ apply' = IdleApply
    /\ tasks' = [t \in Tasks |-> IF t = Local \/ tasks[t].pc = "idle" THEN IdleTask
                                 ELSE [IdleTask EXCEPT !.pc = "done"]]
    /\ UNCHANGED <<wal, meta>>

-----------------------------------------------------------------------------
(* The three cases in which an install harms the node.                     *)

Busy(t) == tasks[t].pc \notin {"idle", "done"}

\* Two tasks share snapshot.tmp, dedup.bin.tmp and snapshot.meta.tmp.
Meeting == \E s, t \in Tasks : s # t /\ Busy(s) /\ Busy(t)

\* The snapshot that arrives is older than the one on disk.
Older == \E h \in Installers : Busy(h) /\ tasks[h].index < meta

\* The apply thread has an entry beyond the snapshot in hand while the handler replaces the
\* index, the indices and the table.
Crossing ==
    \E h \in Installers :
        /\ tasks[h].pc \in {"truncate", "applied", "commit", "load_dedup"}
        /\ apply.pc # "idle" /\ apply.index > tasks[h].index

Disturbed == Meeting \/ Older \/ Crossing

Remember == clean' = (clean /\ ~Disturbed')

-----------------------------------------------------------------------------
FileStep(t) ==
    \/ Initialize(t) \/ OpenSnapshot(t) \/ WriteFile(t) \/ OpenDedup(t)
    \/ FinalizeCheck(t) \/ FinalizeFile(t) \/ FinalizeMeta(t) \/ RenameDedup(t)

LocalStep == LocalClone \/ LocalTerm \/ LocalPublish \/ LocalTruncate

InstallStep(h) ==
    \/ InstallLoad(h) \/ InstallTruncate(h) \/ InstallApplied(h) \/ InstallCommit(h)
    \/ InstallDedup(h)

ApplyStep == ApplyRead \/ ApplyFetch \/ ApplyExecute \/ ApplyRecord \/ ApplyStore

Step ==
    \/ ReceiveEntry \/ AdvanceCommit \/ ApplyStep
    \/ \E t \in Tasks : FileStep(t)
    \/ LocalStep
    \/ \E h \in Installers : InstallBegin(h) \/ InstallAbort(h) \/ InstallStep(h)
    \/ Restart

Next == Step /\ Remember

Spec == Init /\ [][Next]_vars

\* The apply thread, the snapshot thread and the handlers keep running; nothing is said of
\* what arrives.
FairSpec ==
    /\ Spec
    /\ WF_vars(ApplyStep /\ Remember) /\ WF_vars(LocalStep /\ Remember)
    /\ \A t \in Tasks : WF_vars(FileStep(t) /\ Remember)
    /\ \A h \in Installers : WF_vars(InstallStep(h) /\ Remember)

-----------------------------------------------------------------------------
(* Properties.                                                             *)

\* The handler is between the new index and the indices that go with it.
Installing == \E h \in Installers : tasks[h].pc \in {"truncate", "applied", "commit"}

\* Until an install is Disturbed, a crash at any instant leaves a snapshot that can be loaded
\* and that holds all the entries its snapshot.meta stands for (FinalizeSnapshot's order of
\* renames), whatever index a handler brought and wherever the apply thread was.
SnapshotIntact ==
    (clean /\ HasSnapshot) => /\ disk["snapshot.usearch"] # Torn
                              /\ 1..meta \subseteq disk["snapshot.usearch"]

\* Until an install is Disturbed, entries that were applied and that no snapshot on disk
\* covers are still in the WAL: the truncations of LaunchSnapshotTask and of
\* ApplyInstalledSnapshot come after the renames, and an install inside the log leaves the
\* entries behind it.
WalReplayable ==
    (clean /\ running) => (RestoredIndex + 1)..applied_index \subseteq wal.first..wal.last

\* Until an install is Disturbed, the index the node serves from holds every entry up to
\* applied_index: the swap of vector_index_, under a running apply thread and in the middle
\* of the log, never drops what that thread has executed.
NothingLost == (clean /\ running /\ ~Installing) => 1..applied_index \subseteq Live

\* The log can be extended: WAL::Append takes the entry after LogicalLastIndex().  The code
\* does not keep it: a crash before the truncation of an install, or an entry that arrives
\* behind it and before the new last_snapshot_index_, leaves the log short of the snapshot.
AppendPossible == (running /\ ~Installing) => wal = EmptyWal \/ wal.last = LogicalLastIndex

\* The dedup table knows every applied command (the window is large enough here), also the
\* ones a snapshot brought and the ones from before a restart: it is saved behind the index.
\* Only a crash between the renames of snapshot.meta and dedup.bin makes it forget some, and
\* a handler is between its new applied_index_ and its table for two steps.
DedupCoversApplied ==
    (clean /\ running /\ ~forgot
         /\ \A h \in Installers : tasks[h].pc \notin {"commit", "load_dedup"})
        => 1..applied_index \subseteq dedup

\* What is committed gets applied while no snapshot is installed: ApplyLoop works until
\* applied_index_ meets commit_index_ (DrainCommittedEntries waits for it at shutdown),
\* whatever LocalTruncate removes from the log it reads; a restart forgets commit_index_.
CommittedIsApplied ==
    [](\A h \in Installers : tasks[h].pc = "idle") =>
        \A i \in Entry : (running /\ commit_index >= i)
                             ~> (applied_index >= i \/ commit_index < i \/ ~running)
=============================================================================
