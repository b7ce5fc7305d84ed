-------------------------------- MODULE Wal --------------------------------
(***************************************************************************)
(* WAL: segment files, the offset index over them, and what Open recovers  *)
(* from the files after a crash.                                           *)
(*                                                                         *)
(* A record is the index and term of its entry.  A file has records and    *)
(* perhaps a torn one at its end (an incomplete header or payload, a bad   *)
(* checksum).  Every operation holds mutex_, so only a crash can see the   *)
(* middle of one; `doing' is that operation.  The caller appends after     *)
(* LogicalLastIndex() and never truncates what its snapshot covers.        *)
(***************************************************************************)
EXTENDS Naturals, Sequences, FiniteSets, Functions, FiniteSetsExt

CONSTANTS
    Term,
    SegmentSize,    \* records that fit segment_size_bytes_
    CrashPoints,    \* operations a crash may interrupt ("none": between operations)
    PowerFails,     \* does a crash take what was not fdatasync'ed
    MaxIndex,       \* bound: index of an entry
    MaxCrashes      \* bound: crashes

ASSUME WalAssumption ==
    /\ Term \subseteq Nat /\ SegmentSize \in Nat \ {0}
    /\ CrashPoints \subseteq {"none", "append", "suffix", "before"}
    /\ PowerFails \in BOOLEAN /\ MaxIndex \in Nat /\ MaxCrashes \in Nat

VARIABLES
    segments,        \* segments_, with the files they stand for
    entries,         \* offset_index_, with the terms the records hold
    last_index,      \* last_index_
    doing,           \* the operation that holds mutex_
    flushed,         \* history: last_index_ at the last Flush, lowered by a truncation
    snapshot_index,  \* the caller's last_snapshot_index_
    crashes

callerVars == <<flushed, snapshot_index, crashes>>
vars == <<segments, entries, last_index, doing, callerVars>>

Record == [index : 1..MaxIndex, term : Term]
Segment == [start : 1..(MaxIndex + 1), last : 0..MaxIndex, records : Seq(Record),
            synced : Nat, torn : BOOLEAN]

Idle == [op |-> "none", index |-> 0, term |-> 0]
Fresh(s) == [start |-> s, last |-> s - 1, records |-> <<>>, synced |-> 0, torn |-> FALSE]
Active == Len(segments)
LogicalLastIndex == Max({last_index, snapshot_index})

\* The map that offset_index_ and the files agree on.
EntriesOf(files) ==
    LET records == UNION {Range(files[k].records) : k \in DOMAIN files}
    IN  [i \in {r.index : r \in records} |-> (CHOOSE r \in records : r.index = i).term]

LastOf(map) == IF DOMAIN map = {} THEN 0 ELSE Max(DOMAIN map)
RemoveAt(s, k) == SubSeq(s, 1, k - 1) \o SubSeq(s, k + 1, Len(s))

TypeOK ==
    /\ segments \in Seq(Segment)
    /\ DOMAIN entries \subseteq 1..MaxIndex /\ entries \in [DOMAIN entries -> Term]
    /\ last_index \in 0..MaxIndex
    /\ doing \in [op : {"none", "append", "suffix", "before"}, index : 0..(MaxIndex + 1),
                  term : Term \cup {0}]
    /\ flushed \in 0..MaxIndex /\ snapshot_index \in 0..MaxIndex
    /\ crashes \in 0..MaxCrashes

Init ==
    /\ segments = <<Fresh(1)>>
    /\ entries = [i \in {} |-> 0] /\ last_index = 0
    /\ doing = Idle
    /\ flushed = 0 /\ snapshot_index = 0 /\ crashes = 0

-----------------------------------------------------------------------------
(* Append and Flush.                                                       *)

\* The active segment is full: RotateSegment closes it and creates the next file.
Full(segment) == segment.records # <<>> /\ Len(segment.records) >= SegmentSize

\* EnsureActiveSegmentForAppend and the first bytes of the record.
AppendBegin ==
    LET i == LogicalLastIndex + 1
        files == IF Full(segments[Active]) THEN Append(segments, Fresh(i)) ELSE segments
    IN
    /\ doing = Idle /\ i <= MaxIndex
    /\ DOMAIN entries = {} \/ i = last_index + 1
    /\ segments' = [files EXCEPT ![Len(files)].torn = TRUE]
    /\ \E t \in Term : doing' = [op |-> "append", index |-> i, term |-> t]
    /\ UNCHANGED <<entries, last_index, callerVars>>

AppendEnd ==
    LET i == doing.index
        segment == segments[Active]
    IN
    /\ doing.op = "append"
    /\ segments' = [segments EXCEPT ![Active] =
           [segment EXCEPT !.records = Append(@, [index |-> i, term |-> doing.term]),
                           !.last = i, !.torn = FALSE]]
    /\ entries' = [j \in DOMAIN entries \cup {i} |-> IF j = i THEN doing.term ELSE entries[j]]
    /\ last_index' = i
    /\ doing' = Idle
    /\ UNCHANGED callerVars

\* fdatasync on fd_, which is the active segment's file.
Flush ==
    /\ doing = Idle /\ DOMAIN entries # {}
    /\ segments' = [segments EXCEPT ![Active].synced = Len(segments[Active].records)]
    /\ flushed' = last_index
    /\ UNCHANGED <<entries, last_index, doing, snapshot_index, crashes>>

-----------------------------------------------------------------------------
(* TruncateSuffix: one file operation per step.                            *)

SuffixBegin ==
    /\ doing = Idle /\ DOMAIN entries # {}
    /\ \E i \in (snapshot_index + 1)..last_index :
          /\ doing' = [op |-> "suffix", index |-> i, term |-> 0]
          /\ flushed' = IF flushed < i THEN flushed ELSE i - 1
    /\ UNCHANGED <<segments, entries, last_index, snapshot_index, crashes>>

\* The segments the loop has still to remove or to cut.
Affected(i) == {k \in DOMAIN segments : segments[k].start >= i \/ segments[k].last >= i}

\* A segment that starts before i is cut at the offset of i, the ones after it are removed.
Cut(segment, i) ==
    LET n == Max({0} \cup {k \in DOMAIN segment.records : segment.records[k].index < i})
        kept == SubSeq(segment.records, 1, n)
    IN  [segment EXCEPT !.records = kept, !.last = i - 1,
                        !.synced = IF @ < Len(kept) THEN @ ELSE Len(kept)]

SuffixStep ==
    LET i == doing.index
        k == Min(Affected(i))
    IN
    /\ doing.op = "suffix" /\ Affected(i) # {}
    /\ segments' = IF segments[k].start >= i THEN RemoveAt(segments, k)
                   ELSE [segments EXCEPT ![k] = Cut(@, i)]
    /\ UNCHANGED <<entries, last_index, doing, callerVars>>

SuffixEnd ==
    LET i == doing.index
        kept == Restrict(entries, {j \in DOMAIN entries : j < i})
    IN
    /\ doing.op = "suffix" /\ Affected(i) = {}
    /\ segments' = IF segments = <<>> THEN <<Fresh(i)>> ELSE segments
    /\ entries' = kept
    /\ last_index' = IF DOMAIN kept = {} THEN i - 1 ELSE LastOf(kept)
    /\ doing' = Idle
    /\ UNCHANGED callerVars

-----------------------------------------------------------------------------
(* TruncateBefore: one file operation per step.                            *)

\* The snapshot the caller has just written or installed covers everything before i.
BeforeBegin ==
    /\ doing = Idle
    /\ \E i \in (snapshot_index + 1)..(MaxIndex + 1) :
          /\ doing' = [op |-> "before", index |-> i, term |-> 0]
          /\ snapshot_index' = i - 1
    /\ UNCHANGED <<segments, entries, last_index, flushed, crashes>>

\* Mutant: a segment is obsolete once it starts before i.
ObsoleteStarted(i) == {k \in DOMAIN segments : segments[k].last # 0 /\ segments[k].start < i}

Obsolete(i) == {k \in DOMAIN segments : segments[k].last # 0 /\ segments[k].last < i}

BeforeStep ==
    LET k == Min(Obsolete(doing.index))
        gone == {r.index : r \in Range(segments[k].records)}
    IN
    /\ doing.op = "before" /\ Obsolete(doing.index) # {}
    /\ segments' = RemoveAt(segments, k)
    /\ entries' = Restrict(entries, DOMAIN entries \ gone)
    /\ UNCHANGED <<last_index, doing, callerVars>>

BeforeEnd ==
    /\ doing.op = "before" /\ Obsolete(doing.index) = {}
    /\ segments' = IF segments = <<>> THEN <<Fresh(doing.index)>> ELSE segments
    /\ last_index' = LastOf(entries)
    /\ doing' = Idle
    /\ UNCHANGED <<entries, callerVars>>

-----------------------------------------------------------------------------
(* A crash, and Open: LoadExistingSegments and RecoverSegment.             *)

\* What the disk may have after a power failure: of each file a prefix with at least the
\* synced records, with or without a torn record after it.
AfterPowerFailure(files) ==
    {f \in [DOMAIN files -> UNION {
         {[files[k] EXCEPT !.records = SubSeq(@, 1, n), !.torn = torn] :
             n \in files[k].synced..Len(files[k].records), torn \in BOOLEAN} :
         k \in DOMAIN files}] :
       \A k \in DOMAIN files : /\ f[k].start = files[k].start
                               /\ Len(f[k].records) >= files[k].synced
                               /\ f[k].torn => Len(f[k].records) < Len(files[k].records)
                                               \/ files[k].torn}

\* RecoverSegment reads the records and cuts off a torn one.
Scanned(segment) ==
    LET records == segment.records
    IN  [segment EXCEPT !.torn = FALSE, !.synced = Len(records),
                        !.last = IF records = <<>> THEN segment.start - 1
                                 ELSE records[Len(records)].index]

\* A torn record ends the log: later segments are removed.
Recovered(files) ==
    LET torn == {k \in DOMAIN files : files[k].torn}
        kept == IF torn = {} THEN files ELSE SubSeq(files, 1, Min(torn))
    IN  IF files = <<>> THEN <<Fresh(1)>> ELSE [k \in DOMAIN kept |-> Scanned(kept[k])]

Restart ==
    /\ crashes < MaxCrashes /\ doing.op \in CrashPoints
    /\ crashes' = crashes + 1
    /\ \E files \in IF PowerFails THEN AfterPowerFailure(segments) ELSE {segments} :
          segments' = Recovered(files)
    /\ entries' = EntriesOf(segments')
    /\ last_index' = Max({segments'[k].last : k \in DOMAIN segments'})
    /\ doing' = Idle
    /\ UNCHANGED <<flushed, snapshot_index>>

Truncation ==
    \/ SuffixBegin \/ SuffixStep \/ SuffixEnd \/ BeforeBegin \/ BeforeStep \/ BeforeEnd

Next == AppendBegin \/ AppendEnd \/ Flush \/ Truncation \/ Restart

Spec == Init /\ [][Next]_vars

-----------------------------------------------------------------------------
(* Properties.                                                             *)

\* The log has no holes: ReadFrom hands out the records of offset_index_ in order as if
\* they were consecutive.
Contiguous ==
    doing = Idle => DOMAIN entries = {} \/
                    DOMAIN entries = Min(DOMAIN entries)..Max(DOMAIN entries)

\* An entry that Flush covered survives a crash.
FlushedSurvives ==
    [][crashes' # crashes =>
          \A i \in DOMAIN entries : i <= flushed => i \in DOMAIN entries'
                                                    /\ entries'[i] = entries[i]]_vars

Log == INSTANCE DurableLog WITH durable <- flushed, covered <- snapshot_index

\* The segments and their recovery implement a gapless durable log.
ImplementsDurableLog == Log!Spec

=============================================================================
