------------------------------ MODULE WalProofs ------------------------------
(***************************************************************************)
(* The segment files, the offset index over them and their recovery        *)
(* implement the gapless durable log of DurableLog, for any segment size,  *)
(* any entries and any number of crashes of the process, as long as no     *)
(* crash strikes inside TruncateSuffix and none takes unsynced bytes.      *)
(***************************************************************************)
EXTENDS Wal, SequenceTheorems, FiniteSetTheorems, WellFoundedInduction, TLAPS

(***************************************************************************)
(* Least and greatest elements.                                            *)
(***************************************************************************)

LEMMA MinFacts ==
    ASSUME NEW T, T \subseteq Nat, T # {}
    PROVE  Min(T) \in T /\ \A y \in T : Min(T) <= y
  <1>1. IsWellFoundedOn(OpToRel(<, Nat), Nat)
    BY NatLessThanWellFounded
  <1>2. PICK x \in T : \A y \in T : ~(<<y, x>> \in OpToRel(<, Nat))
    <2> HIDE DEF OpToRel
    <2> QED
      BY <1>1, WFMin
  <1>3. \A y \in T : ~(y < x)
    BY <1>2 DEF OpToRel
  <1>4. \A y \in T : x <= y
    BY <1>3, SMT
  <1> QED
    BY <1>4 DEF Min

\* A finite set of numbers has a greatest one: a smallest counterexample would have one
\* after the removal of any of its elements.
LEMMA MaxFacts ==
    ASSUME NEW T, T \subseteq Nat, T # {}, IsFiniteSet(T)
    PROVE  Max(T) \in T /\ \A y \in T : Max(T) >= y
  <1> DEFINE HasMax(U) == \E x \in U : \A y \in U : x >= y
             Bad == {U \in SUBSET T : U # {} /\ ~HasMax(U)}
             Sizes == {Cardinality(U) : U \in Bad}
  <1>1. \A U \in SUBSET T : IsFiniteSet(U) /\ Cardinality(U) \in Nat
    BY FS_Subset, FS_CardinalityType
  <1>2. Bad = {}
    <2>1. SUFFICES ASSUME Bad # {} PROVE FALSE
      OBVIOUS
    <2>2. Sizes \subseteq Nat /\ Sizes # {}
      BY <1>1, <2>1
    <2>3. Min(Sizes) \in Sizes /\ \A k \in Sizes : Min(Sizes) <= k
      <3> HIDE DEF Sizes
      <3> QED
        BY <2>2, MinFacts
    <2>4. PICK U \in Bad : Cardinality(U) = Min(Sizes)
      BY <2>3
    <2>5. U \in SUBSET T /\ U # {} /\ ~HasMax(U) /\ IsFiniteSet(U) /\ Cardinality(U) \in Nat
      BY <2>4, <1>1
    <2>6. PICK x \in U : TRUE
      BY <2>5
    <2> DEFINE V == U \ {x}
    <2>7. Cardinality(V) = Cardinality(U) - 1
      BY <2>5, <2>6, FS_RemoveElement
    <2>8. V \notin Bad
      <3>1. V \in Bad => Cardinality(V) \in Sizes
        OBVIOUS
      <3> HIDE DEF Sizes, V, Bad
      <3> QED
        BY <3>1, <2>3, <2>4, <2>5, <2>7
    <2>9. CASE V = {}
      <3>1. U = {x}
        BY <2>9, <2>6
      <3> QED
        BY <3>1, <2>5, <2>6
    <2>10. CASE V # {}
      <3>1. HasMax(V)
        BY <2>5, <2>8, <2>10
      <3>2. PICK y \in V : \A z \in V : y >= z
        BY <3>1
      <3>3. x \in Nat /\ y \in Nat /\ \A z \in U : z = x \/ z \in V
        BY <2>5, <2>6, <3>2
      <3>4. HasMax(U)
        <4>1. CASE x >= y
          <5>1. \A z \in U : x >= z
            BY <4>1, <3>2, <3>3, <2>5
          <5> QED
            BY <5>1, <2>6
        <4>2. CASE ~(x >= y)
          <5>1. \A z \in U : y >= z
            BY <4>2, <3>2, <3>3, <2>5
          <5> QED
            BY <5>1, <3>2
        <4> QED
          BY <4>1, <4>2
      <3> QED
        BY <3>4, <2>5
    <2> QED
      BY <2>9, <2>10
  <1>3. HasMax(T)
    BY <1>2
  <1> QED
    BY <1>3 DEF Max

(***************************************************************************)
(* The invariant.  A segment covers the indices from its start to its      *)
(* last, later segments cover later ones, only the last may be empty, and  *)
(* what they hold is what offset_index_ has.  While TruncateSuffix works   *)
(* through the files this is so only of the entries below the limit.       *)
(***************************************************************************)

\* A segment by itself: its records are in order, and its last is that of its records.
Sound(s) ==
    /\ s.start <= s.last + 1
    /\ \A a \in 1..Len(s.records) : s.start <= s.records[a].index /\ s.records[a].index <= s.last
    /\ \A a, b \in 1..Len(s.records) : a < b => s.records[a].index < s.records[b].index
    /\ Len(s.records) > 0 => s.records[Len(s.records)].index = s.last

Ordered(files) == \A j, k \in 1..Len(files) : j < k => files[j].last < files[k].start

\* Segments without records come last, or are about to be the last.
NoneEmpty(files, limit) ==
    \A k \in 1..Len(files) : \A j \in 1..Len(files) :
        j < k /\ files[j].records = <<>> => files[k].start >= limit

\* Every record is in the map, and every entry of the map below the limit has a record.
Backed(map, files) ==
    \A k \in 1..Len(files) : \A a \in 1..Len(files[k].records) :
        /\ files[k].records[a].index \in DOMAIN map
        /\ map[files[k].records[a].index] = files[k].records[a].term

Filed(map, files, limit) ==
    \A x \in DOMAIN map : x < limit =>
        \E k \in 1..Len(files) : \E a \in 1..Len(files[k].records) : files[k].records[a].index = x

InFiles(files, top, limit) ==
    /\ \A k \in 1..Len(files) : Sound(files[k]) /\ files[k].last <= top
    /\ Ordered(files) /\ NoneEmpty(files, limit)

Limit == IF doing.op = "suffix" THEN doing.index ELSE MaxIndex + 2

Top == IF DOMAIN entries = {} THEN snapshot_index ELSE last_index

FilesInv ==
    InFiles(segments, Top, Limit) /\ Backed(entries, segments) /\ Filed(entries, segments, Limit)

\* The log ends at last_index_, has no holes, and begins where the snapshot ends or before.
LogInv ==
    /\ DOMAIN entries # {} =>
          /\ last_index \in DOMAIN entries
          /\ \A x \in DOMAIN entries : x <= last_index
          /\ \A x \in DOMAIN entries : \A z \in x..last_index : z \in DOMAIN entries
          /\ \A z \in (snapshot_index + 1)..last_index : z \in DOMAIN entries
          /\ flushed <= last_index
    /\ DOMAIN entries = {} => last_index <= snapshot_index /\ flushed <= snapshot_index

DoingInv ==
    /\ doing.op = "none" => doing = Idle
    /\ doing.op = "append" => /\ doing.term \in Term /\ doing.index = Top + 1
                              /\ doing.index <= MaxIndex /\ doing.index > snapshot_index
    /\ doing.op = "suffix" => /\ DOMAIN entries # {} /\ flushed < doing.index
                              /\ doing.index \in (snapshot_index + 1)..last_index
    /\ doing.op = "before" => doing.index = snapshot_index + 1
    /\ \A k \in 1..Len(segments) : segments[k].torn => doing.op = "append" /\ k = Len(segments)
    /\ doing.op \in {"none", "append"} => segments # <<>>

WalInv == TypeOK /\ FilesInv /\ LogInv /\ DoingInv

(***************************************************************************)
(* Files.                                                                  *)
(***************************************************************************)

Files == Seq(Segment)

LEMMA FileFacts ==
    ASSUME NEW files \in Files
    PROVE  /\ Len(files) \in Nat /\ DOMAIN files = 1..Len(files)
           /\ \A k \in 1..Len(files) :
                /\ files[k] \in Segment
                /\ files[k].start \in 1..(MaxIndex + 1) /\ files[k].last \in 0..MaxIndex
                /\ files[k].records \in Seq(Record) /\ files[k].torn \in BOOLEAN
                /\ files[k].synced \in Nat
                /\ Len(files[k].records) \in Nat
                /\ DOMAIN files[k].records = 1..Len(files[k].records)
                /\ \A a \in 1..Len(files[k].records) :
                     /\ files[k].records[a] \in Record
                     /\ files[k].records[a].index \in 1..MaxIndex
                     /\ files[k].records[a].index \in Nat
                     /\ files[k].records[a].term \in Term
  <1>1. Len(files) \in Nat /\ DOMAIN files = 1..Len(files)
    BY LenProperties DEF Files
  <1>2. ASSUME NEW k \in 1..Len(files)
        PROVE  /\ files[k] \in Segment
               /\ files[k].start \in 1..(MaxIndex + 1) /\ files[k].last \in 0..MaxIndex
               /\ files[k].records \in Seq(Record) /\ files[k].torn \in BOOLEAN
               /\ files[k].synced \in Nat
               /\ Len(files[k].records) \in Nat
               /\ DOMAIN files[k].records = 1..Len(files[k].records)
               /\ \A a \in 1..Len(files[k].records) :
                    /\ files[k].records[a] \in Record
                    /\ files[k].records[a].index \in 1..MaxIndex
                    /\ files[k].records[a].index \in Nat
                    /\ files[k].records[a].term \in Term
    <2>1. files[k] \in Segment
      BY ElementOfSeq DEF Files
    <2> DEFINE r == files[k].records
    <2>2. r \in Seq(Record)
      BY <2>1 DEF Segment
    <2> HIDE DEF r
    <2>3. Len(r) \in Nat /\ DOMAIN r = 1..Len(r)
      BY <2>2, LenProperties
    <2>4. \A a \in 1..Len(r) : r[a] \in Record
      BY <2>2, ElementOfSeq
    <2>5. \A a \in 1..Len(r) : r[a].index \in 1..MaxIndex /\ r[a].index \in Nat /\ r[a].term \in Term
      BY <2>4, WalAssumption DEF Record
    <2> QED
      BY <2>1, <2>2, <2>3, <2>4, <2>5 DEF Segment, r
  <1> QED
    BY <1>1, <1>2

\* Files that differ in what is synced or torn only.
LEMMA SameFiles ==
    ASSUME NEW files \in Files, NEW new \in Files, Len(new) = Len(files),
           \A k \in 1..Len(files) : /\ new[k].start = files[k].start /\ new[k].last = files[k].last
                                    /\ new[k].records = files[k].records,
           NEW map, NEW top, NEW limit
    PROVE  /\ InFiles(files, top, limit) => InFiles(new, top, limit)
           /\ Backed(map, files) => Backed(map, new)
           /\ Filed(map, files, limit) => Filed(map, new, limit)
  <1>1. InFiles(files, top, limit) => InFiles(new, top, limit)
    BY DEF InFiles, Sound, Ordered, NoneEmpty
  <1>2. Backed(map, files) => Backed(map, new)
    BY DEF Backed
  <1>3. Filed(map, files, limit) => Filed(map, new, limit)
    BY DEF Filed
  <1> QED
    BY <1>1, <1>2, <1>3

LEMMA RemoveFacts ==
    ASSUME NEW files \in Files, NEW k \in 1..Len(files)
    PROVE  /\ RemoveAt(files, k) \in Files /\ Len(RemoveAt(files, k)) = Len(files) - 1
           /\ \A j \in 1..(Len(files) - 1) :
                RemoveAt(files, k)[j] = IF j < k THEN files[j] ELSE files[j + 1]
  <1> DEFINE head == SubSeq(files, 1, k - 1)
             tail == SubSeq(files, k + 1, Len(files))
  <1>1. Len(files) \in Nat /\ k \in Nat /\ \A j \in 1..Len(files) : files[j] \in Segment
    BY FileFacts
  <1>2. /\ head \in Files /\ Len(head) = k - 1
        /\ \A j \in 1..(k - 1) : head[j] = files[j]
    <2> DEFINE b == k - 1
    <2>1. b \in Nat /\ b <= Len(files) /\ \A j \in 1..b : files[j] \in Segment
      BY <1>1
    <2> HIDE DEF b
    <2>2. /\ SubSeq(files, 1, b) \in Files
          /\ Len(SubSeq(files, 1, b)) = IF 1 <= b THEN b - 1 + 1 ELSE 0
          /\ \A j \in 1..(b - 1 + 1) : SubSeq(files, 1, b)[j] = files[1 + j - 1]
      BY <1>1, <2>1, SubSeqProperties DEF Files
    <2>3. /\ Len(SubSeq(files, 1, b)) = b
          /\ \A j \in 1..b : SubSeq(files, 1, b)[j] = files[j]
      BY <2>1, <2>2
    <2> QED
      BY <2>2, <2>3 DEF b
  <1>3. /\ tail \in Files /\ Len(tail) = Len(files) - k
        /\ \A j \in 1..(Len(files) - k) : tail[j] = files[k + j]
    <2> DEFINE a == k + 1
    <2>1. a \in Nat \ {0} /\ \A j \in a..Len(files) : files[j] \in Segment
      BY <1>1
    <2> HIDE DEF a
    <2>2. /\ SubSeq(files, a, Len(files)) \in Files
          /\ Len(SubSeq(files, a, Len(files))) = IF a <= Len(files) THEN Len(files) - a + 1 ELSE 0
          /\ \A j \in 1..(Len(files) - a + 1) : SubSeq(files, a, Len(files))[j] = files[a + j - 1]
      BY <1>1, <2>1, SubSeqProperties DEF Files
    <2>3. Len(SubSeq(files, a, Len(files))) = Len(files) - k
      BY <1>1, <2>2 DEF a
    <2>4. ASSUME NEW j \in 1..(Len(files) - k) PROVE SubSeq(files, a, Len(files))[j] = files[k + j]
      <3>1. j \in 1..(Len(files) - a + 1) /\ a + j - 1 = k + j
        BY <1>1 DEF a
      <3> QED
        BY <2>2, <3>1
    <2> QED
      BY <2>2, <2>3, <2>4 DEF a
  <1> HIDE DEF head, tail
  <1>4. /\ head \o tail \in Files /\ Len(head \o tail) = Len(head) + Len(tail)
        /\ \A i \in 1 .. Len(head) + Len(tail) :
              (head \o tail)[i] = IF i <= Len(head) THEN head[i] ELSE tail[i - Len(head)]
    BY <1>2, <1>3, ConcatProperties DEF Files
  <1>5. RemoveAt(files, k) = head \o tail
    BY DEF RemoveAt, head, tail
  <1>6. Len(head) + Len(tail) = Len(files) - 1
    BY <1>1, <1>2, <1>3
  <1>7. ASSUME NEW j \in 1..(Len(files) - 1)
        PROVE  (head \o tail)[j] = IF j < k THEN files[j] ELSE files[j + 1]
    <2>1. CASE j < k
      <3>1. j <= Len(head) /\ j \in 1..(k - 1) /\ j \in 1..Len(head) + Len(tail)
        BY <2>1, <1>1, <1>2, <1>6
      <3> QED
        BY <3>1, <2>1, <1>2, <1>4
    <2>2. CASE ~(j < k)
      <3>1. /\ ~(j <= Len(head)) /\ j - Len(head) \in 1..(Len(files) - k)
            /\ k + (j - Len(head)) = j + 1 /\ j \in 1..Len(head) + Len(tail)
        BY <2>2, <1>1, <1>2, <1>6
      <3>2. (head \o tail)[j] = tail[j - Len(head)] /\ tail[j - Len(head)] = files[k + (j - Len(head))]
        BY <3>1, <1>3, <1>4
      <3> QED
        BY <3>1, <3>2, <2>2
    <2> QED
      BY <2>1, <2>2
  <1> QED
    BY <1>4, <1>5, <1>6, <1>7

\* The place a segment had before the k-th was removed.
Old(j, k) == IF j < k THEN j ELSE j + 1

LEMMA RemovePreserves ==
    ASSUME NEW files \in Files, NEW k \in 1..Len(files), NEW map, NEW top, NEW limit
    PROVE  /\ InFiles(files, top, limit) => InFiles(RemoveAt(files, k), top, limit)
           /\ Backed(map, files) => Backed(map, RemoveAt(files, k))
           /\ \A j \in 1..Len(files) : j # k => \E i \in 1..Len(RemoveAt(files, k)) :
                                                   RemoveAt(files, k)[i] = files[j]
           /\ \A i \in 1..Len(RemoveAt(files, k)) :
                 Old(i, k) \in 1..Len(files) \ {k} /\ RemoveAt(files, k)[i] = files[Old(i, k)]
  <1> DEFINE new == RemoveAt(files, k)
  <1>1. new \in Files /\ Len(new) = Len(files) - 1 /\ Len(files) \in Nat /\ k \in Nat
    BY RemoveFacts, FileFacts
  <1>2. \A j \in 1..Len(new) : new[j] = IF j < k THEN files[j] ELSE files[j + 1]
    BY <1>1, RemoveFacts
  <1> HIDE DEF new
  <1>3. \A i \in 1..Len(new) : Old(i, k) \in 1..Len(files) \ {k} /\ new[i] = files[Old(i, k)]
    BY <1>1, <1>2 DEF Old
  <1>4. \A i, j \in 1..Len(new) : i < j => Old(i, k) < Old(j, k)
    BY <1>1 DEF Old
  <1>5. InFiles(files, top, limit) => InFiles(new, top, limit)
    <2> SUFFICES ASSUME InFiles(files, top, limit) PROVE InFiles(new, top, limit)
      OBVIOUS
    <2>1. \A i \in 1..Len(new) : Sound(new[i]) /\ new[i].last <= top
      BY <1>3 DEF InFiles
    <2>2. Ordered(new)
      BY <1>3, <1>4 DEF InFiles, Ordered
    <2>3. NoneEmpty(new, limit)
      BY <1>3, <1>4 DEF InFiles, NoneEmpty
    <2> QED
      BY <2>1, <2>2, <2>3 DEF InFiles
  <1>6. Backed(map, files) => Backed(map, new)
    BY <1>3 DEF Backed
  <1>7. ASSUME NEW j \in 1..Len(files), j # k PROVE \E i \in 1..Len(new) : new[i] = files[j]
    <2>1. CASE j < k
      <3>1. j \in 1..Len(new) /\ new[j] = files[j]
        BY <2>1, <1>1, <1>2
      <3> QED
        BY <3>1
    <2>2. CASE ~(j < k)
      <3>1. j - 1 \in 1..Len(new) /\ ~(j - 1 < k) /\ (j - 1) + 1 = j
        BY <2>2, <1>1, <1>7
      <3>2. new[j - 1] = files[j]
        BY <3>1, <1>2
      <3> QED
        BY <3>1, <3>2
    <2> QED
      BY <2>1, <2>2
  <1> QED
    BY <1>3, <1>5, <1>6, <1>7 DEF new

LEMMA FreshFacts ==
    ASSUME NEW s \in 1..(MaxIndex + 1)
    PROVE  /\ Fresh(s) \in Segment /\ Fresh(s).start = s /\ Fresh(s).last = s - 1
           /\ Fresh(s).records = <<>> /\ Fresh(s).torn = FALSE
           /\ Len(Fresh(s).records) = 0 /\ Sound(Fresh(s))
  <1>1. MaxIndex \in Nat
    BY WalAssumption
  <1>2. <<>> \in Seq(Record) /\ Len(<<>>) = 0
    BY EmptySeq
  <1>3. s - 1 \in 0..MaxIndex /\ s \in Nat
    BY <1>1
  <1>4. /\ Fresh(s) \in Segment /\ Fresh(s).start = s /\ Fresh(s).last = s - 1
        /\ Fresh(s).records = <<>> /\ Fresh(s).torn = FALSE
    BY <1>2, <1>3 DEF Fresh, Segment
  <1>5. Len(Fresh(s).records) = 0
    BY <1>2, <1>4
  <1>6. Sound(Fresh(s))
    BY <1>1, <1>3, <1>4, <1>5 DEF Sound
  <1> QED
    BY <1>4, <1>5, <1>6

\* The file of a log without entries.
LEMMA OneFresh ==
    ASSUME NEW s \in 1..(MaxIndex + 1), NEW map, DOMAIN map = {}, NEW top \in Nat, s - 1 <= top,
           NEW limit
    PROVE  LET files == <<Fresh(s)>> IN
           /\ files \in Files /\ Len(files) = 1 /\ files # <<>> /\ files[1] = Fresh(s)
           /\ InFiles(files, top, limit) /\ Backed(map, files) /\ Filed(map, files, limit)
  <1> DEFINE f == Fresh(s)
             files == <<f>>
  <1>1. /\ f \in Segment /\ f.start = s /\ f.last = s - 1 /\ f.records = <<>>
        /\ Len(f.records) = 0 /\ Sound(f)
    BY FreshFacts
  <1> HIDE DEF f
  <1>2. files \in Files /\ Len(files) = 1 /\ files[1] = f /\ files # <<>>
    BY <1>1 DEF Files
  <1> HIDE DEF files
  <1>3. \A k \in 1..Len(files) : k = 1 /\ files[k] = f
    BY <1>2
  <1>4. InFiles(files, top, limit)
    <2>1. Ordered(files) /\ NoneEmpty(files, limit)
      BY <1>3 DEF Ordered, NoneEmpty
    <2> QED
      BY <1>1, <1>3, <2>1 DEF InFiles
  <1>5. Backed(map, files)
    BY <1>1, <1>3 DEF Backed
  <1>6. Filed(map, files, limit)
    BY DEF Filed
  <1> QED
    BY <1>2, <1>4, <1>5, <1>6 DEF files, f

LEMMA StateFacts ==
    ASSUME TypeOK
    PROVE  /\ MaxIndex \in Nat /\ segments \in Files /\ last_index \in Nat /\ flushed \in Nat
           /\ snapshot_index \in Nat /\ doing.index \in Nat /\ Top \in Nat /\ Limit \in Nat
           /\ Top <= MaxIndex
           /\ \A x \in DOMAIN entries : x \in Nat /\ x \in 1..MaxIndex /\ x < MaxIndex + 2
  BY WalAssumption DEF TypeOK, Files, Top, Limit

LEMMA WalInit == Init => WalInv
  <1> SUFFICES ASSUME Init PROVE WalInv
    OBVIOUS
  <1>1. MaxIndex \in Nat
    BY WalAssumption
  <1>2. DOMAIN entries = {} /\ entries \in [DOMAIN entries -> Term]
    BY DEF Init
  <1>3. /\ segments \in Files /\ Len(segments) = 1 /\ segments # <<>> /\ segments[1] = Fresh(1)
        /\ InFiles(segments, 0, MaxIndex + 2) /\ Backed(entries, segments)
        /\ Filed(entries, segments, MaxIndex + 2)
    BY <1>1, <1>2, OneFresh DEF Init
  <1>4. doing = Idle /\ doing.op = "none" /\ doing.index = 0 /\ doing.term = 0
    BY DEF Init, Idle
  <1>5. TypeOK
    BY <1>1, <1>2, <1>3, <1>4, WalAssumption DEF Init, TypeOK, Files, Idle
  <1>6. FilesInv
    BY <1>2, <1>3, <1>4 DEF Init, FilesInv, Top, Limit
  <1>7. LogInv
    BY <1>2 DEF Init, LogInv
  <1>8. DoingInv
    <2>1. Fresh(1).torn = FALSE
      BY DEF Fresh
    <2>2. \A k \in 1..Len(segments) : segments[k] = Fresh(1)
      BY <1>3
    <2> QED
      BY <1>3, <1>4, <2>1, <2>2 DEF DoingInv
  <1> QED
    BY <1>5, <1>6, <1>7, <1>8 DEF WalInv

(***************************************************************************)
(* Append and Flush.                                                       *)
(***************************************************************************)

LEMMA PairFinite == ASSUME NEW a, NEW b PROVE IsFiniteSet({a, b})
  <1>1. {a, b} = {a} \cup {b}
    OBVIOUS
  <1>2. IsFiniteSet({a}) /\ IsFiniteSet({b})
    BY FS_Singleton
  <1>3. IsFiniteSet({a} \cup {b})
    BY <1>2, FS_Union
  <1> QED
    BY <1>1, <1>3

LEMMA LogicalFacts ==
    ASSUME TypeOK
    PROVE  /\ LogicalLastIndex \in {last_index, snapshot_index} /\ LogicalLastIndex \in Nat
           /\ LogicalLastIndex >= last_index /\ LogicalLastIndex >= snapshot_index
  <1> DEFINE T == {last_index, snapshot_index}
  <1>1. T \subseteq Nat /\ T # {} /\ last_index \in T /\ snapshot_index \in T
    BY StateFacts
  <1>2. IsFiniteSet(T)
    BY PairFinite
  <1>3. Max(T) \in T /\ \A y \in T : Max(T) >= y
    <2> HIDE DEF T
    <2> QED
      BY <1>1, <1>2, MaxFacts
  <1> QED
    BY <1>1, <1>3 DEF LogicalLastIndex

\* RotateSegment: the segment that is closed has records.
LEMMA RotateFacts ==
    ASSUME NEW files \in Files, files # <<>>, NEW top \in Nat, top + 1 <= MaxIndex,
           InFiles(files, top, MaxIndex + 2), Full(files[Len(files)]), NEW map
    PROVE  LET new == Append(files, Fresh(top + 1)) IN
           /\ new \in Files /\ Len(new) = Len(files) + 1
           /\ \A k \in 1..Len(files) : new[k] = files[k]
           /\ new[Len(new)] = Fresh(top + 1)
           /\ InFiles(new, top, MaxIndex + 2)
           /\ Backed(map, files) => Backed(map, new)
           /\ Filed(map, files, MaxIndex + 2) => Filed(map, new, MaxIndex + 2)
  <1> DEFINE f == Fresh(top + 1)
             new == Append(files, f)
             n == Len(files)
  <1>1. MaxIndex \in Nat /\ n \in Nat /\ n \in 1..n
    BY WalAssumption, EmptySeq, FileFacts DEF Files
  <1>2. /\ f \in Segment /\ f.start = top + 1 /\ f.last = top /\ f.records = <<>>
        /\ Len(f.records) = 0 /\ Sound(f)
    <2>1. top + 1 \in 1..(MaxIndex + 1) /\ (top + 1) - 1 = top
      BY <1>1
    <2> QED
      BY <2>1, FreshFacts
  <1> HIDE DEF f
  <1>3. new \in Files /\ Len(new) = n + 1 /\ new[n + 1] = f /\ \A k \in 1..n : new[k] = files[k]
    BY <1>2, AppendProperties DEF Files
  <1> HIDE DEF new
  <1>4. \A k \in 1..Len(new) : k \in 1..n \/ k = n + 1
    BY <1>1, <1>3
  <1>5. \A k \in 1..n : files[k].records # <<>>
    <2>1. SUFFICES ASSUME NEW k \in 1..n, files[k].records = <<>> PROVE FALSE
      OBVIOUS
    <2>2. k # n
      BY <2>1 DEF Full
    <2>3. k < n
      BY <2>2, <1>1
    <2>4. files[n].start >= MaxIndex + 2
      BY <2>1, <2>3, <1>1 DEF InFiles, NoneEmpty
    <2>5. files[n].start \in 1..(MaxIndex + 1)
      BY <1>1, FileFacts
    <2> QED
      BY <1>1, <2>4, <2>5
  <1>6. InFiles(new, top, MaxIndex + 2)
    <2>1. \A k \in 1..Len(new) : Sound(new[k]) /\ new[k].last <= top
      BY <1>1, <1>2, <1>3, <1>4 DEF InFiles
    <2>2. Ordered(new)
      <3> SUFFICES ASSUME NEW j \in 1..Len(new), NEW k \in 1..Len(new), j < k
                   PROVE  new[j].last < new[k].start
        BY DEF Ordered
      <3>1. j \in 1..n
        BY <1>1, <1>3
      <3>2. CASE k \in 1..n
        BY <3>1, <3>2, <1>3 DEF InFiles, Ordered
      <3>3. CASE k = n + 1
        <4>1. files[j].last <= top /\ files[j].last \in Nat
          BY <3>1, <1>1, FileFacts DEF InFiles
        <4> QED
          BY <3>1, <3>3, <4>1, <1>2, <1>3
      <3> QED
        BY <3>2, <3>3, <1>4
    <2>3. NoneEmpty(new, MaxIndex + 2)
      <3>1. \A j, k \in 1..Len(new) : j < k => new[j].records # <<>>
        BY <1>1, <1>3, <1>5
      <3> QED
        BY <3>1 DEF NoneEmpty
    <2> QED
      BY <2>1, <2>2, <2>3 DEF InFiles
  <1>7. Backed(map, files) => Backed(map, new)
    BY <1>2, <1>3, <1>4 DEF Backed
  <1>8. Filed(map, files, MaxIndex + 2) => Filed(map, new, MaxIndex + 2)
    <2>1. \A k \in 1..n : k \in 1..Len(new)
      BY <1>1, <1>3
    <2> QED
      BY <2>1, <1>3 DEF Filed
  <1> QED
    BY <1>3, <1>6, <1>7, <1>8 DEF f, new

\* A change of one segment.
LEMMA OneFile ==
    ASSUME NEW files \in Files, NEW k \in 1..Len(files), NEW f \in Segment
    PROVE  LET new == [files EXCEPT ![k] = f] IN
           /\ new \in Files /\ Len(new) = Len(files) /\ new[k] = f
           /\ \A j \in 1..Len(files) : j # k => new[j] = files[j]
           /\ new # <<>>
  <1>1. Len(files) \in Nat /\ DOMAIN files = 1..Len(files)
    BY FileFacts
  <1>2. LET new == [files EXCEPT ![k] = f] IN new \in Files /\ Len(new) = Len(files)
    BY <1>1, ExceptSeq DEF Files
  <1> QED
    BY <1>1, <1>2, EmptySeq DEF Files

LEMMA InvAppendBegin == WalInv /\ AppendBegin => WalInv'
  <1> SUFFICES ASSUME WalInv, AppendBegin PROVE WalInv'
    OBVIOUS
  <1> DEFINE i == LogicalLastIndex + 1
             files == IF Full(segments[Active]) THEN Append(segments, Fresh(i)) ELSE segments
             n == Len(files)
             f == [files[n] EXCEPT !.torn = TRUE]
  <1>1. /\ MaxIndex \in Nat /\ Top \in Nat /\ segments \in Files /\ last_index \in Nat
        /\ snapshot_index \in Nat /\ TypeOK
    BY StateFacts DEF WalInv
  <1>2. doing = Idle /\ doing.op = "none" /\ segments # <<>> /\ Limit = MaxIndex + 2
    BY DEF AppendBegin, WalInv, DoingInv, Idle, Limit
  <1>3. i = Top + 1 /\ i > snapshot_index /\ i <= MaxIndex
    <2>1. DOMAIN entries = {} => last_index <= snapshot_index
      BY DEF WalInv, LogInv
    <2>2. i <= MaxIndex /\ (DOMAIN entries = {} \/ i = last_index + 1)
      BY DEF AppendBegin
    <2> HIDE DEF LogicalLastIndex
    <2> QED
      BY <1>1, <2>1, <2>2, LogicalFacts DEF Top
  <1>4. /\ InFiles(segments, Top, MaxIndex + 2) /\ Backed(entries, segments)
        /\ Filed(entries, segments, MaxIndex + 2)
    BY <1>2 DEF WalInv, FilesInv
  <1>5. /\ files \in Files /\ Len(files) > 0
        /\ InFiles(files, Top, MaxIndex + 2) /\ Backed(entries, files)
        /\ Filed(entries, files, MaxIndex + 2)
        /\ \A k \in 1..Len(files) : ~files[k].torn
    <2>1. Len(segments) \in Nat /\ Len(segments) > 0
      BY <1>1, <1>2, FileFacts, EmptySeq DEF Files
    <2>2. \A k \in 1..Len(segments) : ~segments[k].torn
      BY <1>2 DEF WalInv, DoingInv
    <2>3. CASE Full(segments[Active])
      <3> DEFINE new == Append(segments, Fresh(Top + 1))
      <3>1. files = new
        BY <2>3, <1>3
      <3>2. /\ new \in Files /\ Len(new) = Len(segments) + 1
            /\ \A k \in 1..Len(segments) : new[k] = segments[k]
            /\ new[Len(new)] = Fresh(Top + 1)
            /\ InFiles(new, Top, MaxIndex + 2) /\ Backed(entries, new)
            /\ Filed(entries, new, MaxIndex + 2)
        <4>1. Top + 1 <= MaxIndex
          BY <1>3
        <4> HIDE DEF Top
        <4> QED
          BY <1>1, <1>2, <1>4, <2>3, <4>1, RotateFacts DEF Active
      <3>3. Fresh(Top + 1).torn = FALSE
        BY DEF Fresh
      <3> HIDE DEF new
      <3>4. \A k \in 1..Len(new) : ~new[k].torn
        BY <2>1, <2>2, <3>2, <3>3
      <3>5. Len(new) > 0
        BY <2>1, <3>2
      <3> HIDE DEF files
      <3> QED
        BY <3>1, <3>2, <3>4, <3>5
    <2>4. CASE ~Full(segments[Active])
      <3>1. files = segments
        BY <2>4
      <3> HIDE DEF files
      <3> QED
        BY <3>1, <1>1, <1>4, <2>1, <2>2
    <2> QED
      BY <2>3, <2>4
  <1> HIDE DEF files
  <1>6. n \in 1..n /\ n \in 1..Len(files)
    BY <1>5, FileFacts
  <1>7. f \in Segment /\ f.start = files[n].start /\ f.last = files[n].last
        /\ f.records = files[n].records
    BY <1>5, <1>6, FileFacts DEF Segment
  <1>8. segments' = [files EXCEPT ![n] = f]
    BY DEF AppendBegin, files
  <1> HIDE DEF f
  <1>9. /\ segments' \in Files /\ Len(segments') = n /\ segments' # <<>> /\ segments'[n] = f
        /\ \A k \in 1..n : k # n => segments'[k] = files[k]
    <2>1. n = Len(files)
      OBVIOUS
    <2> HIDE DEF n
    <2>2. LET new == [files EXCEPT ![n] = f] IN
          /\ new \in Files /\ Len(new) = Len(files) /\ new[n] = f
          /\ \A j \in 1..Len(files) : j # n => new[j] = files[j]
          /\ new # <<>>
      BY <1>5, <1>6, <1>7, OneFile
    <2> QED
      BY <1>8, <2>1, <2>2
  <1>10. /\ InFiles(segments', Top, MaxIndex + 2) /\ Backed(entries, segments')
         /\ Filed(entries, segments', MaxIndex + 2)
    <2>1. \A k \in 1..Len(files) : /\ segments'[k].start = files[k].start
                                   /\ segments'[k].last = files[k].last
                                   /\ segments'[k].records = files[k].records
      BY <1>7, <1>9
    <2> QED
      BY <1>5, <1>9, <2>1, SameFiles
  <1>11. UNCHANGED <<entries, last_index, flushed, snapshot_index, crashes>>
    BY DEF AppendBegin, callerVars
  <1>12. PICK t \in Term : doing' = [op |-> "append", index |-> i, term |-> t]
    BY DEF AppendBegin
  <1>13. doing'.op = "append" /\ doing'.index = i /\ doing'.term \in Term
    BY <1>12
  <1>14. Limit' = MaxIndex + 2 /\ Top' = Top
    BY <1>11, <1>13 DEF Limit, Top
  <1>15. TypeOK'
    <2>1. i \in 0..(MaxIndex + 1)
      BY <1>1, <1>3
    <2> HIDE DEF i
    <2>2. doing' \in [op : {"none", "append", "suffix", "before"}, index : 0..(MaxIndex + 1),
                      term : Term \cup {0}]
      BY <1>12, <2>1
    <2> QED
      BY <1>1, <1>9, <1>11, <2>2 DEF TypeOK, Files
  <1>16. FilesInv'
    BY <1>10, <1>11, <1>14 DEF FilesInv
  <1>17. LogInv'
    BY <1>11 DEF LogInv, WalInv
  <1>18. DoingInv'
    <2>1. \A k \in 1..Len(segments') : segments'[k].torn => k = Len(segments')
      BY <1>5, <1>9
    <2> QED
      BY <1>3, <1>9, <1>11, <1>13, <1>14, <2>1 DEF DoingInv
  <1> QED
    BY <1>15, <1>16, <1>17, <1>18 DEF WalInv

\* A record at the end of the last segment.
LEMMA AppendRecord ==
    ASSUME NEW f \in Segment, NEW top \in Nat, NEW r \in Record, NEW i, i = top + 1,
           r.index = i, Sound(f), f.last <= top
    PROVE  LET g == [f EXCEPT !.records = Append(f.records, r), !.last = i, !.torn = FALSE]
           IN  /\ g \in Segment /\ g.start = f.start /\ g.last = top + 1 /\ g.torn = FALSE
               /\ Len(g.records) = Len(f.records) + 1
               /\ \A a \in 1..Len(f.records) : g.records[a] = f.records[a]
               /\ g.records[Len(g.records)] = r
               /\ Sound(g)
  <1> DEFINE rs == Append(f.records, r)
             g == [f EXCEPT !.records = rs, !.last = i, !.torn = FALSE]
             n == Len(f.records)
  <1>1. /\ MaxIndex \in Nat /\ f.start \in Nat /\ f.last \in Nat /\ f.records \in Seq(Record)
        /\ r.index \in 1..MaxIndex
    BY WalAssumption DEF Segment, Record
  <1>2. /\ rs \in Seq(Record) /\ Len(rs) = n + 1 /\ rs[n + 1] = r
        /\ \A a \in 1..n : rs[a] = f.records[a]
    BY <1>1, AppendProperties
  <1>3. n \in Nat /\ \A a \in 1..n : f.records[a].index \in Nat
    <2>1. n \in Nat /\ \A a \in 1..n : f.records[a] \in Record
      BY <1>1, LenProperties, ElementOfSeq
    <2> QED
      BY <2>1, <1>1 DEF Record
  <1> HIDE DEF rs
  <1>4. /\ g \in Segment /\ g.start = f.start /\ g.last = r.index /\ g.torn = FALSE
        /\ g.records = rs
    <2>1. i \in 0..MaxIndex
      BY <1>1
    <2>2. g \in Segment
      BY <1>2, <2>1 DEF Segment
    <2>3. g.start = f.start /\ g.last = i /\ g.torn = FALSE /\ g.records = rs
      BY DEF Segment
    <2> QED
      BY <2>2, <2>3
  <1> HIDE DEF g, n
  <1>5. \A a \in 1..(n + 1) : a \in 1..n \/ a = n + 1
    BY <1>3
  <1>6. \A a \in 1..n : f.start <= f.records[a].index /\ f.records[a].index <= top
    BY <1>1, <1>3 DEF Sound, n
  <1>7. f.start <= r.index
    BY <1>1 DEF Sound
  <1>8. \A a \in 1..Len(rs) : f.start <= rs[a].index /\ rs[a].index <= r.index
    BY <1>1, <1>2, <1>3, <1>5, <1>6, <1>7
  <1>9. \A a, b \in 1..Len(rs) : a < b => rs[a].index < rs[b].index
    <2> SUFFICES ASSUME NEW a \in 1..(n + 1), NEW b \in 1..(n + 1), a < b
                 PROVE  rs[a].index < rs[b].index
      BY <1>2
    <2>1. a \in 1..n
      BY <1>3
    <2>2. CASE b = n + 1
      BY <2>1, <2>2, <1>2, <1>3, <1>6
    <2>3. CASE b \in 1..n
      BY <2>1, <2>3, <1>2 DEF Sound, n
    <2> QED
      BY <2>2, <2>3, <1>5
  <1>10. Sound(g)
    BY <1>1, <1>2, <1>4, <1>7, <1>8, <1>9 DEF Sound
  <1> QED
    BY <1>2, <1>4, <1>10 DEF n, rs, g

LEMMA InvAppendEnd == WalInv /\ AppendEnd => WalInv'
  <1> SUFFICES ASSUME WalInv, AppendEnd PROVE WalInv'
    OBVIOUS
  <1> DEFINE i == doing.index
             n == Len(segments)
             f == segments[n]
             r == [index |-> i, term |-> doing.term]
             g == [f EXCEPT !.records = Append(f.records, r), !.last = i, !.torn = FALSE]
  <1>1. /\ MaxIndex \in Nat /\ Top \in Nat /\ segments \in Files /\ last_index \in Nat
        /\ snapshot_index \in Nat /\ flushed \in Nat /\ TypeOK
        /\ \A x \in DOMAIN entries : x \in Nat /\ x \in 1..MaxIndex
    BY StateFacts DEF WalInv
  <1>2. /\ doing.op = "append" /\ doing.term \in Term /\ i = Top + 1 /\ i <= MaxIndex
        /\ i > snapshot_index /\ segments # <<>> /\ Limit = MaxIndex + 2
    BY DEF AppendEnd, WalInv, DoingInv, Limit
  <1>3. n \in Nat /\ n \in 1..n /\ f \in Segment
    BY <1>1, <1>2, FileFacts, EmptySeq DEF Files
  <1>4. r \in Record /\ r.index = i /\ r.term = doing.term
    BY <1>1, <1>2 DEF Record
  <1>5. /\ InFiles(segments, Top, MaxIndex + 2) /\ Backed(entries, segments)
        /\ Filed(entries, segments, MaxIndex + 2)
    BY <1>2 DEF WalInv, FilesInv
  <1>6. segments' = [segments EXCEPT ![n] = g]
    BY DEF AppendEnd, Active
  <1> HIDE DEF r
  <1>7. /\ g \in Segment /\ g.start = f.start /\ g.last = Top + 1 /\ g.torn = FALSE
        /\ Len(g.records) = Len(f.records) + 1
        /\ \A a \in 1..Len(f.records) : g.records[a] = f.records[a]
        /\ g.records[Len(g.records)] = r
        /\ Sound(g)
    <2>1. Sound(f) /\ f.last <= Top
      BY <1>3, <1>5 DEF InFiles
    <2> HIDE DEF f, i
    <2> QED
      BY <1>1, <1>2, <1>3, <1>4, <2>1, AppendRecord
  <1> HIDE DEF g
  <1>8. /\ segments' \in Files /\ Len(segments') = n /\ segments' # <<>> /\ segments'[n] = g
        /\ \A k \in 1..n : k # n => segments'[k] = segments[k]
    <2>1. n = Len(segments)
      OBVIOUS
    <2> HIDE DEF n
    <2> QED
      <3>1. LET new == [segments EXCEPT ![n] = g] IN
            /\ new \in Files /\ Len(new) = Len(segments) /\ new[n] = g
            /\ \A j \in 1..Len(segments) : j # n => new[j] = segments[j]
            /\ new # <<>>
        <4>1. n \in 1..Len(segments)
          BY <1>3, <2>1
        <4> QED
          BY <1>1, <1>7, <4>1, OneFile
      <3> QED
        BY <1>6, <2>1, <3>1
  <1>9. /\ DOMAIN entries' = DOMAIN entries \cup {i} /\ entries' \in [DOMAIN entries' -> Term]
        /\ entries'[i] = doing.term /\ \A x \in DOMAIN entries : x # i => entries'[x] = entries[x]
    BY <1>1, <1>2 DEF AppendEnd, TypeOK
  <1>10. UNCHANGED <<flushed, snapshot_index, crashes>> /\ last_index' = i /\ doing' = Idle
    BY DEF AppendEnd, callerVars
  <1>11. doing'.op = "none" /\ doing'.index = 0 /\ doing'.term = 0
    BY <1>10 DEF Idle
  <1>12. Top' = i /\ Limit' = MaxIndex + 2
    BY <1>9, <1>10, <1>11 DEF Top, Limit
  <1> HIDE DEF i
  <1>13. TypeOK'
    <2>1. i \in 0..MaxIndex /\ i \in 1..MaxIndex
      BY <1>1, <1>2
    <2> QED
      BY <1>1, <1>8, <1>9, <1>10, <1>11, <2>1 DEF TypeOK, Files, Idle
  <1>14. InFiles(segments', i, MaxIndex + 2)
    <2>1. \A k \in 1..n : Sound(segments'[k]) /\ segments'[k].last <= i
      <3> SUFFICES ASSUME NEW k \in 1..n PROVE Sound(segments'[k]) /\ segments'[k].last <= i
        OBVIOUS
      <3>1. CASE k = n
        BY <3>1, <1>1, <1>2, <1>7, <1>8
      <3>2. CASE k # n
        <4>1. Sound(segments[k]) /\ segments[k].last <= Top /\ segments[k].last \in Nat
          BY <1>1, <1>5, FileFacts DEF InFiles
        <4> QED
          BY <3>2, <4>1, <1>1, <1>2, <1>8
      <3> QED
        BY <3>1, <3>2
    <2>2. \A k \in 1..n : segments'[k].start = segments[k].start
      BY <1>7, <1>8
    <2>3. \A j \in 1..n, k \in 1..n : j < k => segments'[j] = segments[j]
      BY <1>3, <1>8
    <2>4. Ordered(segments')
      BY <1>5, <1>8, <2>2, <2>3 DEF InFiles, Ordered
    <2>5. NoneEmpty(segments', MaxIndex + 2)
      BY <1>5, <1>8, <2>2, <2>3 DEF InFiles, NoneEmpty
    <2> QED
      BY <1>8, <2>1, <2>4, <2>5 DEF InFiles
  <1>15. Len(f.records) \in Nat /\ \A a \in 1..Len(g.records) : a \in 1..Len(f.records) \/ a = Len(g.records)
    BY <1>1, <1>3, <1>7, FileFacts
  <1>16. \A k \in 1..n : \A a \in 1..Len(segments[k].records) :
            /\ segments[k].records[a].index # i
            /\ a \in 1..Len(segments'[k].records)
            /\ segments'[k].records[a] = segments[k].records[a]
    <2> SUFFICES ASSUME NEW k \in 1..n, NEW a \in 1..Len(segments[k].records)
                 PROVE  /\ segments[k].records[a].index # i
                        /\ a \in 1..Len(segments'[k].records)
                        /\ segments'[k].records[a] = segments[k].records[a]
      OBVIOUS
    <2>1. /\ segments[k].records[a].index <= segments[k].last /\ segments[k].last <= Top
          /\ segments[k].last \in Nat /\ segments[k].records[a].index \in Nat
      BY <1>1, <1>5, FileFacts DEF InFiles, Sound
    <2>2. segments[k].records[a].index # i
      BY <1>1, <1>2, <2>1
    <2>3. CASE k = n
      BY <2>2, <2>3, <1>7, <1>8, <1>15
    <2>4. CASE k # n
      BY <2>2, <2>4, <1>8
    <2> QED
      BY <2>3, <2>4
  <1>17. Backed(entries', segments')
    <2> SUFFICES ASSUME NEW k \in 1..n, NEW a \in 1..Len(segments'[k].records)
                 PROVE  /\ segments'[k].records[a].index \in DOMAIN entries'
                        /\ entries'[segments'[k].records[a].index] = segments'[k].records[a].term
      BY <1>8 DEF Backed
    <2>1. CASE a \in 1..Len(segments[k].records)
      BY <2>1, <1>5, <1>9, <1>16 DEF Backed
    <2>2. CASE ~(a \in 1..Len(segments[k].records))
      <3>1. k = n
        BY <2>2, <1>8
      <3>2. segments'[k].records[a] = r
        BY <2>2, <3>1, <1>7, <1>8, <1>15
      <3> QED
        BY <3>2, <1>2, <1>4, <1>9
    <2> QED
      BY <2>1, <2>2
  <1>18. Filed(entries', segments', MaxIndex + 2)
    <2> SUFFICES ASSUME NEW x \in DOMAIN entries'
                 PROVE  \E k \in 1..n : \E a \in 1..Len(segments'[k].records) :
                           segments'[k].records[a].index = x
      BY <1>8 DEF Filed
    <2>1. CASE x = i
      <3>1. Len(g.records) \in 1..Len(g.records)
        BY <1>7, <1>15
      <3> QED
        BY <2>1, <3>1, <1>2, <1>3, <1>4, <1>7, <1>8
    <2>2. CASE x # i
      <3>1. x \in DOMAIN entries /\ x < MaxIndex + 2
        BY <2>2, <1>1, <1>9
      <3>2. \E k \in 1..n : \E a \in 1..Len(segments[k].records) : segments[k].records[a].index = x
        BY <3>1, <1>5 DEF Filed
      <3> QED
        BY <3>2, <1>16
    <2> QED
      BY <2>1, <2>2
  <1>19. FilesInv'
    BY <1>12, <1>14, <1>17, <1>18 DEF FilesInv
  <1>20. LogInv'
    <2>1. i \in Nat /\ i = Top + 1
      BY <1>1, <1>2
    <2>2. DOMAIN entries # {} => Top = last_index
      BY DEF Top
    <2>3. DOMAIN entries = {} => Top = snapshot_index
      BY DEF Top
    <2>4. \A x \in DOMAIN entries : x <= Top
      BY <2>2 DEF WalInv, LogInv
    <2>5. \A x \in DOMAIN entries' : x <= i
      BY <2>1, <2>4, <1>1, <1>9
    <2>6. flushed <= i
      <3>1. flushed <= Top
        BY <2>2, <2>3 DEF WalInv, LogInv
      <3> QED
        BY <3>1, <2>1, <1>1
    <2>7. ASSUME NEW x \in DOMAIN entries', NEW z \in x..i PROVE z \in DOMAIN entries'
      <3>1. CASE z = i
        BY <3>1, <1>9
      <3>2. CASE z # i
        <4>1. z \in Int /\ x <= z /\ z < i /\ x \in Nat
          BY <3>2, <2>1, <1>1, <1>9
        <4>2. x \in DOMAIN entries /\ DOMAIN entries # {}
          BY <4>1, <2>1, <1>9
        <4>3. z \in x..last_index
          BY <4>1, <4>2, <2>1, <2>2, <1>1
        <4>4. z \in DOMAIN entries
          BY <4>2, <4>3 DEF WalInv, LogInv
        <4> QED
          BY <4>4, <1>9
      <3> QED
        BY <3>1, <3>2
    <2>8. ASSUME NEW z \in (snapshot_index + 1)..i PROVE z \in DOMAIN entries'
      <3>1. CASE z = i
        BY <3>1, <1>9
      <3>2. CASE z # i
        <4>1. DOMAIN entries # {} /\ z \in (snapshot_index + 1)..last_index
          <5>1. z \in (snapshot_index + 1)..Top
            BY <3>2, <2>1, <1>1
          <5>2. DOMAIN entries # {}
            <6>1. SUFFICES ASSUME DOMAIN entries = {} PROVE FALSE
              OBVIOUS
            <6>2. Top = snapshot_index
              BY <2>3, <6>1
            <6>3. z >= snapshot_index + 1 /\ z <= snapshot_index /\ z \in Int
              BY <5>1, <6>2, <1>1
            <6> QED
              BY <6>3, <1>1
          <5> QED
            BY <5>1, <5>2, <2>2
        <4>2. z \in DOMAIN entries
          BY <4>1 DEF WalInv, LogInv
        <4> QED
          BY <4>2, <1>9
      <3> QED
        BY <3>1, <3>2
    <2> QED
      BY <2>5, <2>6, <2>7, <2>8, <1>9, <1>10 DEF LogInv
  <1>21. DoingInv'
    <2>1. \A k \in 1..Len(segments) : segments[k].torn => k = n
      BY DEF WalInv, DoingInv
    <2>2. \A k \in 1..Len(segments') : ~segments'[k].torn
      BY <2>1, <1>7, <1>8
    <2> QED
      BY <2>2, <1>8, <1>10, <1>11 DEF DoingInv
  <1> QED
    BY <1>13, <1>19, <1>20, <1>21 DEF WalInv

LEMMA InvFlush == WalInv /\ Flush => WalInv'
  <1> SUFFICES ASSUME WalInv, Flush PROVE WalInv'
    OBVIOUS
  <1> DEFINE n == Len(segments)
             f == [segments[n] EXCEPT !.synced = Len(segments[n].records)]
  <1>1. /\ MaxIndex \in Nat /\ segments \in Files /\ last_index \in 0..MaxIndex /\ TypeOK
    BY StateFacts DEF WalInv, TypeOK
  <1>2. doing = Idle /\ doing.op = "none" /\ segments # <<>> /\ DOMAIN entries # {}
    BY DEF Flush, WalInv, DoingInv, Idle
  <1>3. n \in 1..n
    BY <1>1, <1>2, FileFacts, EmptySeq DEF Files
  <1>4. /\ f \in Segment /\ f.start = segments[n].start /\ f.last = segments[n].last
        /\ f.records = segments[n].records /\ f.torn = segments[n].torn
    <2>1. segments[n] \in Segment /\ Len(segments[n].records) \in Nat
      BY <1>1, <1>3, FileFacts
    <2> QED
      BY <2>1 DEF Segment
  <1>5. segments' = [segments EXCEPT ![n] = f]
    BY DEF Flush, Active
  <1> HIDE DEF f
  <1>6. /\ segments' \in Files /\ Len(segments') = Len(segments) /\ segments'[n] = f
        /\ \A j \in 1..Len(segments) : j # n => segments'[j] = segments[j]
        /\ segments' # <<>>
    <2>1. LET new == [segments EXCEPT ![n] = f] IN
          /\ new \in Files /\ Len(new) = Len(segments) /\ new[n] = f
          /\ \A j \in 1..Len(segments) : j # n => new[j] = segments[j]
          /\ new # <<>>
      <3>1. n \in 1..Len(segments)
        BY <1>3
      <3> HIDE DEF n
      <3> QED
        BY <1>1, <1>4, <3>1, OneFile
    <2> QED
      BY <1>5, <2>1
  <1>7. \A k \in 1..Len(segments) : /\ segments'[k].start = segments[k].start
                                    /\ segments'[k].last = segments[k].last
                                    /\ segments'[k].records = segments[k].records
                                    /\ segments'[k].torn = segments[k].torn
    BY <1>4, <1>6
  <1>8. UNCHANGED <<entries, last_index, doing, snapshot_index, crashes>> /\ flushed' = last_index
    BY DEF Flush
  <1>9. Top' = Top /\ Limit' = Limit
    BY <1>8 DEF Top, Limit
  <1>10. TypeOK'
    BY <1>1, <1>6, <1>8 DEF TypeOK, Files
  <1>11. FilesInv'
    <2>1. InFiles(segments, Top, Limit) /\ Backed(entries, segments) /\ Filed(entries, segments, Limit)
      BY DEF WalInv, FilesInv
    <2>2. /\ InFiles(segments', Top, Limit) /\ Backed(entries, segments')
          /\ Filed(entries, segments', Limit)
      BY <1>1, <1>6, <1>7, <2>1, SameFiles
    <2> QED
      BY <2>2, <1>8, <1>9 DEF FilesInv
  <1>12. LogInv'
    BY <1>1, <1>2, <1>8 DEF WalInv, LogInv
  <1>13. DoingInv'
    BY <1>2, <1>6, <1>7, <1>8 DEF WalInv, DoingInv
  <1> QED
    BY <1>10, <1>11, <1>12, <1>13 DEF WalInv

(***************************************************************************)
(* TruncateSuffix.                                                         *)
(***************************************************************************)

\* A lower limit asks for less.
LEMMA LowerLimit ==
    ASSUME NEW files \in Files, NEW map, NEW top \in Nat, NEW limit \in Nat, NEW lower \in Nat,
           lower <= limit, \A x \in DOMAIN map : x \in Nat,
           InFiles(files, top, limit), Filed(map, files, limit)
    PROVE  InFiles(files, top, lower) /\ Filed(map, files, lower)
  <1>1. \A k \in 1..Len(files) : files[k].start \in Nat
    BY FileFacts, WalAssumption
  <1>2. NoneEmpty(files, lower)
    BY <1>1 DEF InFiles, NoneEmpty
  <1>3. Filed(map, files, lower)
    BY DEF Filed
  <1> QED
    BY <1>2, <1>3 DEF InFiles

LEMMA InvSuffixBegin == WalInv /\ SuffixBegin => WalInv'
  <1> SUFFICES ASSUME WalInv, SuffixBegin PROVE WalInv'
    OBVIOUS
  <1>1. /\ MaxIndex \in Nat /\ Top \in Nat /\ segments \in Files /\ last_index \in 0..MaxIndex
        /\ snapshot_index \in Nat /\ flushed \in 0..MaxIndex /\ TypeOK
        /\ \A x \in DOMAIN entries : x \in Nat
    BY StateFacts DEF WalInv, TypeOK
  <1>2. doing = Idle /\ doing.op = "none" /\ DOMAIN entries # {} /\ Limit = MaxIndex + 2
    BY DEF SuffixBegin, Idle, Limit
  <1>3. PICK i \in (snapshot_index + 1)..last_index :
            /\ doing' = [op |-> "suffix", index |-> i, term |-> 0]
            /\ flushed' = IF flushed < i THEN flushed ELSE i - 1
    BY DEF SuffixBegin
  <1>4. UNCHANGED <<segments, entries, last_index, snapshot_index, crashes>>
    BY DEF SuffixBegin
  <1>5. /\ doing'.op = "suffix" /\ doing'.index = i /\ i \in Nat /\ i <= MaxIndex
        /\ doing' \in [op : {"none", "append", "suffix", "before"}, index : 0..(MaxIndex + 1),
                       term : Term \cup {0}]
    BY <1>1, <1>3
  <1>6. flushed' \in 0..MaxIndex /\ flushed' < i /\ flushed' <= flushed
    BY <1>1, <1>3, <1>5
  <1>7. Top' = Top /\ Limit' = i
    BY <1>4, <1>5 DEF Top, Limit
  <1>8. TypeOK'
    BY <1>1, <1>4, <1>5, <1>6 DEF TypeOK
  <1>9. FilesInv'
    <2>1. /\ InFiles(segments, Top, MaxIndex + 2) /\ Backed(entries, segments)
          /\ Filed(entries, segments, MaxIndex + 2)
      BY <1>2 DEF WalInv, FilesInv
    <2>2. i <= MaxIndex + 2 /\ MaxIndex + 2 \in Nat
      BY <1>1, <1>5
    <2>3. InFiles(segments, Top, i) /\ Filed(entries, segments, i)
      BY <1>1, <1>5, <2>1, <2>2, LowerLimit
    <2> QED
      BY <2>1, <2>3, <1>4, <1>7 DEF FilesInv
  <1>10. LogInv'
    <2>1. flushed' <= last_index
      BY <1>1, <1>2, <1>6 DEF WalInv, LogInv
    <2> QED
      BY <2>1, <1>2, <1>4 DEF WalInv, LogInv
  <1>11. DoingInv'
    BY <1>2, <1>3, <1>4, <1>5, <1>6 DEF WalInv, DoingInv
  <1> QED
    BY <1>8, <1>9, <1>10, <1>11 DEF WalInv

\* TruncateFile: the records below i are kept, and the last of them is the one before i.
LEMMA CutFacts ==
    ASSUME NEW f \in Segment, Sound(f), NEW i \in 1..MaxIndex, f.start < i,
           (\E a \in 1..Len(f.records) : f.records[a].index < i)
               => \E a \in 1..Len(f.records) : f.records[a].index = i - 1
    PROVE  LET g == Cut(f, i) IN
           /\ g \in Segment /\ g.start = f.start /\ g.last = i - 1 /\ g.torn = f.torn
           /\ \A a \in 1..Len(g.records) : /\ a \in 1..Len(f.records)
                                           /\ g.records[a] = f.records[a]
           /\ \A a \in 1..Len(f.records) :
                f.records[a].index < i => a \in 1..Len(g.records)
           /\ Sound(g)
  <1> DEFINE rs == f.records
             T == {0} \cup {k \in DOMAIN rs : rs[k].index < i}
             n == Max(T)
             kept == SubSeq(rs, 1, n)
             s == IF f.synced < Len(kept) THEN f.synced ELSE Len(kept)
             g == [f EXCEPT !.records = kept, !.last = i - 1, !.synced = s]
  <1>1. /\ MaxIndex \in Nat /\ f.start \in Nat /\ f.last \in Nat /\ f.synced \in Nat
        /\ rs \in Seq(Record)
    BY WalAssumption DEF Segment
  <1>2. Len(rs) \in Nat /\ DOMAIN rs = 1..Len(rs) /\ \A a \in 1..Len(rs) : rs[a] \in Record
    BY <1>1, LenProperties, ElementOfSeq
  <1>3. \A a \in 1..Len(rs) : rs[a].index \in Nat
    BY <1>1, <1>2 DEF Record
  <1>4. n \in T /\ \A y \in T : n >= y
    <2>1. T \subseteq Nat /\ T # {} /\ T \subseteq 0..Len(rs)
      BY <1>2
    <2>2. IsFiniteSet(0..Len(rs))
      BY <1>2, FS_Interval
    <2>3. IsFiniteSet(T)
      <3> HIDE DEF T
      <3> QED
        BY <2>1, <2>2, FS_Subset
    <2> HIDE DEF T
    <2> QED
      BY <2>1, <2>3, MaxFacts
  <1>5. n \in Nat /\ n <= Len(rs) /\ (n = 0 \/ (n \in 1..Len(rs) /\ rs[n].index < i))
    BY <1>2, <1>4
  <1>6. \A a \in 1..Len(rs) : rs[a].index < i => a <= n
    BY <1>2, <1>4
  <1>7. Cut(f, i) = g
    BY DEF Cut
  <1> HIDE DEF n, T
  <1>8. kept \in Seq(Record) /\ Len(kept) = n /\ \A a \in 1..n : kept[a] = rs[a]
    <2>1. /\ SubSeq(rs, 1, n) \in Seq(Record)
          /\ Len(SubSeq(rs, 1, n)) = IF 1 <= n THEN n - 1 + 1 ELSE 0
          /\ \A j \in 1..(n - 1 + 1) : SubSeq(rs, 1, n)[j] = rs[1 + j - 1]
      <3>1. \A j \in 1..n : rs[j] \in Record
        BY <1>2, <1>5
      <3> HIDE DEF rs
      <3> QED
        BY <1>1, <1>5, <3>1, SubSeqProperties
    <2> QED
      BY <1>5, <2>1
  <1> HIDE DEF kept
  <1>9. s \in Nat
    BY <1>1, <1>5, <1>8
  <1> HIDE DEF s
  <1>10. g \in Segment /\ g.start = f.start /\ g.last = i - 1 /\ g.torn = f.torn /\ g.records = kept
    <2>1. i - 1 \in 0..MaxIndex
      BY <1>1
    <2>2. g \in Segment
      BY <1>8, <1>9, <2>1 DEF Segment
    <2> QED
      BY <2>2 DEF Segment
  <1> HIDE DEF g
  <1>11. \A a \in 1..n : a \in 1..Len(rs) /\ kept[a] = rs[a] /\ kept[a].index \in Nat
    BY <1>2, <1>3, <1>5, <1>8
  <1>12. \A a \in 1..n : \A b \in 1..n : a < b => kept[a].index < kept[b].index
    BY <1>11 DEF Sound
  <1>13. n > 0 => kept[n].index = i - 1
    <2> SUFFICES ASSUME n > 0 PROVE kept[n].index = i - 1
      OBVIOUS
    <2>1. n \in 1..Len(rs) /\ rs[n].index < i /\ rs[n].index \in Nat
      BY <1>3, <1>5
    <2>2. PICK a \in 1..Len(rs) : rs[a].index = i - 1
      BY <2>1
    <2>3. a <= n /\ a \in 1..n
      BY <2>2, <1>5, <1>6
    <2>4. a = n \/ rs[a].index < rs[n].index
      BY <2>1, <2>2, <2>3, <1>5 DEF Sound
    <2>5. rs[n].index = i - 1
      BY <2>1, <2>2, <2>4
    <2> QED
      BY <2>5, <1>8, <1>5
  <1>14. \A a \in 1..n : f.start <= kept[a].index /\ kept[a].index <= i - 1
    <2> SUFFICES ASSUME NEW a \in 1..n PROVE f.start <= kept[a].index /\ kept[a].index <= i - 1
      OBVIOUS
    <2>1. f.start <= kept[a].index /\ kept[a].index \in Nat
      BY <1>11 DEF Sound
    <2>2. n > 0 /\ n \in 1..n /\ kept[n].index = i - 1
      BY <1>5, <1>13
    <2>3. a = n \/ kept[a].index < kept[n].index
      BY <2>2, <1>5, <1>12
    <2> QED
      BY <2>1, <2>2, <2>3
  <1>15. Sound(g)
    <2>1. g.start <= g.last + 1
      BY <1>1, <1>10
    <2> QED
      BY <2>1, <1>8, <1>10, <1>12, <1>13, <1>14 DEF Sound
  <1>16. \A a \in 1..Len(rs) : rs[a].index < i => a \in 1..n
    BY <1>5, <1>6
  <1> QED
    BY <1>7, <1>8, <1>10, <1>11, <1>15, <1>16

LEMMA InvSuffixStep == WalInv /\ SuffixStep => WalInv'
  <1> SUFFICES ASSUME WalInv, SuffixStep PROVE WalInv'
    OBVIOUS
  <1> DEFINE i == doing.index
             k == Min(Affected(i))
             f == segments[k]
  <1>1. /\ MaxIndex \in Nat /\ Top \in Nat /\ segments \in Files /\ last_index \in 0..MaxIndex
        /\ snapshot_index \in Nat /\ TypeOK
        /\ \A x \in DOMAIN entries : x \in Nat
    BY StateFacts DEF WalInv, TypeOK
  <1>2. /\ doing.op = "suffix" /\ DOMAIN entries # {} /\ Limit = i /\ Top = last_index
        /\ i \in (snapshot_index + 1)..last_index
    BY DEF SuffixStep, WalInv, DoingInv, Limit, Top
  <1>3. i \in 1..MaxIndex /\ i \in Nat
    BY <1>1, <1>2
  <1>4. k \in 1..Len(segments) /\ (segments[k].start >= i \/ segments[k].last >= i)
    <2> DEFINE T == Affected(i)
    <2>1. Len(segments) \in Nat /\ DOMAIN segments = 1..Len(segments)
      BY <1>1, FileFacts
    <2>2. T \subseteq Nat /\ T # {}
      BY <2>1 DEF SuffixStep, Affected
    <2>3. Min(T) \in T
      <3> HIDE DEF T
      <3> QED
        BY <2>2, MinFacts
    <2> QED
      BY <2>1, <2>3 DEF Affected
  <1>5. segments' = IF segments[k].start >= i THEN RemoveAt(segments, k)
                    ELSE [segments EXCEPT ![k] = Cut(segments[k], i)]
    BY DEF SuffixStep
  <1>6. UNCHANGED <<entries, last_index, doing, flushed, snapshot_index, crashes>>
    BY DEF SuffixStep, callerVars
  <1>7. /\ InFiles(segments, Top, i) /\ Backed(entries, segments) /\ Filed(entries, segments, i)
    BY <1>2 DEF WalInv, FilesInv
  <1>8. \A m \in 1..Len(segments) : ~segments[m].torn
    BY <1>2 DEF WalInv, DoingInv
  <1>9. \A m \in 1..Len(segments) :
           /\ segments[m].start \in Nat /\ segments[m].last \in Nat
           /\ Sound(segments[m]) /\ segments[m].last <= Top
           /\ \A a \in 1..Len(segments[m].records) :
                /\ segments[m].records[a].index \in Nat
                /\ segments[m].start <= segments[m].records[a].index
                /\ segments[m].records[a].index <= segments[m].last
    BY <1>1, <1>7, FileFacts DEF InFiles, Sound
  <1> HIDE DEF k
  <1>10. /\ segments' \in Files /\ InFiles(segments', Top, i) /\ Backed(entries, segments')
         /\ Filed(entries, segments', i) /\ \A m \in 1..Len(segments') : ~segments'[m].torn
    <2>1. CASE segments[k].start >= i
      <3> DEFINE new == RemoveAt(segments, k)
      <3>1. segments' = new
        BY <2>1, <1>5
      <3>2. new \in Files
        BY <1>1, <1>4, RemoveFacts
      <3>3. /\ InFiles(new, Top, i) /\ Backed(entries, new)
            /\ \A j \in 1..Len(segments) : j # k => \E m \in 1..Len(new) : new[m] = segments[j]
            /\ \A m \in 1..Len(new) : Old(m, k) \in 1..Len(segments) \ {k} /\ new[m] = segments[Old(m, k)]
        <4> HIDE DEF i
        <4> QED
          BY <1>1, <1>4, <1>7, RemovePreserves
      <3> HIDE DEF new
      <3>4. Filed(entries, new, i)
        <4> SUFFICES ASSUME NEW x \in DOMAIN entries, x < i
                     PROVE  \E m \in 1..Len(new) : \E a \in 1..Len(new[m].records) :
                                new[m].records[a].index = x
          BY DEF Filed
        <4>1. PICK j \in 1..Len(segments) : \E a \in 1..Len(segments[j].records) :
                  segments[j].records[a].index = x
          BY <1>7 DEF Filed
        <4>2. PICK a \in 1..Len(segments[j].records) : segments[j].records[a].index = x
          BY <4>1
        <4>3. j # k
          BY <1>3, <1>4, <1>9, <2>1, <4>2
        <4> QED
          BY <3>3, <4>2, <4>3
      <3>5. \A m \in 1..Len(new) : ~new[m].torn
        BY <3>3, <1>8
      <3> QED
        BY <3>1, <3>2, <3>3, <3>4, <3>5
    <2>2. CASE ~(segments[k].start >= i)
      <3> DEFINE g == Cut(f, i)
      <3>1. f \in Segment /\ f.start \in Nat /\ f.last \in Nat /\ f.start < i /\ f.last >= i /\ Sound(f)
        BY <1>1, <1>3, <1>4, <1>9, <2>2, FileFacts
      <3>2. ASSUME NEW a \in 1..Len(f.records), f.records[a].index < i
            PROVE  \E b \in 1..Len(f.records) : f.records[b].index = i - 1
        <4> DEFINE x == f.records[a].index
        <4>1. x \in DOMAIN entries /\ x \in Nat /\ f.start <= x /\ x < i
          BY <1>4, <1>7, <1>9, <3>2 DEF Backed
        <4>2. i - 1 \in x..last_index
          BY <4>1, <1>1, <1>2, <1>3
        <4>3. i - 1 \in DOMAIN entries /\ i - 1 < i
          BY <4>1, <4>2, <1>2, <1>3 DEF WalInv, LogInv
        <4>4. PICK j \in 1..Len(segments) : \E b \in 1..Len(segments[j].records) :
                  segments[j].records[b].index = i - 1
          BY <1>7, <4>3 DEF Filed
        <4>5. PICK b \in 1..Len(segments[j].records) : segments[j].records[b].index = i - 1
          BY <4>4
        <4>6. segments[j].start <= i - 1 /\ i - 1 <= segments[j].last
          BY <4>5, <1>9
        <4>7. ~(j < k)
          <5>1. SUFFICES ASSUME j < k PROVE FALSE
            OBVIOUS
          <5>2. segments[j].last < f.start
            BY <5>1, <1>4, <1>7 DEF InFiles, Ordered
          <5> QED
            BY <5>2, <4>1, <4>6, <1>3, <1>9, <3>1
        <4>8. ~(k < j)
          <5>1. SUFFICES ASSUME k < j PROVE FALSE
            OBVIOUS
          <5>2. f.last < segments[j].start
            BY <5>1, <1>4, <1>7 DEF InFiles, Ordered
          <5> QED
            BY <5>2, <4>6, <1>3, <1>9, <3>1, SMTT(30)
        <4>9. j = k
          BY <4>7, <4>8, <1>1, <1>4, FileFacts
        <4> QED
          BY <4>5, <4>9
      <3> HIDE DEF f, i
      <3>3. /\ g \in Segment /\ g.start = f.start /\ g.last = i - 1 /\ g.torn = f.torn
            /\ \A a \in 1..Len(g.records) : /\ a \in 1..Len(f.records)
                                            /\ g.records[a] = f.records[a]
            /\ \A a \in 1..Len(f.records) :
                 f.records[a].index < i => a \in 1..Len(g.records)
            /\ Sound(g)
        BY <1>3, <3>1, <3>2, CutFacts
      <3> HIDE DEF g
      <3>4. segments' = [segments EXCEPT ![k] = g]
        BY <2>2, <1>5 DEF g, f
      <3>5. /\ segments' \in Files /\ Len(segments') = Len(segments) /\ segments'[k] = g
            /\ \A j \in 1..Len(segments) : j # k => segments'[j] = segments[j]
        <4>1. LET new == [segments EXCEPT ![k] = g] IN
              /\ new \in Files /\ Len(new) = Len(segments) /\ new[k] = g
              /\ \A j \in 1..Len(segments) : j # k => new[j] = segments[j]
              /\ new # <<>>
          BY <1>1, <1>4, <3>3, OneFile
        <4> QED
          BY <3>4, <4>1
      <3>6. \A m \in 1..Len(segments) : segments'[m].start = segments[m].start
        BY <3>3, <3>5 DEF f
      <3>7. g.last < f.last /\ g.last <= Top
        BY <3>1, <3>3, <1>1, <1>2, <1>3 DEF i
      <3>8. \A m \in 1..Len(segments) : m > k => segments[m].start >= i
        <4> SUFFICES ASSUME NEW m \in 1..Len(segments), m > k PROVE segments[m].start >= i
          OBVIOUS
        <4>1. k < m /\ f.last < segments[m].start
          BY <1>1, <1>4, <1>7, FileFacts DEF InFiles, Ordered, f
        <4> QED
          BY <4>1, <3>1, <1>3, <1>9
      <3>9. InFiles(segments', Top, i)
        <4>1. \A m \in 1..Len(segments') : Sound(segments'[m]) /\ segments'[m].last <= Top
          BY <3>3, <3>5, <3>7, <1>9
        <4>2. \A m \in 1..Len(segments) : segments'[m].last \in Nat /\ segments'[m].last <= segments[m].last
          BY <1>3, <3>1, <3>3, <3>5, <3>7, <1>9 DEF f
        <4>3. Ordered(segments')
          <5> SUFFICES ASSUME NEW j \in 1..Len(segments), NEW m \in 1..Len(segments), j < m
                       PROVE  segments'[j].last < segments'[m].start
            BY <3>5 DEF Ordered
          <5>1. segments[j].last < segments[m].start
            BY <1>7 DEF InFiles, Ordered
          <5> QED
            BY <5>1, <4>2, <3>6, <1>9
        <4>4. NoneEmpty(segments', i)
          <5> SUFFICES ASSUME NEW m \in 1..Len(segments), NEW j \in 1..Len(segments), j < m,
                              segments'[j].records = <<>>
                       PROVE  segments'[m].start >= i
            BY <3>5 DEF NoneEmpty
          <5>1. CASE j = k
            <6>1. m > k
              BY <5>1, <1>1, <1>4, FileFacts
            <6> QED
              BY <6>1, <3>6, <3>8
          <5>2. CASE j # k
            BY <5>2, <3>5, <3>6, <1>7 DEF InFiles, NoneEmpty
          <5> QED
            BY <5>1, <5>2
        <4> QED
          BY <4>1, <4>3, <4>4 DEF InFiles
      <3>10. Backed(entries, segments')
        <4> SUFFICES ASSUME NEW m \in 1..Len(segments), NEW a \in 1..Len(segments'[m].records)
                     PROVE  /\ segments'[m].records[a].index \in DOMAIN entries
                            /\ entries[segments'[m].records[a].index] = segments'[m].records[a].term
          BY <3>5 DEF Backed
        <4>1. a \in 1..Len(segments[m].records) /\ segments'[m].records[a] = segments[m].records[a]
          BY <3>3, <3>5 DEF f
        <4> QED
          BY <4>1, <1>7 DEF Backed
      <3>11. Filed(entries, segments', i)
        <4> SUFFICES ASSUME NEW x \in DOMAIN entries, x < i
                     PROVE  \E m \in 1..Len(segments) : \E a \in 1..Len(segments'[m].records) :
                                segments'[m].records[a].index = x
          BY <3>5 DEF Filed
        <4>1. PICK j \in 1..Len(segments) : \E a \in 1..Len(segments[j].records) :
                  segments[j].records[a].index = x
          BY <1>7 DEF Filed
        <4>2. PICK a \in 1..Len(segments[j].records) : segments[j].records[a].index = x
          BY <4>1
        <4>3. a \in 1..Len(segments'[j].records) /\ segments'[j].records[a].index = x
          <5>1. CASE j = k
            BY <5>1, <4>2, <3>3, <3>5 DEF f
          <5>2. CASE j # k
            BY <5>2, <4>2, <3>5
          <5> QED
            BY <5>1, <5>2
        <4> QED
          BY <4>3
      <3>12. \A m \in 1..Len(segments') : ~segments'[m].torn
        BY <1>4, <1>8, <3>3, <3>5 DEF f
      <3> QED
        BY <3>5, <3>9, <3>10, <3>11, <3>12
    <2> QED
      BY <2>1, <2>2
  <1>11. Top' = Top /\ Limit' = i
    BY <1>2, <1>6 DEF Top, Limit
  <1>12. TypeOK'
    BY <1>1, <1>6, <1>10 DEF TypeOK, Files
  <1>13. FilesInv'
    BY <1>6, <1>10, <1>11 DEF FilesInv
  <1>14. LogInv'
    BY <1>6 DEF WalInv, LogInv
  <1>15. DoingInv'
    BY <1>2, <1>6, <1>10 DEF WalInv, DoingInv
  <1> QED
    BY <1>12, <1>13, <1>14, <1>15 DEF WalInv

LEMMA LastFacts ==
    ASSUME NEW map, DOMAIN map \subseteq 1..MaxIndex
    PROVE  /\ DOMAIN map = {} => LastOf(map) = 0
           /\ DOMAIN map # {} => LastOf(map) \in DOMAIN map /\ \A x \in DOMAIN map : x <= LastOf(map)
  <1> DEFINE T == DOMAIN map
  <1>1. MaxIndex \in Nat
    BY WalAssumption
  <1>2. IsFiniteSet(T) /\ T \subseteq Nat
    <2>1. IsFiniteSet(1..MaxIndex)
      BY <1>1, FS_Interval
    <2>2. T \subseteq 1..MaxIndex /\ T \subseteq Nat
      BY <1>1
    <2> HIDE DEF T
    <2> QED
      BY <2>1, <2>2, FS_Subset
  <1>3. T # {} => Max(T) \in T /\ \A y \in T : Max(T) >= y
    <2> HIDE DEF T
    <2> QED
      BY <1>2, MaxFacts
  <1>4. \A y \in T : Max(T) \in T /\ Max(T) >= y => y <= Max(T)
    BY <1>2
  <1> QED
    BY <1>3, <1>4 DEF LastOf

LEMMA InvSuffixEnd == WalInv /\ SuffixEnd => WalInv' /\ last_index' = doing.index - 1
  <1> SUFFICES ASSUME WalInv, SuffixEnd PROVE WalInv' /\ last_index' = doing.index - 1
    OBVIOUS
  <1> DEFINE i == doing.index
             T == {j \in DOMAIN entries : j < i}
             kept == Restrict(entries, T)
  <1>1. /\ MaxIndex \in Nat /\ Top \in Nat /\ segments \in Files /\ last_index \in 0..MaxIndex
        /\ snapshot_index \in 0..MaxIndex /\ flushed \in 0..MaxIndex /\ TypeOK
        /\ \A x \in DOMAIN entries : x \in Nat /\ x \in 1..MaxIndex /\ x < MaxIndex + 2
    BY StateFacts DEF WalInv, TypeOK
  <1>2. /\ doing.op = "suffix" /\ DOMAIN entries # {} /\ Limit = i /\ flushed < i
        /\ i \in (snapshot_index + 1)..last_index
    BY DEF SuffixEnd, WalInv, DoingInv, Limit, Top
  <1>3. i \in 1..MaxIndex /\ i \in Nat
    BY <1>1, <1>2
  <1>4. /\ InFiles(segments, Top, i) /\ Backed(entries, segments) /\ Filed(entries, segments, i)
    BY <1>2 DEF WalInv, FilesInv
  <1>5. \A k \in 1..Len(segments) : /\ segments[k].start \in Nat /\ segments[k].last \in Nat
                                    /\ segments[k].start < i /\ segments[k].last < i
                                    /\ ~segments[k].torn
    <2>1. \A k \in 1..Len(segments) : k \in DOMAIN segments /\ segments[k].start \in Nat
                                      /\ segments[k].last \in Nat
      BY <1>1, FileFacts
    <2>2. \A k \in 1..Len(segments) : ~(segments[k].start >= i \/ segments[k].last >= i)
      BY <2>1 DEF SuffixEnd, Affected
    <2>3. \A m \in 1..Len(segments) : ~segments[m].torn
      BY <1>2 DEF WalInv, DoingInv
    <2> QED
      BY <2>1, <2>2, <2>3, <1>3
  <1>6. /\ DOMAIN entries' = T /\ \A x \in T : entries'[x] = entries[x]
        /\ entries' = kept /\ entries' \in [T -> Term]
    BY <1>1 DEF SuffixEnd, Restrict, TypeOK
  <1>7. \A z \in (snapshot_index + 1)..(i - 1) : z \in T
    <2> SUFFICES ASSUME NEW z \in (snapshot_index + 1)..(i - 1) PROVE z \in T
      OBVIOUS
    <2>1. z \in (snapshot_index + 1)..last_index /\ z < i
      BY <1>1, <1>2, <1>3
    <2> QED
      BY <2>1, <1>2 DEF WalInv, LogInv
  <1>8. \A x \in T : \A z \in x..(i - 1) : z \in T
    <2> SUFFICES ASSUME NEW x \in T, NEW z \in x..(i - 1) PROVE z \in T
      OBVIOUS
    <2>1. z \in x..last_index /\ z < i
      BY <1>1, <1>2, <1>3
    <2> QED
      BY <2>1, <1>2 DEF WalInv, LogInv
  <1>9. T # {} => i - 1 \in T
    <2> SUFFICES ASSUME NEW x \in T PROVE i - 1 \in T
      OBVIOUS
    <2>1. i - 1 \in x..(i - 1)
      BY <1>1, <1>3
    <2> QED
      BY <2>1, <1>8
  <1>10. T = {} => i - 1 = snapshot_index
    <2>1. SUFFICES ASSUME T = {}, i - 1 # snapshot_index PROVE FALSE
      OBVIOUS
    <2>2. i - 1 \in (snapshot_index + 1)..(i - 1)
      BY <2>1, <1>1, <1>2, <1>3
    <2> QED
      BY <2>1, <2>2, <1>7
  <1>11. last_index' = i - 1
    <2>1. last_index' = IF T = {} THEN i - 1 ELSE LastOf(kept)
      BY <1>6 DEF SuffixEnd
    <2>2. CASE T = {}
      BY <2>1, <2>2
    <2>3. CASE T # {}
      <3>1. DOMAIN kept = T /\ T \subseteq 1..MaxIndex
        BY <1>1, <1>6
      <3>2. LastOf(kept) \in T /\ \A x \in T : x <= LastOf(kept)
        <4> HIDE DEF kept, T
        <4> QED
          BY <2>3, <3>1, LastFacts
      <3>3. LastOf(kept) \in Nat /\ LastOf(kept) < i /\ i - 1 <= LastOf(kept)
        BY <3>2, <2>3, <1>1, <1>9
      <3> HIDE DEF kept, i
      <3> QED
        BY <2>1, <2>3, <3>3, <1>3
    <2> QED
      BY <2>2, <2>3
  <1>12. doing' = Idle /\ doing'.op = "none" /\ UNCHANGED <<flushed, snapshot_index, crashes>>
    BY DEF SuffixEnd, callerVars, Idle
  <1>13. Top' = i - 1 /\ Limit' = MaxIndex + 2
    BY <1>6, <1>10, <1>11, <1>12 DEF Top, Limit
  <1> HIDE DEF kept, i
  <1>14. i - 1 \in Nat /\ i - 1 \in 0..MaxIndex
    BY <1>1, <1>3
  <1>15. /\ segments' \in Files /\ segments' # <<>>
         /\ InFiles(segments', i - 1, MaxIndex + 2) /\ Backed(entries', segments')
         /\ Filed(entries', segments', MaxIndex + 2)
         /\ \A m \in 1..Len(segments') : ~segments'[m].torn
    <2>1. CASE segments = <<>>
      <3>1. Len(segments) = 0
        BY <2>1, EmptySeq
      <3>2. T = {}
        <4>1. SUFFICES ASSUME NEW x \in T PROVE FALSE
          OBVIOUS
        <4>2. \E k \in 1..Len(segments) : TRUE
          BY <1>4 DEF Filed
        <4> QED
          BY <4>2, <3>1
      <3>3. segments' = <<Fresh(i)>>
        BY <2>1 DEF SuffixEnd, i
      <3>4. /\ segments' \in Files /\ Len(segments') = 1 /\ segments' # <<>> /\ segments'[1] = Fresh(i)
            /\ InFiles(segments', i - 1, MaxIndex + 2) /\ Backed(entries', segments')
            /\ Filed(entries', segments', MaxIndex + 2)
        <4>1. i \in 1..(MaxIndex + 1) /\ DOMAIN entries' = {} /\ i - 1 <= i - 1
          BY <3>2, <1>1, <1>3, <1>6
        <4> QED
          BY <3>3, <4>1, <1>14, OneFresh
      <3>5. Fresh(i).torn = FALSE
        BY DEF Fresh
      <3> QED
        BY <3>4, <3>5
    <2>2. CASE segments # <<>>
      <3>1. segments' = segments
        BY <2>2 DEF SuffixEnd
      <3>2. InFiles(segments, i - 1, MaxIndex + 2)
        <4>1. \A k \in 1..Len(segments) : Sound(segments[k]) /\ segments[k].last <= i - 1
          BY <1>3, <1>4, <1>5 DEF InFiles
        <4>2. NoneEmpty(segments, MaxIndex + 2)
          <5>1. ASSUME NEW k \in 1..Len(segments), NEW j \in 1..Len(segments), j < k,
                       segments[j].records = <<>>
                PROVE  FALSE
            <6>1. segments[k].start >= i
              BY <5>1, <1>4 DEF InFiles, NoneEmpty
            <6> QED
              BY <6>1, <1>3, <1>5
          <5> QED
            BY <5>1 DEF NoneEmpty
        <4> QED
          BY <4>1, <4>2, <1>4 DEF InFiles
      <3>3. Backed(entries', segments)
        <4> SUFFICES ASSUME NEW k \in 1..Len(segments), NEW a \in 1..Len(segments[k].records)
                     PROVE  /\ segments[k].records[a].index \in DOMAIN entries'
                            /\ entries'[segments[k].records[a].index] = segments[k].records[a].term
          BY DEF Backed
        <4> DEFINE x == segments[k].records[a].index
        <4>1. x \in DOMAIN entries /\ entries[x] = segments[k].records[a].term
          BY <1>4 DEF Backed
        <4>2. x <= segments[k].last
          BY <1>4 DEF InFiles, Sound
        <4>3. x < i
          BY <4>1, <4>2, <1>1, <1>3, <1>5
        <4> QED
          BY <4>1, <4>3, <1>6
      <3>4. Filed(entries', segments, MaxIndex + 2)
        BY <1>4, <1>6 DEF Filed
      <3> QED
        BY <2>2, <3>1, <3>2, <3>3, <3>4, <1>1, <1>5
    <2> QED
      BY <2>1, <2>2
  <1>16. TypeOK'
    <2>1. DOMAIN entries' \subseteq 1..MaxIndex /\ entries' \in [DOMAIN entries' -> Term]
      BY <1>1, <1>6
    <2> QED
      BY <2>1, <1>1, <1>11, <1>12, <1>14, <1>15 DEF TypeOK, Files, Idle
  <1>17. FilesInv'
    BY <1>13, <1>15 DEF FilesInv
  <1>18. LogInv'
    <2>1. \A x \in T : x <= i - 1
      BY <1>1, <1>3
    <2>2. flushed <= i - 1
      BY <1>1, <1>2, <1>3
    <2>3. DOMAIN entries' = {} => last_index' <= snapshot_index' /\ flushed' <= snapshot_index'
      BY <1>1, <1>6, <1>10, <1>11, <1>12, <2>2
    <2> HIDE DEF T
    <2> QED
      BY <2>1, <2>2, <2>3, <1>6, <1>7, <1>8, <1>9, <1>11, <1>12 DEF LogInv
  <1>19. DoingInv'
    BY <1>12, <1>15 DEF DoingInv, Idle
  <1> QED
    BY <1>11, <1>16, <1>17, <1>18, <1>19 DEF WalInv, i

(***************************************************************************)
(* TruncateBefore.                                                         *)
(***************************************************************************)

LEMMA InvBeforeBegin == WalInv /\ BeforeBegin => WalInv'
  <1> SUFFICES ASSUME WalInv, BeforeBegin PROVE WalInv'
    OBVIOUS
  <1>1. /\ MaxIndex \in Nat /\ Top \in Nat /\ segments \in Files /\ last_index \in Nat
        /\ snapshot_index \in Nat /\ flushed \in Nat /\ TypeOK
    BY StateFacts DEF WalInv
  <1>2. doing = Idle /\ doing.op = "none" /\ segments # <<>> /\ Limit = MaxIndex + 2
    BY DEF BeforeBegin, WalInv, DoingInv, Idle, Limit
  <1>3. PICK i \in (snapshot_index + 1)..(MaxIndex + 1) :
            /\ doing' = [op |-> "before", index |-> i, term |-> 0]
            /\ snapshot_index' = i - 1
    BY DEF BeforeBegin
  <1>4. UNCHANGED <<segments, entries, last_index, flushed, crashes>>
    BY DEF BeforeBegin
  <1>5. /\ i \in Nat /\ i - 1 \in 0..MaxIndex /\ snapshot_index' >= snapshot_index
        /\ doing'.op = "before" /\ doing'.index = snapshot_index' + 1
        /\ doing' \in [op : {"none", "append", "suffix", "before"}, index : 0..(MaxIndex + 1),
                       term : Term \cup {0}]
    BY <1>1, <1>3
  <1>6. snapshot_index' \in 0..MaxIndex /\ snapshot_index' \in Nat
    BY <1>1, <1>3, <1>5
  <1>7. Top' \in Nat /\ Top <= Top' /\ Limit' = MaxIndex + 2
    BY <1>1, <1>4, <1>5, <1>6 DEF Top, Limit
  <1>8. TypeOK'
    BY <1>1, <1>4, <1>5, <1>6 DEF TypeOK
  <1>9. FilesInv'
    <2>1. /\ InFiles(segments, Top, MaxIndex + 2) /\ Backed(entries, segments)
          /\ Filed(entries, segments, MaxIndex + 2)
      BY <1>2 DEF WalInv, FilesInv
    <2>2. \A k \in 1..Len(segments) : segments[k].last \in Nat
      BY <1>1, FileFacts
    <2>3. InFiles(segments, Top', MaxIndex + 2)
      BY <2>1, <2>2, <1>1, <1>7 DEF InFiles
    <2> QED
      BY <2>1, <2>3, <1>4, <1>7 DEF FilesInv
  <1>10. LogInv'
    <2>1. \A z \in (snapshot_index' + 1)..last_index : z \in (snapshot_index + 1)..last_index
      <3> DEFINE s == snapshot_index'
      <3>1. s \in Nat /\ s >= snapshot_index
        BY <1>5, <1>6
      <3> HIDE DEF s
      <3>2. \A z \in (s + 1)..last_index : z \in (snapshot_index + 1)..last_index
        BY <1>1, <3>1
      <3> QED
        BY <3>2 DEF s
    <2>2. last_index <= snapshot_index => last_index <= snapshot_index'
      BY <1>1, <1>5, <1>6
    <2>3. flushed <= snapshot_index => flushed <= snapshot_index'
      BY <1>1, <1>5, <1>6
    <2> QED
      BY <2>1, <2>2, <2>3, <1>4 DEF WalInv, LogInv
  <1>11. DoingInv'
    BY <1>2, <1>4, <1>5 DEF WalInv, DoingInv
  <1> QED
    BY <1>8, <1>9, <1>10, <1>11 DEF WalInv

\* What TruncateBefore removes with a segment are the first entries of the log.
LEMMA BeforeFacts ==
    ASSUME WalInv, BeforeStep
    PROVE  LET k == Min(Obsolete(doing.index)) IN
           /\ k \in 1..Len(segments) /\ segments[k].last <= snapshot_index
           /\ segments' = RemoveAt(segments, k)
           /\ entries' = Restrict(entries, {x \in DOMAIN entries : x >= segments[k].last + 1})
           /\ \A m \in 1..Len(segments) : \A a \in 1..Len(segments[m].records) :
                m # k <=> segments[m].records[a].index > segments[k].last
  <1> DEFINE i == doing.index
             k == Min(Obsolete(i))
             f == segments[k]
             gone == {r.index : r \in Range(f.records)}
  <1>1. /\ MaxIndex \in Nat /\ Top \in Nat /\ segments \in Files /\ snapshot_index \in Nat
        /\ \A x \in DOMAIN entries : x \in Nat /\ x < MaxIndex + 2
    BY StateFacts DEF WalInv
  <1>2. /\ doing.op = "before" /\ Limit = MaxIndex + 2 /\ i = snapshot_index + 1
    BY DEF BeforeStep, WalInv, DoingInv, Limit
  <1>3. Len(segments) \in Nat /\ DOMAIN segments = 1..Len(segments)
    BY <1>1, FileFacts
  <1>4. k \in Obsolete(i) /\ \A j \in Obsolete(i) : k <= j
    <2> DEFINE T == Obsolete(i)
    <2>1. T \subseteq Nat /\ T # {}
      BY <1>3 DEF BeforeStep, Obsolete
    <2> HIDE DEF T
    <2> QED
      BY <2>1, MinFacts DEF T
  <1>5. k \in 1..Len(segments) /\ k \in Nat /\ f.last # 0 /\ f.last < i
    BY <1>3, <1>4 DEF Obsolete
  <1>6. segments' = RemoveAt(segments, k) /\ entries' = Restrict(entries, DOMAIN entries \ gone)
    BY DEF BeforeStep
  <1> HIDE DEF k
  <1>7. \A m \in 1..Len(segments) :
           /\ segments[m].start \in Nat /\ segments[m].last \in Nat
           /\ segments[m].start <= segments[m].last + 1
           /\ \A a \in 1..Len(segments[m].records) :
                /\ segments[m].records[a].index \in Nat /\ segments[m].records[a].index > 0
                /\ segments[m].start <= segments[m].records[a].index
                /\ segments[m].records[a].index <= segments[m].last
    BY <1>1, FileFacts DEF WalInv, FilesInv, InFiles, Sound
  <1>8. Ordered(segments) /\ Filed(entries, segments, MaxIndex + 2)
    BY <1>2 DEF WalInv, FilesInv, InFiles
  <1>9. \A m \in 1..Len(segments) : \A a \in 1..Len(segments[m].records) :
           m # k <=> segments[m].records[a].index > f.last
    <2> SUFFICES ASSUME NEW m \in 1..Len(segments), NEW a \in 1..Len(segments[m].records)
                 PROVE  m # k <=> segments[m].records[a].index > f.last
      OBVIOUS
    <2>1. CASE m = k
      <3>1. segments[m].records[a].index <= f.last /\ segments[m].records[a].index \in Nat /\ f.last \in Nat
        BY <2>1, <1>7
      <3> QED
        BY <2>1, <3>1
    <2>2. CASE m < k
      <3>1. segments[m].last < f.start
        BY <2>2, <1>5, <1>8 DEF Ordered
      <3>2. segments[m].last < i
        BY <3>1, <1>1, <1>2, <1>5, <1>7, SMTT(30)
      <3>3. m \notin Obsolete(i)
        BY <2>2, <1>3, <1>4, <1>5
      <3>4. segments[m].last = 0
        BY <3>2, <3>3, <1>3 DEF Obsolete
      <3> QED
        BY <3>4, <1>7
    <2>3. CASE m > k
      <3>1. k < m
        BY <2>3, <1>3, <1>5
      <3>2. f.last < segments[m].start
        BY <3>1, <1>5, <1>8 DEF Ordered
      <3>3. f.last \in Nat /\ segments[m].start \in Nat /\ segments[m].records[a].index \in Nat
            /\ segments[m].start <= segments[m].records[a].index
        BY <1>5, <1>7
      <3> HIDE DEF f
      <3> QED
        BY <3>1, <3>2, <3>3, <1>3, <1>5
    <2> QED
      BY <2>1, <2>2, <2>3, <1>3, <1>5
  <1>10. \A r : r \in Range(f.records) <=> \E a \in 1..Len(f.records) : r = f.records[a]
    <2>1. DOMAIN f.records = 1..Len(f.records)
      BY <1>1, <1>5, FileFacts
    <2> QED
      BY <2>1 DEF Range
  <1>11. DOMAIN entries \ gone = {x \in DOMAIN entries : x >= f.last + 1}
    <2> SUFFICES ASSUME NEW x \in DOMAIN entries PROVE x \notin gone <=> x >= f.last + 1
      OBVIOUS
    <2>1. x \in Nat /\ x < MaxIndex + 2 /\ f.last \in Nat
      BY <1>1, <1>5, <1>7
    <2>2. ASSUME x \in gone PROVE ~(x >= f.last + 1)
      <3>1. PICK a \in 1..Len(f.records) : x = f.records[a].index
        BY <2>2, <1>10
      <3>2. ~(x > f.last)
        BY <3>1, <1>5, <1>9
      <3> QED
        BY <3>2, <2>1
    <2>3. ASSUME x \notin gone PROVE x >= f.last + 1
      <3>1. PICK m \in 1..Len(segments) : \E a \in 1..Len(segments[m].records) :
                segments[m].records[a].index = x
        BY <2>1, <1>8 DEF Filed
      <3>2. PICK a \in 1..Len(segments[m].records) : segments[m].records[a].index = x
        BY <3>1
      <3>3. m # k
        <4>1. SUFFICES ASSUME m = k PROVE FALSE
          OBVIOUS
        <4>2. f.records[a] \in Range(f.records) /\ f.records[a].index = x
          BY <4>1, <3>2, <1>10
        <4> QED
          BY <4>2, <2>3
      <3>4. x > f.last
        BY <3>2, <3>3, <1>9
      <3> QED
        BY <3>4, <2>1
    <2> QED
      BY <2>2, <2>3
  <1>12. f.last <= snapshot_index
    BY <1>1, <1>2, <1>5, <1>7
  <1> QED
    BY <1>5, <1>6, <1>9, <1>11, <1>12 DEF k

LEMMA InvBeforeStep == WalInv /\ BeforeStep => WalInv'
  <1> SUFFICES ASSUME WalInv, BeforeStep PROVE WalInv'
    OBVIOUS
  <1> DEFINE k == Min(Obsolete(doing.index))
             p == segments[k].last
             T == {x \in DOMAIN entries : x >= p + 1}
  <1>1. /\ MaxIndex \in Nat /\ Top \in Nat /\ segments \in Files /\ snapshot_index \in Nat
        /\ last_index \in Nat /\ flushed \in Nat /\ TypeOK
        /\ \A x \in DOMAIN entries : x \in Nat /\ x \in 1..MaxIndex /\ x < MaxIndex + 2
    BY StateFacts DEF WalInv
  <1>2. doing.op = "before" /\ Limit = MaxIndex + 2
    BY DEF BeforeStep, Limit
  <1>3. /\ k \in 1..Len(segments) /\ p <= snapshot_index
        /\ segments' = RemoveAt(segments, k) /\ entries' = Restrict(entries, T)
        /\ \A m \in 1..Len(segments) : \A a \in 1..Len(segments[m].records) :
              m # k <=> segments[m].records[a].index > p
    BY BeforeFacts
  <1>4. UNCHANGED <<last_index, doing, flushed, snapshot_index, crashes>>
    BY DEF BeforeStep, callerVars
  <1>5. p \in Nat
    BY <1>1, <1>3, FileFacts
  <1> HIDE DEF k, p
  <1>6. /\ DOMAIN entries' = T /\ \A x \in T : entries'[x] = entries[x]
        /\ entries' \in [T -> Term]
    BY <1>1, <1>3 DEF Restrict, TypeOK
  <1>7. \A x \in DOMAIN entries : x > p <=> x \in T
    BY <1>1, <1>5
  <1>8. T # {} => last_index \in T /\ DOMAIN entries # {}
    <2> SUFFICES ASSUME NEW x \in T PROVE last_index \in T
      OBVIOUS
    <2>1. last_index \in DOMAIN entries /\ x <= last_index /\ x >= p + 1 /\ x \in Nat
      BY <1>1 DEF WalInv, LogInv
    <2> QED
      BY <2>1, <1>1, <1>5
  <1>9. T = {} /\ DOMAIN entries # {} => last_index <= snapshot_index
    <2> SUFFICES ASSUME T = {}, DOMAIN entries # {} PROVE last_index <= snapshot_index
      OBVIOUS
    <2>1. last_index \in DOMAIN entries /\ ~(last_index > p)
      BY <1>7 DEF WalInv, LogInv
    <2> QED
      BY <2>1, <1>1, <1>3, <1>5
  <1>10. Top' \in Nat /\ Top <= Top' /\ Limit' = MaxIndex + 2
    <2>1. CASE T = {}
      <3>1. Top' = snapshot_index
        BY <2>1, <1>4, <1>6 DEF Top
      <3>2. Top <= snapshot_index
        <4>1. CASE DOMAIN entries = {}
          BY <4>1, <1>1 DEF Top
        <4>2. CASE DOMAIN entries # {}
          <5>1. last_index <= snapshot_index
            BY <2>1, <4>2, <1>9
          <5> QED
            BY <4>2, <5>1 DEF Top
        <4> QED
          BY <4>1, <4>2
      <3> QED
        BY <3>1, <3>2, <1>1, <1>2, <1>4 DEF Limit
    <2>2. CASE T # {}
      <3>1. Top' = last_index /\ Top = last_index
        BY <2>2, <1>4, <1>6, <1>8 DEF Top
      <3> QED
        BY <3>1, <1>1, <1>2, <1>4 DEF Limit
    <2> QED
      BY <2>1, <2>2
  <1> DEFINE new == RemoveAt(segments, k)
  <1>11. /\ InFiles(segments, Top, MaxIndex + 2) /\ Backed(entries, segments)
         /\ Filed(entries, segments, MaxIndex + 2)
    BY <1>2 DEF WalInv, FilesInv
  <1>12. /\ new \in Files /\ InFiles(new, Top, MaxIndex + 2) /\ Backed(entries, new)
         /\ \A j \in 1..Len(segments) : j # k => \E m \in 1..Len(new) : new[m] = segments[j]
         /\ \A m \in 1..Len(new) :
               Old(m, k) \in 1..Len(segments) \ {k} /\ new[m] = segments[Old(m, k)]
    <2>1. new \in Files
      BY <1>1, <1>3, RemoveFacts
    <2> DEFINE limit == MaxIndex + 2
    <2>2. InFiles(segments, Top, limit)
      BY <1>11
    <2> HIDE DEF limit
    <2>3. /\ InFiles(new, Top, limit) /\ Backed(entries, new)
          /\ \A j \in 1..Len(segments) : j # k => \E m \in 1..Len(new) : new[m] = segments[j]
          /\ \A m \in 1..Len(new) :
                Old(m, k) \in 1..Len(segments) \ {k} /\ new[m] = segments[Old(m, k)]
      BY <1>1, <1>3, <1>11, <2>2, RemovePreserves
    <2> QED
      BY <2>1, <2>3 DEF limit
  <1> HIDE DEF new
  <1>13. InFiles(new, Top', MaxIndex + 2)
    <2>1. \A m \in 1..Len(new) : new[m].last \in Nat
      BY <1>12, FileFacts
    <2> QED
      BY <2>1, <1>1, <1>10, <1>12 DEF InFiles
  <1>14. Backed(entries', new)
    <2> SUFFICES ASSUME NEW m \in 1..Len(new), NEW a \in 1..Len(new[m].records)
                 PROVE  /\ new[m].records[a].index \in DOMAIN entries'
                        /\ entries'[new[m].records[a].index] = new[m].records[a].term
      BY DEF Backed
    <2>1. /\ new[m].records[a].index \in DOMAIN entries
          /\ entries[new[m].records[a].index] = new[m].records[a].term
      BY <1>12 DEF Backed
    <2>2. new[m].records[a].index > p
      BY <1>3, <1>12
    <2> QED
      BY <2>1, <2>2, <1>6, <1>7
  <1>15. Filed(entries', new, MaxIndex + 2)
    <2> SUFFICES ASSUME NEW x \in T
                 PROVE  \E m \in 1..Len(new) : \E a \in 1..Len(new[m].records) :
                           new[m].records[a].index = x
      BY <1>6 DEF Filed
    <2>1. PICK j \in 1..Len(segments) : \E a \in 1..Len(segments[j].records) :
              segments[j].records[a].index = x
      BY <1>1, <1>11 DEF Filed
    <2>2. PICK a \in 1..Len(segments[j].records) : segments[j].records[a].index = x
      BY <2>1
    <2>3. j # k
      BY <2>2, <1>3, <1>7
    <2> QED
      BY <2>2, <2>3, <1>12
  <1>16. segments' = new
    BY <1>3 DEF new
  <1>17. TypeOK'
    <2>1. DOMAIN entries' \subseteq 1..MaxIndex /\ entries' \in [DOMAIN entries' -> Term]
      BY <1>1, <1>6
    <2> QED
      BY <2>1, <1>1, <1>4, <1>12, <1>16 DEF TypeOK, Files
  <1>18. FilesInv'
    BY <1>10, <1>13, <1>14, <1>15, <1>16 DEF FilesInv
  <1>19. LogInv'
    <2>1. CASE T = {}
      <3>1. last_index <= snapshot_index
        BY <2>1, <1>9 DEF WalInv, LogInv
      <3>2. flushed <= last_index \/ flushed <= snapshot_index
        BY DEF WalInv, LogInv
      <3>3. flushed <= snapshot_index
        BY <3>1, <3>2, <1>1
      <3> QED
        BY <2>1, <3>1, <3>3, <1>4, <1>6 DEF LogInv
    <2>2. CASE T # {}
      <3>1. last_index \in T /\ \A x \in T : x <= last_index
        BY <2>2, <1>8 DEF WalInv, LogInv
      <3>2. ASSUME NEW x \in T, NEW z \in x..last_index PROVE z \in T
        <4>1. z \in DOMAIN entries
          BY <2>2 DEF WalInv, LogInv
        <4>2. x > p /\ x \in Nat /\ z \in Int /\ z >= x
          BY <1>1, <1>7, <3>2
        <4> QED
          BY <4>1, <4>2, <1>5, <1>7
      <3>3. ASSUME NEW z \in (snapshot_index + 1)..last_index PROVE z \in T
        <4>1. z \in DOMAIN entries
          BY <2>2 DEF WalInv, LogInv
        <4>2. z > p
          BY <1>1, <1>3, <1>5
        <4> QED
          BY <4>1, <4>2, <1>7
      <3>4. flushed <= last_index
        BY <2>2, <1>8 DEF WalInv, LogInv
      <3> HIDE DEF T
      <3> QED
        BY <2>2, <3>1, <3>2, <3>3, <3>4, <1>4, <1>6 DEF LogInv
    <2> QED
      BY <2>1, <2>2
  <1>20. DoingInv'
    <2>1. \A m \in 1..Len(segments) : ~segments[m].torn
      BY <1>2 DEF WalInv, DoingInv
    <2>2. \A m \in 1..Len(segments') : ~segments'[m].torn
      BY <2>1, <1>12, <1>16
    <2> QED
      BY <2>2, <1>2, <1>4 DEF WalInv, DoingInv
  <1> QED
    BY <1>17, <1>18, <1>19, <1>20 DEF WalInv

LEMMA InvBeforeEnd == WalInv /\ BeforeEnd => WalInv'
  <1> SUFFICES ASSUME WalInv, BeforeEnd PROVE WalInv'
    OBVIOUS
  <1> DEFINE i == doing.index
  <1>1. /\ MaxIndex \in Nat /\ Top \in Nat /\ segments \in Files /\ snapshot_index \in 0..MaxIndex
        /\ last_index \in Nat /\ flushed \in Nat /\ TypeOK
        /\ \A x \in DOMAIN entries : x \in Nat /\ x \in 1..MaxIndex /\ x < MaxIndex + 2
    BY StateFacts DEF WalInv, TypeOK
  <1>2. doing.op = "before" /\ Limit = MaxIndex + 2 /\ i = snapshot_index + 1
    BY DEF BeforeEnd, WalInv, DoingInv, Limit
  <1>3. UNCHANGED <<entries, flushed, snapshot_index, crashes>> /\ doing' = Idle
    BY DEF BeforeEnd, callerVars
  <1>4. doing'.op = "none"
    BY <1>3 DEF Idle
  <1>5. /\ DOMAIN entries = {} => last_index' = 0
        /\ DOMAIN entries # {} => last_index' = last_index
    <2>1. DOMAIN entries \subseteq 1..MaxIndex /\ last_index' = LastOf(entries)
      BY <1>1 DEF BeforeEnd
    <2>2. /\ DOMAIN entries = {} => LastOf(entries) = 0
          /\ DOMAIN entries # {} => /\ LastOf(entries) \in DOMAIN entries
                                    /\ \A x \in DOMAIN entries : x <= LastOf(entries)
      BY <2>1, LastFacts
    <2>3. CASE DOMAIN entries = {}
      BY <2>1, <2>2, <2>3
    <2>4. CASE DOMAIN entries # {}
      <3>1. last_index \in DOMAIN entries /\ \A x \in DOMAIN entries : x <= last_index
        BY <2>4 DEF WalInv, LogInv
      <3>2. LastOf(entries) <= last_index /\ last_index <= LastOf(entries) /\ LastOf(entries) \in Nat
        BY <2>2, <2>4, <3>1, <1>1
      <3>3. LastOf(entries) = last_index
        BY <3>2, <1>1
      <3> QED
        BY <2>1, <2>4, <3>3
    <2> QED
      BY <2>3, <2>4
  <1>6. Top' = Top /\ Limit' = MaxIndex + 2
    BY <1>3, <1>4, <1>5 DEF Top, Limit
  <1>7. \A m \in 1..Len(segments) : ~segments[m].torn
    BY <1>2 DEF WalInv, DoingInv
  <1>8. /\ InFiles(segments, Top, MaxIndex + 2) /\ Backed(entries, segments)
        /\ Filed(entries, segments, MaxIndex + 2)
    BY <1>2 DEF WalInv, FilesInv
  <1>9. /\ segments' \in Files /\ segments' # <<>>
        /\ InFiles(segments', Top, MaxIndex + 2) /\ Backed(entries, segments')
        /\ Filed(entries, segments', MaxIndex + 2)
        /\ \A m \in 1..Len(segments') : ~segments'[m].torn
    <2>1. CASE segments = <<>>
      <3>1. Len(segments) = 0
        BY <2>1, EmptySeq
      <3>2. DOMAIN entries = {}
        <4>1. SUFFICES ASSUME NEW x \in DOMAIN entries PROVE FALSE
          OBVIOUS
        <4>2. \E k \in 1..Len(segments) : TRUE
          BY <1>1, <1>8 DEF Filed
        <4> QED
          BY <4>2, <3>1
      <3>3. segments' = <<Fresh(i)>>
        BY <2>1 DEF BeforeEnd
      <3>4. i \in 1..(MaxIndex + 1) /\ i - 1 <= Top
        BY <3>2, <1>1, <1>2 DEF Top
      <3>5. /\ segments' \in Files /\ Len(segments') = 1 /\ segments' # <<>> /\ segments'[1] = Fresh(i)
            /\ InFiles(segments', Top, MaxIndex + 2) /\ Backed(entries, segments')
            /\ Filed(entries, segments', MaxIndex + 2)
        <4> HIDE DEF i, Top
        <4> QED
          BY <3>2, <3>3, <3>4, <1>1, OneFresh
      <3>6. Fresh(i).torn = FALSE
        BY DEF Fresh
      <3> QED
        BY <3>5, <3>6
    <2>2. CASE segments # <<>>
      <3>1. segments' = segments
        BY <2>2 DEF BeforeEnd
      <3> QED
        BY <2>2, <3>1, <1>1, <1>7, <1>8
    <2> QED
      BY <2>1, <2>2
  <1>10. TypeOK'
    <2>1. last_index' \in 0..MaxIndex
      <3>1. last_index' = 0 \/ last_index' = last_index
        BY <1>5
      <3> QED
        BY <3>1, <1>1 DEF TypeOK
    <2>2. doing' \in [op : {"none", "append", "suffix", "before"}, index : 0..(MaxIndex + 1),
                      term : Term \cup {0}]
      BY <1>1, <1>3 DEF Idle
    <2> QED
      BY <2>1, <2>2, <1>1, <1>3, <1>9 DEF TypeOK, Files
  <1>11. FilesInv'
    BY <1>3, <1>6, <1>9 DEF FilesInv
  <1>12. LogInv'
    BY <1>1, <1>3, <1>5 DEF WalInv, LogInv
  <1>13. DoingInv'
    BY <1>3, <1>4, <1>9 DEF DoingInv
  <1> QED
    BY <1>10, <1>11, <1>12, <1>13 DEF WalInv

(***************************************************************************)
(* Recovery.  Without a power failure the files are as they were written;  *)
(* what a crash may leave behind is one torn record at the very end.       *)
(***************************************************************************)

\* offset_index_ is what the records of the files say.
LEMMA EntriesFacts ==
    ASSUME NEW files \in Files, NEW map, map \in [DOMAIN map -> Term],
           \A x \in DOMAIN map : x < MaxIndex + 2,
           Backed(map, files), Filed(map, files, MaxIndex + 2)
    PROVE  EntriesOf(files) = map
  <1> DEFINE records == UNION {Range(files[k].records) : k \in DOMAIN files}
             T == {r.index : r \in records}
             Term1(i) == (CHOOSE r \in records : r.index = i).term
  <1>1. DOMAIN files = 1..Len(files)
    BY FileFacts
  <1>2. \A k \in 1..Len(files) : \A r : r \in Range(files[k].records)
           <=> \E a \in 1..Len(files[k].records) : r = files[k].records[a]
    <2> SUFFICES ASSUME NEW k \in 1..Len(files), NEW r
                 PROVE  r \in Range(files[k].records)
                           <=> \E a \in 1..Len(files[k].records) : r = files[k].records[a]
      OBVIOUS
    <2>1. DOMAIN files[k].records = 1..Len(files[k].records)
      BY FileFacts
    <2> QED
      BY <2>1 DEF Range
  <1>3. \A r \in records : r.index \in DOMAIN map /\ map[r.index] = r.term
    <2> SUFFICES ASSUME NEW r \in records PROVE r.index \in DOMAIN map /\ map[r.index] = r.term
      OBVIOUS
    <2>1. PICK k \in 1..Len(files) : r \in Range(files[k].records)
      BY <1>1
    <2>2. PICK a \in 1..Len(files[k].records) : r = files[k].records[a]
      BY <1>2, <2>1
    <2> QED
      BY <2>2 DEF Backed
  <1>4. \A x \in DOMAIN map : \E r \in records : r.index = x
    <2> SUFFICES ASSUME NEW x \in DOMAIN map PROVE \E r \in records : r.index = x
      OBVIOUS
    <2>1. PICK k \in 1..Len(files) : \E a \in 1..Len(files[k].records) : files[k].records[a].index = x
      BY DEF Filed
    <2>2. PICK a \in 1..Len(files[k].records) : files[k].records[a].index = x
      BY <2>1
    <2>3. files[k].records[a] \in Range(files[k].records) /\ k \in DOMAIN files
      BY <1>1, <1>2
    <2> QED
      BY <2>2, <2>3
  <1>5. EntriesOf(files) = [i \in T |-> Term1(i)]
    BY DEF EntriesOf
  <1> HIDE DEF records
  <1>6. T = DOMAIN map
    BY <1>3, <1>4
  <1>7. \A i \in T : Term1(i) = map[i]
    <2> SUFFICES ASSUME NEW i \in T PROVE Term1(i) = map[i]
      OBVIOUS
    <2>1. \E r \in records : r.index = i
      OBVIOUS
    <2> DEFINE c == CHOOSE r \in records : r.index = i
    <2>2. c \in records /\ c.index = i
      BY <2>1
    <2> HIDE DEF c
    <2>3. c.term = map[i]
      BY <2>2, <1>3
    <2> QED
      BY <2>3 DEF c
  <1> HIDE DEF Term1, T
  <1>8. [i \in T |-> Term1(i)] = [i \in T |-> map[i]]
    BY <1>7
  <1>9. map = [i \in DOMAIN map |-> map[i]]
    OBVIOUS
  <1> QED
    BY <1>5, <1>6, <1>8, <1>9

LEMMA ScanFacts ==
    ASSUME NEW f \in Segment, Sound(f)
    PROVE  /\ Scanned(f) \in Segment /\ Scanned(f).start = f.start /\ Scanned(f).torn = FALSE
           /\ Scanned(f).records = f.records /\ Scanned(f).last <= f.last /\ Sound(Scanned(f))
  <1> DEFINE rs == f.records
             last == IF rs = <<>> THEN f.start - 1 ELSE rs[Len(rs)].index
             g == [f EXCEPT !.torn = FALSE, !.synced = Len(rs), !.last = last]
  <1>1. /\ MaxIndex \in Nat /\ f.start \in 1..(MaxIndex + 1) /\ f.last \in 0..MaxIndex
        /\ rs \in Seq(Record)
    BY WalAssumption DEF Segment
  <1>2. Len(rs) \in Nat /\ (rs = <<>> <=> Len(rs) = 0)
    BY <1>1, LenProperties, EmptySeq
  <1>3. f.start <= f.last + 1 /\ (Len(rs) > 0 => rs[Len(rs)].index = f.last)
    BY DEF Sound
  <1>4. /\ last \in 0..MaxIndex /\ last <= f.last /\ f.start <= last + 1
        /\ Len(rs) > 0 => last = f.last
    <2>1. CASE rs = <<>>
      <3>1. last = f.start - 1 /\ Len(rs) = 0
        BY <2>1, <1>2
      <3> HIDE DEF last
      <3> QED
        BY <3>1, <1>1, <1>3
    <2>2. CASE rs # <<>>
      <3>1. last = f.last /\ Len(rs) > 0
        BY <2>2, <1>2, <1>3
      <3> HIDE DEF last
      <3> QED
        BY <3>1, <1>1, <1>3
    <2> QED
      BY <2>1, <2>2
  <1>5. Scanned(f) = g
    BY DEF Scanned
  <1> HIDE DEF last
  <1>6. g \in Segment /\ g.start = f.start /\ g.torn = FALSE /\ g.records = rs /\ g.last = last
    <2>1. g \in Segment
      BY <1>2, <1>4 DEF Segment
    <2> QED
      BY <2>1 DEF Segment
  <1> HIDE DEF g
  <1>7. Sound(g)
    <2>1. CASE Len(rs) = 0
      BY <2>1, <1>4, <1>6 DEF Sound
    <2>2. CASE Len(rs) > 0
      BY <2>2, <1>4, <1>6 DEF Sound
    <2> QED
      BY <2>1, <2>2, <1>2
  <1> QED
    BY <1>4, <1>5, <1>6, <1>7

LEMMA SubSeqAll == ASSUME NEW files \in Files PROVE SubSeq(files, 1, Len(files)) = files
  <1> DEFINE n == Len(files)
             s == SubSeq(files, 1, n)
  <1>1. n \in Nat /\ n \in Int /\ 1 \in Int /\ \A k \in 1..n : files[k] \in Segment
    BY FileFacts
  <1>2. n = Len(files)
    OBVIOUS
  <1> HIDE DEF n
  <1>3. /\ s \in Seq(Segment)
        /\ Len(s) = IF 1 <= n THEN n - 1 + 1 ELSE 0
        /\ \A j \in 1..(n - 1 + 1) : s[j] = files[1 + j - 1]
    BY <1>1, SubSeqProperties
  <1> HIDE DEF s
  <1>4. Len(s) = n /\ \A j \in 1..n : s[j] = files[j]
    BY <1>1, <1>3
  <1>5. s = files
    BY <1>2, <1>3, <1>4, SeqEqual DEF Files
  <1> QED
    BY <1>5 DEF s, n

LEMMA RecoveredFacts ==
    ASSUME NEW files \in Files, files # <<>>,
           \A k \in 1..Len(files) : Sound(files[k]) /\ (files[k].torn => k = Len(files))
    PROVE  LET new == Recovered(files) IN
           /\ new \in Files /\ Len(new) = Len(files)
           /\ \A k \in 1..Len(files) : new[k] = Scanned(files[k])
  <1> DEFINE n == Len(files)
             torn == {k \in DOMAIN files : files[k].torn}
             kept == IF torn = {} THEN files ELSE SubSeq(files, 1, Min(torn))
             new == [k \in DOMAIN kept |-> Scanned(kept[k])]
  <1>1. n \in Nat /\ n > 0 /\ DOMAIN files = 1..n /\ \A k \in 1..n : files[k] \in Segment
    BY FileFacts, EmptySeq DEF Files
  <1>2. kept = files
    <2>1. CASE torn = {}
      BY <2>1
    <2>2. CASE torn # {}
      <3>1. torn \subseteq Nat
        BY <1>1
      <3>2. Min(torn) \in torn
        <4> HIDE DEF torn
        <4> QED
          BY <2>2, <3>1, MinFacts
      <3>3. Min(torn) = n
        BY <3>2, <1>1
      <3>4. SubSeq(files, 1, n) = files
        BY SubSeqAll
      <3> QED
        BY <2>2, <3>3, <3>4
    <2> QED
      BY <2>1, <2>2
  <1>3. Recovered(files) = new
    BY DEF Recovered
  <1> HIDE DEF kept
  <1>4. new = [k \in 1..n |-> Scanned(files[k])]
    BY <1>1, <1>2
  <1>5. \A k \in 1..n : Scanned(files[k]) \in Segment
    BY <1>1, ScanFacts
  <1>6. new \in Seq(Segment) /\ Len(new) = n /\ \A k \in 1..n : new[k] = Scanned(files[k])
    <2> HIDE DEF n
    <2> QED
      BY <1>1, <1>4, <1>5
  <1> QED
    BY <1>3, <1>6 DEF Files

LEMMA LastsFacts ==
    ASSUME NEW files \in Files, files # <<>>
    PROVE  LET last == Max({files[k].last : k \in DOMAIN files}) IN
           /\ last \in Nat /\ \E k \in 1..Len(files) : last = files[k].last
           /\ \A k \in 1..Len(files) : files[k].last <= last
  <1> DEFINE T == {files[k].last : k \in DOMAIN files}
  <1>1. /\ Len(files) \in Nat /\ Len(files) > 0 /\ DOMAIN files = 1..Len(files)
        /\ MaxIndex \in Nat /\ \A k \in 1..Len(files) : files[k].last \in 0..MaxIndex
    BY FileFacts, EmptySeq, WalAssumption DEF Files
  <1>2. T \subseteq 0..MaxIndex /\ T \subseteq Nat /\ T # {}
    BY <1>1
  <1>3. IsFiniteSet(0..MaxIndex)
    BY <1>1, FS_Interval
  <1>4. IsFiniteSet(T)
    <2> HIDE DEF T
    <2> QED
      BY <1>2, <1>3, FS_Subset
  <1>5. Max(T) \in T /\ \A y \in T : Max(T) >= y
    <2> HIDE DEF T
    <2> QED
      BY <1>2, <1>4, MaxFacts
  <1>6. Max(T) \in Nat /\ \E k \in 1..Len(files) : Max(T) = files[k].last
    BY <1>1, <1>2, <1>5
  <1>7. \A k \in 1..Len(files) : files[k].last \in T /\ files[k].last \in Nat
    BY <1>1, <1>2
  <1>8. \A k \in 1..Len(files) : files[k].last <= Max(T)
    <2> HIDE DEF T
    <2> QED
      BY <1>5, <1>6, <1>7
  <1> QED
    BY <1>6, <1>8

\* A crash of the process: no entry is lost, and none comes back.
LEMMA InvRestart ==
    ASSUME ~PowerFails, "suffix" \notin CrashPoints, WalInv, Restart
    PROVE  WalInv' /\ entries' = entries
  <1>1. /\ MaxIndex \in Nat /\ Top \in Nat /\ segments \in Files /\ snapshot_index \in Nat
        /\ last_index \in Nat /\ flushed \in Nat /\ TypeOK
        /\ \A x \in DOMAIN entries : x \in Nat /\ x \in 1..MaxIndex /\ x < MaxIndex + 2
        /\ entries \in [DOMAIN entries -> Term]
    BY StateFacts DEF WalInv, TypeOK
  <1>2. doing.op # "suffix" /\ Limit = MaxIndex + 2
    BY DEF Restart, Limit
  <1>3. /\ segments' = Recovered(segments) /\ entries' = EntriesOf(segments')
        /\ last_index' = Max({segments'[k].last : k \in DOMAIN segments'})
        /\ doing' = Idle /\ UNCHANGED <<flushed, snapshot_index>>
        /\ crashes < MaxCrashes /\ crashes' = crashes + 1
    BY DEF Restart
  <1>4. /\ InFiles(segments, Top, MaxIndex + 2) /\ Backed(entries, segments)
        /\ Filed(entries, segments, MaxIndex + 2)
    BY <1>2 DEF WalInv, FilesInv
  <1>5. /\ segments' \in Files /\ segments' # <<>>
        /\ InFiles(segments', Top, MaxIndex + 2) /\ Backed(entries, segments')
        /\ Filed(entries, segments', MaxIndex + 2)
        /\ \A m \in 1..Len(segments') : ~segments'[m].torn
    <2>1. CASE segments = <<>>
      <3>1. Len(segments) = 0
        BY <2>1, EmptySeq
      <3>2. DOMAIN entries = {}
        <4>1. SUFFICES ASSUME NEW x \in DOMAIN entries PROVE FALSE
          OBVIOUS
        <4>2. \E k \in 1..Len(segments) : TRUE
          BY <1>1, <1>4 DEF Filed
        <4> QED
          BY <4>2, <3>1
      <3>3. segments' = <<Fresh(1)>>
        BY <2>1, <1>3 DEF Recovered
      <3>4. 1 \in 1..(MaxIndex + 1) /\ 1 - 1 <= Top
        BY <1>1
      <3>5. /\ segments' \in Files /\ Len(segments') = 1 /\ segments' # <<>> /\ segments'[1] = Fresh(1)
            /\ InFiles(segments', Top, MaxIndex + 2) /\ Backed(entries, segments')
            /\ Filed(entries, segments', MaxIndex + 2)
        <4> HIDE DEF Top
        <4> QED
          BY <3>2, <3>3, <3>4, <1>1, OneFresh
      <3>6. Fresh(1).torn = FALSE
        BY DEF Fresh
      <3> QED
        BY <3>5, <3>6
    <2>2. CASE segments # <<>>
      <3>1. \A k \in 1..Len(segments) : Sound(segments[k]) /\ (segments[k].torn => k = Len(segments))
        BY <1>4 DEF WalInv, DoingInv, InFiles
      <3>2. /\ segments' \in Files /\ Len(segments') = Len(segments)
            /\ \A k \in 1..Len(segments) : segments'[k] = Scanned(segments[k])
        BY <2>2, <3>1, <1>1, <1>3, RecoveredFacts
      <3>3. \A k \in 1..Len(segments) :
               /\ segments'[k].start = segments[k].start /\ segments'[k].torn = FALSE
               /\ segments'[k].records = segments[k].records
               /\ segments'[k].last <= segments[k].last /\ Sound(segments'[k])
        <4>1. \A k \in 1..Len(segments) : segments[k] \in Segment
          BY <1>1, FileFacts
        <4>2. ASSUME NEW k \in 1..Len(segments)
              PROVE  LET g == Scanned(segments[k]) IN
                     /\ g.start = segments[k].start /\ g.torn = FALSE
                     /\ g.records = segments[k].records /\ g.last <= segments[k].last /\ Sound(g)
          BY <3>1, <4>1, ScanFacts
        <4> QED
          BY <3>2, <4>2
      <3>4. \A k \in 1..Len(segments) :
               segments[k].last \in Nat /\ segments'[k].last \in Nat /\ segments[k].start \in Nat
        BY <3>2, <1>1, FileFacts
      <3>5. InFiles(segments', Top, MaxIndex + 2)
        <4>1. \A k \in 1..Len(segments) : segments[k].last <= Top
          BY <1>4 DEF InFiles
        <4>2. \A k \in 1..Len(segments') : Sound(segments'[k]) /\ segments'[k].last <= Top
          BY <3>2, <3>3, <3>4, <4>1, <1>1
        <4>3. Ordered(segments')
          <5> SUFFICES ASSUME NEW j \in 1..Len(segments), NEW k \in 1..Len(segments), j < k
                       PROVE  segments'[j].last < segments'[k].start
            BY <3>2 DEF Ordered
          <5>1. segments[j].last < segments[k].start
            BY <1>4 DEF InFiles, Ordered
          <5> QED
            BY <5>1, <3>3, <3>4
        <4>4. NoneEmpty(segments', MaxIndex + 2)
          BY <3>2, <3>3, <1>4 DEF InFiles, NoneEmpty
        <4> QED
          BY <4>2, <4>3, <4>4 DEF InFiles
      <3>6. Backed(entries, segments')
        BY <3>2, <3>3, <1>4 DEF Backed
      <3>7. Filed(entries, segments', MaxIndex + 2)
        BY <3>2, <3>3, <1>4 DEF Filed
      <3>8. segments' # <<>>
        BY <2>2, <3>2, <1>1, EmptySeq DEF Files
      <3> QED
        BY <3>2, <3>3, <3>5, <3>6, <3>7, <3>8
    <2> QED
      BY <2>1, <2>2
  <1>6. entries' = entries
    BY <1>1, <1>3, <1>5, EntriesFacts
  <1>7. /\ last_index' \in Nat /\ \E k \in 1..Len(segments') : last_index' = segments'[k].last
        /\ \A k \in 1..Len(segments') : segments'[k].last <= last_index'
    BY <1>3, <1>5, LastsFacts
  <1>8. last_index' <= Top
    BY <1>5, <1>7 DEF InFiles
  <1>9. DOMAIN entries # {} => last_index' = last_index
    <2> SUFFICES ASSUME DOMAIN entries # {} PROVE last_index' = last_index
      OBVIOUS
    <2>1. Top = last_index /\ last_index \in DOMAIN entries
      BY DEF Top, WalInv, LogInv
    <2>2. PICK k \in 1..Len(segments') : \E a \in 1..Len(segments'[k].records) :
              segments'[k].records[a].index = last_index
      BY <2>1, <1>1, <1>5 DEF Filed
    <2>3. last_index <= segments'[k].last /\ segments'[k].last <= last_index'
      BY <2>2, <1>5, <1>7 DEF InFiles, Sound
    <2>4. segments'[k].last \in Nat
      BY <1>5, FileFacts
    <2> QED
      BY <2>1, <2>3, <2>4, <1>1, <1>7, <1>8
  <1>10. doing'.op = "none"
    BY <1>3 DEF Idle
  <1>11. Top' = Top /\ Limit' = MaxIndex + 2
    BY <1>3, <1>6, <1>9, <1>10 DEF Top, Limit
  <1>12. TypeOK'
    <2>1. last_index' \in 0..MaxIndex
      BY <1>1, <1>7, <1>8, StateFacts
    <2>2. doing' \in [op : {"none", "append", "suffix", "before"}, index : 0..(MaxIndex + 1),
                      term : Term \cup {0}]
      BY <1>1, <1>3 DEF Idle
    <2>3. crashes' \in 0..MaxCrashes
      BY <1>1, <1>3, WalAssumption DEF TypeOK
    <2> QED
      BY <2>1, <2>2, <2>3, <1>1, <1>3, <1>5, <1>6 DEF TypeOK, Files
  <1>13. FilesInv'
    BY <1>5, <1>6, <1>11 DEF FilesInv
  <1>14. LogInv'
    <2>1. CASE DOMAIN entries = {}
      <3>1. last_index' <= snapshot_index
        BY <2>1, <1>8 DEF Top
      <3> QED
        BY <2>1, <3>1, <1>3, <1>6 DEF WalInv, LogInv
    <2>2. CASE DOMAIN entries # {}
      BY <2>2, <1>3, <1>6, <1>9 DEF WalInv, LogInv
    <2> QED
      BY <2>1, <2>2
  <1>15. DoingInv'
    BY <1>3, <1>5, <1>10 DEF DoingInv
  <1> QED
    BY <1>6, <1>12, <1>13, <1>14, <1>15 DEF WalInv

(***************************************************************************)
(* Theorems.  Inside TruncateSuffix a crash may bring back what was to be  *)
(* cut, and a power failure may take a closed segment that was never       *)
(* flushed: both are left out by the hypotheses.                           *)
(***************************************************************************)

LEMMA WalStep ==
    ASSUME ~PowerFails, "suffix" \notin CrashPoints, WalInv, [Next]_vars
    PROVE  WalInv'
  <1>1. CASE UNCHANGED vars
    <2>1. UNCHANGED <<segments, entries, last_index, doing, flushed, snapshot_index, crashes>>
      BY <1>1 DEF vars, callerVars
    <2>2. Top' = Top /\ Limit' = Limit
      BY <2>1 DEF Top, Limit
    <2>3. TypeOK' /\ LogInv' /\ DoingInv'
      BY <2>1, <2>2 DEF WalInv, TypeOK, LogInv, DoingInv
    <2>4. FilesInv'
      BY <2>1, <2>2 DEF WalInv, FilesInv
    <2> QED
      BY <2>3, <2>4 DEF WalInv
  <1>2. CASE Truncation
    BY <1>2, InvSuffixBegin, InvSuffixStep, InvSuffixEnd, InvBeforeBegin, InvBeforeStep,
       InvBeforeEnd DEF Truncation
  <1>3. CASE Restart
    BY <1>3, InvRestart
  <1>4. CASE AppendBegin \/ AppendEnd \/ Flush
    BY <1>4, InvAppendBegin, InvAppendEnd, InvFlush
  <1> QED
    BY <1>1, <1>2, <1>3, <1>4 DEF Next

\* The files, the offset index and last_index_ agree in every state of the WAL.
THEOREM WalInvariant ==
    ASSUME ~PowerFails, "suffix" \notin CrashPoints
    PROVE  Spec => []WalInv
  <1>1. Init => WalInv
    BY WalInit
  <1>2. WalInv /\ [Next]_vars => WalInv'
    BY WalStep
  <1> QED
    BY <1>1, <1>2, PTL DEF Spec

\* Between operations the log that ReadFrom hands out has no holes.
THEOREM NoHoles ==
    ASSUME ~PowerFails, "suffix" \notin CrashPoints
    PROVE  Spec => []Contiguous
  <1>1. WalInv => Contiguous
    <2> SUFFICES ASSUME WalInv, DOMAIN entries # {}
                 PROVE  DOMAIN entries = Min(DOMAIN entries)..Max(DOMAIN entries)
      BY DEF Contiguous
    <2> DEFINE T == DOMAIN entries
    <2>1. MaxIndex \in Nat /\ T \subseteq Nat /\ T \subseteq 1..MaxIndex /\ last_index \in Nat
      BY StateFacts DEF WalInv
    <2>2. Min(T) \in T /\ \A y \in T : Min(T) <= y
      <3> HIDE DEF T
      <3> QED
        BY <2>1, MinFacts DEF T
    <2>3. Max(T) \in T /\ \A y \in T : y <= Max(T)
      BY <2>1, LastFacts DEF LastOf
    <2>4. last_index \in T /\ \A x \in T : x <= last_index
      BY DEF WalInv, LogInv
    <2>5. \A x \in T : \A z \in x..last_index : z \in T
      BY DEF WalInv, LogInv
    <2> HIDE DEF T
    <2>6. Max(T) = last_index
      <3>1. Max(T) \in Nat /\ Max(T) <= last_index /\ last_index <= Max(T)
        BY <2>1, <2>3, <2>4
      <3> QED
        BY <3>1, <2>1
    <2>7. T = Min(T)..last_index
      <3>1. Min(T) \in Nat
        BY <2>1, <2>2
      <3>2. ASSUME NEW z \in T PROVE z \in Min(T)..last_index
        <4>1. z \in Nat /\ Min(T) <= z /\ z <= last_index
          BY <2>1, <2>2, <2>4
        <4> QED
          BY <4>1, <3>1, <2>1
      <3>3. ASSUME NEW z \in Min(T)..last_index PROVE z \in T
        BY <2>2, <2>5
      <3> QED
        BY <3>2, <3>3
    <2> QED
      BY <2>6, <2>7 DEF T
  <1> QED
    BY <1>1, WalInvariant, PTL

\* A crash of the process takes nothing that Flush covered.
THEOREM FlushedIsKept ==
    ASSUME ~PowerFails, "suffix" \notin CrashPoints
    PROVE  Spec => FlushedSurvives
  <1>1. ASSUME WalInv, [Next]_vars, crashes' # crashes,
               NEW i \in DOMAIN entries, i <= flushed
        PROVE  i \in DOMAIN entries' /\ entries'[i] = entries[i]
    <2>1. CASE Restart
      BY <2>1, <1>1, InvRestart
    <2>2. CASE ~Restart
      <3>1. UNCHANGED crashes
        BY <2>2, <1>1 DEF Next, vars, callerVars, AppendBegin, AppendEnd, Flush, Truncation,
           SuffixBegin, SuffixStep, SuffixEnd, BeforeBegin, BeforeStep, BeforeEnd
      <3> QED
        BY <3>1, <1>1
    <2> QED
      BY <2>1, <2>2
  <1>2. WalInv /\ [Next]_vars
        => [crashes' # crashes =>
              \A i \in DOMAIN entries : i <= flushed => i \in DOMAIN entries'
                                                        /\ entries'[i] = entries[i]]_vars
    BY <1>1
  <1> QED
    BY <1>2, WalInvariant, PTL DEF Spec, FlushedSurvives

LEMMA LogLast == ASSUME WalInv, DOMAIN entries # {} PROVE Log!Last = last_index
  <1>1. \A x \in DOMAIN entries : x \in Nat
    BY StateFacts DEF WalInv
  <1>2. last_index \in DOMAIN entries /\ \A x \in DOMAIN entries : x <= last_index
    BY DEF WalInv, LogInv
  <1> DEFINE c == CHOOSE i \in DOMAIN entries : \A j \in DOMAIN entries : j <= i
  <1>3. c \in DOMAIN entries /\ \A j \in DOMAIN entries : j <= c
    BY <1>2
  <1>4. Log!Last = c
    BY DEF Log!Last
  <1> HIDE DEF c
  <1>5. c <= last_index /\ last_index <= c /\ c \in Nat /\ last_index \in Nat
    BY <1>1, <1>2, <1>3
  <1> QED
    BY <1>4, <1>5

LEMMA MapAppend == WalInv /\ AppendEnd => Log!AppendEntry
  <1> SUFFICES ASSUME WalInv, AppendEnd PROVE Log!AppendEntry
    OBVIOUS
  <1> DEFINE i == doing.index
  <1>1. /\ \A x \in DOMAIN entries : x \in Nat
        /\ Top \in Nat /\ entries \in [DOMAIN entries -> Term]
    BY StateFacts DEF WalInv, TypeOK
  <1>2. doing.term \in Term /\ i = Top + 1
    BY DEF AppendEnd, WalInv, DoingInv
  <1>3. i \notin DOMAIN entries
    <2>1. SUFFICES ASSUME i \in DOMAIN entries PROVE FALSE
      OBVIOUS
    <2>2. i <= last_index /\ Top = last_index
      BY <2>1 DEF WalInv, LogInv, Top
    <2> QED
      BY <2>2, <1>1, <1>2
  <1>4. entries' = [j \in DOMAIN entries \cup {i} |-> IF j = i THEN doing.term ELSE entries[j]]
    BY DEF AppendEnd
  <1>5. DOMAIN entries = {} \/ i = Log!Last + 1
    BY <1>2, LogLast DEF Top
  <1>6. DOMAIN entries' = DOMAIN entries \cup {i} /\ entries'[i] \in Term
    BY <1>2, <1>4
  <1>7. entries = Restrict(entries', DOMAIN entries)
    BY <1>1, <1>3, <1>4 DEF Restrict
  <1>8. UNCHANGED <<flushed, snapshot_index>>
    BY DEF AppendEnd, callerVars
  <1> HIDE DEF i
  <1>9. i \in DOMAIN entries' \ DOMAIN entries
    BY <1>3, <1>6
  <1> QED
    BY <1>5, <1>6, <1>7, <1>8, <1>9 DEF Log!AppendEntry, Restrict, Log!Restrict

LEMMA MapFlush == WalInv /\ Flush => Log!Flush \/ UNCHANGED Log!vars
  <1> SUFFICES ASSUME WalInv, Flush PROVE Log!Flush \/ UNCHANGED Log!vars
    OBVIOUS
  <1>1. flushed \in Nat /\ last_index \in Nat /\ DOMAIN entries # {}
    BY StateFacts DEF WalInv, Flush
  <1>2. flushed <= last_index /\ Log!Last = last_index
    BY <1>1, LogLast DEF WalInv, LogInv
  <1>3. flushed' = last_index /\ UNCHANGED <<entries, snapshot_index>>
    BY DEF Flush
  <1>4. CASE flushed = last_index
    BY <1>3, <1>4 DEF Log!vars
  <1>5. CASE flushed # last_index
    <2>1. flushed' > flushed
      BY <1>1, <1>2, <1>3, <1>5
    <2> QED
      BY <2>1, <1>2, <1>3 DEF Log!Flush
  <1> QED
    BY <1>4, <1>5

LEMMA MapSuffixBegin == WalInv /\ SuffixBegin => Log!GiveUpSuffix \/ UNCHANGED Log!vars
  <1> SUFFICES ASSUME WalInv, SuffixBegin PROVE Log!GiveUpSuffix \/ UNCHANGED Log!vars
    OBVIOUS
  <1>1. flushed \in Nat /\ last_index \in Nat /\ snapshot_index \in Nat
    BY StateFacts DEF WalInv
  <1>2. PICK i \in (snapshot_index + 1)..last_index :
            flushed' = IF flushed < i THEN flushed ELSE i - 1
    BY DEF SuffixBegin
  <1>3. UNCHANGED <<entries, snapshot_index>>
    BY DEF SuffixBegin
  <1>4. CASE flushed < i
    BY <1>2, <1>3, <1>4 DEF Log!vars
  <1>5. CASE ~(flushed < i)
    <2>1. flushed' \in Nat /\ flushed' < flushed
      BY <1>1, <1>2, <1>5
    <2> QED
      BY <2>1, <1>3 DEF Log!GiveUpSuffix
  <1> QED
    BY <1>4, <1>5

LEMMA MapSuffixEnd == WalInv /\ SuffixEnd => Log!LoseSuffix
  <1> SUFFICES ASSUME WalInv, SuffixEnd PROVE Log!LoseSuffix
    OBVIOUS
  <1> DEFINE i == doing.index
  <1>1. /\ flushed \in Nat /\ last_index \in Nat /\ snapshot_index \in Nat
        /\ \A x \in DOMAIN entries : x \in Nat
    BY StateFacts DEF WalInv
  <1>2. DOMAIN entries # {} /\ flushed < i /\ i \in (snapshot_index + 1)..last_index
    BY DEF SuffixEnd, WalInv, DoingInv
  <1>3. entries' = Restrict(entries, {j \in DOMAIN entries : j < i})
    BY DEF SuffixEnd
  <1>4. i \in Nat /\ i - 1 \in 0..last_index /\ i - 1 >= flushed
    BY <1>1, <1>2
  <1>5. Log!Last = last_index
    BY <1>2, LogLast
  <1>6. {j \in DOMAIN entries : j < i} = Log!UpTo(i - 1)
    BY <1>1, <1>4 DEF Log!UpTo
  <1>7. UNCHANGED <<flushed, snapshot_index>>
    BY DEF SuffixEnd, callerVars
  <1>8. i - 1 \in 0..Log!Last /\ entries' = Restrict(entries, Log!UpTo(i - 1))
    BY <1>3, <1>4, <1>5, <1>6
  <1> QED
    BY <1>4, <1>7, <1>8 DEF Log!LoseSuffix, Restrict, Log!Restrict

LEMMA MapBeforeBegin == WalInv /\ BeforeBegin => Log!Snapshot \/ UNCHANGED Log!vars
  <1> SUFFICES ASSUME WalInv, BeforeBegin PROVE Log!Snapshot \/ UNCHANGED Log!vars
    OBVIOUS
  <1>1. snapshot_index \in Nat /\ MaxIndex \in Nat
    BY StateFacts DEF WalInv
  <1>2. PICK i \in (snapshot_index + 1)..(MaxIndex + 1) : snapshot_index' = i - 1
    BY DEF BeforeBegin
  <1>3. UNCHANGED <<entries, flushed>>
    BY DEF BeforeBegin
  <1>4. snapshot_index' \in Nat /\ (snapshot_index' > snapshot_index \/ snapshot_index' = snapshot_index)
    BY <1>1, <1>2
  <1> QED
    BY <1>3, <1>4 DEF Log!Snapshot, Log!vars

LEMMA MapBeforeStep == WalInv /\ BeforeStep => Log!DropPrefix
  <1> SUFFICES ASSUME WalInv, BeforeStep PROVE Log!DropPrefix
    OBVIOUS
  <1> DEFINE k == Min(Obsolete(doing.index))
             p == segments[k].last + 1
  <1>1. snapshot_index \in Nat /\ segments \in Files
    BY StateFacts DEF WalInv
  <1>2. /\ k \in 1..Len(segments) /\ segments[k].last <= snapshot_index
        /\ entries' = Restrict(entries, {x \in DOMAIN entries : x >= p})
    BY BeforeFacts
  <1> HIDE DEF k
  <1>3. segments[k].last \in Nat
    BY <1>1, <1>2, FileFacts
  <1>4. p \in 1..(snapshot_index + 1)
    BY <1>1, <1>2, <1>3
  <1> HIDE DEF p
  <1>5. entries' = Restrict(entries, Log!From(p))
    BY <1>2 DEF Log!From
  <1>6. UNCHANGED <<flushed, snapshot_index>>
    BY DEF BeforeStep, callerVars
  <1> QED
    BY <1>4, <1>5, <1>6 DEF Log!DropPrefix, Restrict, Log!Restrict

\* Refinement: whatever the WAL does to its files, its caller sees a gapless log that is
\* appended to at its end, that loses from its end only what is not flushed and from its
\* beginning only what a snapshot covers, and that a crash of the process leaves alone.
THEOREM Implements ==
    ASSUME ~PowerFails, "suffix" \notin CrashPoints
    PROVE  Spec => ImplementsDurableLog
  <1>1. Init => Log!Init
    BY DEF Init, Log!Init
  <1>2. WalInv /\ [Next]_vars => [Log!Next]_(Log!vars)
    <2> SUFFICES ASSUME WalInv, [Next]_vars PROVE Log!Next \/ UNCHANGED Log!vars
      OBVIOUS
    <2>1. CASE UNCHANGED vars \/ AppendBegin \/ SuffixStep \/ BeforeEnd
      BY <2>1 DEF vars, callerVars, AppendBegin, SuffixStep, BeforeEnd, Log!vars
    <2>2. CASE Restart
      BY <2>2, InvRestart DEF Restart, Log!vars
    <2>3. CASE AppendEnd \/ Flush
      BY <2>3, MapAppend, MapFlush DEF Log!Next
    <2>4. CASE SuffixBegin \/ SuffixEnd
      BY <2>4, MapSuffixBegin, MapSuffixEnd DEF Log!Next
    <2>5. CASE BeforeBegin \/ BeforeStep
      BY <2>5, MapBeforeBegin, MapBeforeStep DEF Log!Next
    <2> QED
      BY <2>1, <2>2, <2>3, <2>4, <2>5 DEF Next, Truncation
  <1> QED
    BY <1>1, <1>2, WalInvariant, PTL DEF Spec, ImplementsDurableLog, Log!Spec
=============================================================================
