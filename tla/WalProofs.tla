------------------------------ MODULE WalProofs ------------------------------
(***************************************************************************)
(* The write-ahead log, for every segment size, entry size and bound:      *)
(* segment files never collide (SegmentInv), the meta of a segment counts  *)
(* its entries (MetaInv), the batches of a segment are as long as they say *)
(* (BatchesFit), and the segments, replayed in their order, hold the       *)
(* acknowledged log and a prefix of the Write under way (RestoreInv).      *)
(***************************************************************************)
EXTENDS Wal, FoldLemmas, FiniteSetTheorems

WriterFields == {"open", "name", "size", "numEntries", "pendingSync"}

SegmentNum == Len(files) + (IF current.open THEN 1 ELSE 0)

\* files_ is a vector.
FilesIsVector == Len(files) \in Nat /\ files = [i \in 1..Len(files) |-> files[i]]

\* current_ is a writer or null, and a writer has its file.
WriterHasFile ==
  /\ DOMAIN current = WriterFields
  /\ current.open \in BOOLEAN
  /\ current.open => current.name \in DOMAIN disk /\ current.name[1] = Len(files) + 1

\* No two files share an id.
IdsUnique == \A m, n \in DOMAIN disk : m[1] = n[1] => m = n

\* A running manager knows how many files there are.
RunningCountsFiles == Up => WalIds = 1..SegmentNum

\* While the process is down nothing is open, and the ids on disk are still
\* without a gap, so that counting the files is enough to go on.
DownKeepsIds ==
  ~Up => /\ ~current.open
         /\ WalIds = 1..Cardinality(WalIds)
         /\ Cardinality(WalIds) \in Nat

\* The inductive invariant behind SegmentIdsContiguous.
SegmentInv ==
  /\ FilesIsVector
  /\ WriterHasFile
  /\ IdsUnique
  /\ RunningCountsFiles
  /\ DownKeepsIds

\* An interval from 1 has as many elements as its upper end.
LEMMA IntervalCardinality ==
  ASSUME NEW m \in Nat
  PROVE  IsFiniteSet(1..m) /\ Cardinality(1..m) = m
<1>1. IsFiniteSet(1..m) /\ Cardinality(1..m) = IF 1 > m THEN 0 ELSE m - 1 + 1
  <2>1. 1 \in Int /\ m \in Int
    OBVIOUS
  <2> QED BY <2>1, FS_Interval, Zenon
<1> DEFINE c == Cardinality(1..m)
<1>2. c = IF 1 > m THEN 0 ELSE m - 1 + 1
  BY <1>1
<1> HIDE DEF c
<1>3. c = m
  BY <1>2
<1> QED BY <1>1, <1>3 DEF c

\* Pushing a segment's metadata makes files_ one longer.
LEMMA PushFile ==
  ASSUME FilesIsVector, NEW x
  PROVE  LET g == Append(files, x) IN
           /\ Len(g) = Len(files) + 1
           /\ g = [i \in 1..Len(g) |-> g[i]]
<1> DEFINE S == {files[i] : i \in 1..Len(files)} \cup {x}
<1>1. files \in Seq(S)
  BY DEF FilesIsVector
<1>2. x \in S
  OBVIOUS
<1> HIDE DEF S
<1>3. Append(files, x) \in Seq(S) /\ Len(Append(files, x)) = Len(files) + 1
  BY <1>1, <1>2
<1>4. ASSUME NEW g \in Seq(S) PROVE g = [i \in 1..Len(g) |-> g[i]]
  BY <1>4
<1> QED
  BY <1>3, <1>4, Zenon

\* A step that leaves the files' names, files_ and the writer's identity as they
\* were keeps the invariant.
LEMMA SameNames ==
  ASSUME SegmentInv,
         DOMAIN disk' = DOMAIN disk, files' = files, Up, Up',
         DOMAIN current' = WriterFields,
         current'.open = current.open, current'.name = current.name
  PROVE  SegmentInv'
  BY DEF SegmentInv, FilesIsVector, WriterHasFile, IdsUnique, RunningCountsFiles,
         DownKeepsIds, SegmentNum, WalIds

\* Finishing the open segment (a roll of doWrite, or Close): it is counted in
\* files_ instead of as the open one.
LEMMA FinishSegment ==
  ASSUME SegmentInv, Up, Up', current.open, DOMAIN disk' = DOMAIN disk,
         NEW x, files' = Append(files, x), current' = NoWriter
  PROVE  SegmentInv'
<1>1. FilesIsVector' /\ Len(files') = Len(files) + 1
  BY PushFile DEF SegmentInv, FilesIsVector
<1>2. WriterHasFile' /\ ~current'.open
  BY DEF WriterHasFile, NoWriter, WriterFields
<1>3. WalIds' = WalIds
  BY DEF WalIds
<1>4. SegmentNum' = SegmentNum
  BY <1>1, <1>2 DEF SegmentNum, SegmentInv, FilesIsVector
<1> QED
  BY <1>1, <1>2, <1>3, <1>4 DEF SegmentInv, IdsUnique, RunningCountsFiles, DownKeepsIds

\* The process stops: the files keep their names.
LEMMA StopKeepsNames ==
  ASSUME SegmentInv, ~Up', DOMAIN disk' = DOMAIN disk, files' = << >>, current' = NoWriter
  PROVE  SegmentInv'
<1>1. FilesIsVector'
  BY DEF FilesIsVector
<1>2. WriterHasFile' /\ ~current'.open
  BY DEF WriterHasFile, NoWriter, WriterFields
<1>3. WalIds' = WalIds
  BY DEF WalIds
<1>4. WalIds = 1..Cardinality(WalIds) /\ Cardinality(WalIds) \in Nat
  <2>1. CASE Up
    <3>1. SegmentNum \in Nat /\ WalIds = 1..SegmentNum
      BY <2>1 DEF SegmentInv, FilesIsVector, RunningCountsFiles, SegmentNum
    <3> QED
      BY <3>1, IntervalCardinality
  <2>2. CASE ~Up
    BY <2>2 DEF SegmentInv, DownKeepsIds
  <2> QED
    BY <2>1, <2>2
<1> QED
  BY <1>1, <1>2, <1>3, <1>4 DEF SegmentInv, IdsUnique, RunningCountsFiles, DownKeepsIds

\* The initial state: no file, no writer.
LEMMA InitSegmentInv == Init => SegmentInv
<1> SUFFICES ASSUME Init PROVE SegmentInv
  OBVIOUS
<1>1. FilesIsVector /\ Len(files) = 0
  BY DEF Init, FilesIsVector
<1>2. WriterHasFile /\ ~current.open
  BY DEF Init, WriterHasFile, NoWriter, WriterFields
<1>3. DOMAIN disk = {} /\ WalIds = {}
  BY DEF Init, WalIds
<1>4. SegmentNum = 0 /\ Up
  BY <1>1, <1>2 DEF SegmentNum, Init, Up
<1> QED
  BY <1>1, <1>2, <1>3, <1>4 DEF SegmentInv, IdsUnique, RunningCountsFiles, DownKeepsIds

\* Every step keeps the invariant.
LEMMA NextSegmentInv == SegmentInv /\ [Next]_vars => SegmentInv'
<1> SUFFICES ASSUME SegmentInv, [Next]_vars PROVE SegmentInv'
  OBVIOUS
<1>1. ASSUME NEW es, NEW hs, Write(es, hs) PROVE SegmentInv'
  <2>1. Up /\ Up' /\ DOMAIN disk' = DOMAIN disk /\ files' = files /\ current' = current
    BY <1>1 DEF Write, Up
  <2> QED
    BY <2>1, SameNames DEF SegmentInv, WriterHasFile
<1>2. CASE NewSegment
  <2> DEFINE name == <<NewSegId, lastIndex + 1>>
  <2>1. Up /\ Up' /\ ~current.open /\ files' = files
    BY <1>2 DEF NewSegment, Up
  <2>2. DOMAIN disk' = DOMAIN disk \cup {name}
    BY <1>2 DEF NewSegment
  <2>3. current'.open /\ current'.name = name /\ DOMAIN current' = WriterFields
    BY <1>2 DEF NewSegment, NoWriter, WriterFields
  <2>4. name[1] = Len(files) + 1
    BY DEF NewSegId
  <2> HIDE DEF name
  <2>5. WalIds = 1..Len(files) /\ Len(files) \in Nat
    BY <2>1 DEF SegmentInv, RunningCountsFiles, SegmentNum, FilesIsVector
  <2>6. \A n \in DOMAIN disk : n[1] # name[1]
    <3>1. \A n \in DOMAIN disk : n[1] \in WalIds
      BY DEF WalIds
    <3>2. name[1] \notin WalIds
      BY <2>4, <2>5
    <3> QED
      BY <3>1, <3>2
  <2>7. IdsUnique'
    BY <2>2, <2>6 DEF SegmentInv, IdsUnique
  <2>8. WalIds' = WalIds \cup {name[1]}
    BY <2>2 DEF WalIds
  <2>9. WalIds' = 1..Len(files) + 1
    BY <2>8, <2>5, <2>4
  <2>10. SegmentNum' = Len(files) + 1
    BY <2>1, <2>3 DEF SegmentNum
  <2>11. WriterHasFile'
    BY <2>1, <2>2, <2>3, <2>4 DEF WriterHasFile
  <2> QED
    BY <2>1, <2>7, <2>9, <2>10, <2>11
       DEF SegmentInv, FilesIsVector, RunningCountsFiles, DownKeepsIds
<1>3. CASE AppendBatch
  <2>1. Up /\ Up' /\ current.open /\ DOMAIN disk' = DOMAIN disk
    BY <1>3 DEF AppendBatch, Up
  <2>2. \/ files' = files /\ \E sz, cnt : current' = [current EXCEPT !.size = sz, !.numEntries = cnt]
        \/ current' = NoWriter /\ \E x : files' = Append(files, x)
    BY <1>3, Zenon DEF AppendBatch, FinishedFiles
  <2>3. CASE files' = files /\ \E sz, cnt : current' = [current EXCEPT !.size = sz, !.numEntries = cnt]
    <3>1. /\ DOMAIN current' = WriterFields
          /\ current'.open = current.open
          /\ current'.name = current.name
      BY <2>3 DEF SegmentInv, WriterHasFile, WriterFields
    <3> QED
      BY <2>1, <2>3, <3>1, SameNames
  <2>4. CASE current' = NoWriter /\ \E x : files' = Append(files, x)
    BY <2>1, <2>4, FinishSegment
  <2> QED
    BY <2>2, <2>3, <2>4, Zenon
<1>4. CASE Sync
  <2>1. Up /\ Up' /\ DOMAIN disk' = DOMAIN disk /\ files' = files
    BY <1>4 DEF Sync, Up
  <2>2. /\ DOMAIN current' = WriterFields
        /\ current'.open = current.open
        /\ current'.name = current.name
    BY <1>4, Zenon DEF Sync, SegmentInv, WriterHasFile, WriterFields
  <2> QED
    BY <2>1, <2>2, SameNames
<1>5. CASE Close
  <2>1. /\ Up /\ Up' /\ current.open /\ DOMAIN disk' = DOMAIN disk
        /\ current' = NoWriter /\ \E x : files' = Append(files, x)
    BY <1>5 DEF Close, Up, FinishedFiles
  <2> QED
    BY <2>1, FinishSegment
<1>6. CASE Crash
  <2>1. ~Up' /\ DOMAIN disk' = DOMAIN disk /\ files' = << >> /\ current' = NoWriter
    BY <1>6 DEF Crash, Up
  <2> QED
    BY <2>1, StopKeepsNames
<1>7. CASE PowerLoss
  <2>1. ~Up' /\ DOMAIN disk' = DOMAIN disk /\ files' = << >> /\ current' = NoWriter
    BY <1>7, Zenon DEF PowerLoss, Up
  <2> QED
    BY <2>1, StopKeepsNames
<1>8. CASE Recover
  <2>1. ~Up /\ ~current.open /\ disk' = disk /\ current' = current
    BY <1>8, Zenon DEF Recover, Up, SegmentInv, DownKeepsIds
  <2>2. WalIds' = WalIds /\ WalIds = 1..Cardinality(WalIds) /\ Cardinality(WalIds) \in Nat
    BY <2>1 DEF WalIds, SegmentInv, DownKeepsIds
  <2>3. WriterHasFile' /\ IdsUnique'
    BY <2>1 DEF SegmentInv, WriterHasFile, IdsUnique
  <2>4. \/ ~Up' /\ files' = files
        \/ Up' /\ \E f : files' = [i \in DOMAIN Wals |-> f[i]]
    <3>1. CASE status' = "corrupt"
      BY <1>8, <3>1, Zenon DEF Recover, Up
    <3>2. CASE status' = "idle"
      BY <1>8, <3>2, Zenon DEF Recover, Up
    <3> QED
      BY <1>8, <3>1, <3>2, Zenon DEF Recover
  <2>5. CASE ~Up' /\ files' = files
    BY <2>1, <2>2, <2>3, <2>5
       DEF SegmentInv, FilesIsVector, RunningCountsFiles, DownKeepsIds
  <2>6. CASE Up' /\ \E f : files' = [i \in DOMAIN Wals |-> f[i]]
    <3>1. DOMAIN files' = 1..Cardinality(WalIds)
      BY <2>6 DEF Wals
    <3>2. FilesIsVector' /\ Len(files') = Cardinality(WalIds)
      BY <3>1, <2>2, <2>6 DEF FilesIsVector, Wals
    <3>3. SegmentNum' = Cardinality(WalIds)
      BY <3>2, <2>1, <2>2 DEF SegmentNum
    <3> QED
      BY <2>2, <2>3, <2>6, <3>2, <3>3 DEF SegmentInv, RunningCountsFiles, DownKeepsIds
  <2> QED
    BY <2>4, <2>5, <2>6
<1>9. CASE UNCHANGED vars
  BY <1>9, Zenon DEF vars, SegmentInv, FilesIsVector, WriterHasFile, IdsUnique,
              RunningCountsFiles, DownKeepsIds, SegmentNum, WalIds, Up
<1> QED
  BY <1>1, <1>2, <1>3, <1>4, <1>5, <1>6, <1>7, <1>8, <1>9 DEF Next

\* For every segment size, every sequence of writes, closes, crashes, power
\* failures and recoveries: the ids of the segment files are 1..SegmentNum()
\* and the id LogWriter::New takes, files_.size() + 1, belongs to no file.
THEOREM SegmentNamesNeverCollide == Spec => []SegmentIdsContiguous
<1>1. SegmentInv => SegmentIdsContiguous
  BY DEF SegmentInv, SegmentIdsContiguous, RunningCountsFiles, SegmentNum, IdsUnique,
         WriterHasFile
<1>2. QED
  BY InitSegmentInv, NextSegmentInv, <1>1, PTL DEF Spec

-----------------------------------------------------------------------------
(* The entries on disk *)

\* The segment with an id, of the files d.
FileOf(d, id) == d[CHOOSE n \in DOMAIN d : n[1] = id]

\* The entries of the segments 1..N, in the order in which recovery reads them.
EntriesIn(d, N) == FlattenSeq([i \in 1..N |-> SegmentEntries(FileOf(d, i))])

DiskEntries == EntriesIn(disk, Cardinality(WalIds))

-----------------------------------------------------------------------------
(* The folds of the model as folds of functions *)

\* A record takes a number of bytes.
LEMMA RecordSizeType ==
  ASSUME NEW n \in Nat
  PROVE  RecordSize(n) \in Nat
<1> DEFINE S == {k \in 1..4 : n >= 128^k}
<1>1. IsFiniteSet(1..4)
  BY FS_Interval, 1 \in Int, 4 \in Int, Zenon
<1>2. Cardinality(S) \in Nat
  BY <1>1, FS_Subset, FS_CardinalityType
<1>3. VarintLength(n) \in Nat
  BY <1>2 DEF VarintLength
<1> QED BY <1>3 DEF RecordSize, kRecordHeaderSize

\* Adding up the records of entries: the function, and the sum as FoldLeft goes
\* through it.
AddRecord == [p \in Nat \X Entries |-> p[1] + RecordSize(p[2].size)]

IsSum(g, base, es) ==
  g = [i \in 0..Len(es) |-> IF i = 0 THEN base ELSE g[i - 1] + RecordSize(es[i].size)]

Sum(base, es) == (CHOOSE g : IsSum(g, base, es))[Len(es)]

\* The sizes of entries add up to a size,
LEMMA SumFoldable ==
  ASSUME NEW base \in Nat, NEW es \in Seq(Entries)
  PROVE  Foldable(AddRecord, Nat, Entries, base, es)
<1>1. \A e \in Entries : RecordSize(e.size) \in Nat
  BY SizeAssumption, RecordSizeType, Zenon DEF Entries
<1> QED BY <1>1 DEF Foldable, AddRecord

\* as a fold over a function.
LEMMA SumIsFold ==
  ASSUME NEW base \in Nat, NEW es \in Seq(Entries)
  PROVE  Sum(base, es) = FoldBy(AddRecord, base, es)
<1> DEFINE f == AddRecord
<1>0. Foldable(f, Nat, Entries, base, es)
  BY SumFoldable
<1>f. \A v \in Nat, e \in Entries : f[<<v, e>>] = v + RecordSize(e.size)
  BY DEF AddRecord
<1>e. \A k \in 1..Len(es) : es[k] \in Entries
  OBVIOUS
<1> HIDE DEF f
<1>1. PICK g \in [0..Len(es) -> Nat] : IsChain(g, f, base, es, Len(es))
  BY <1>0, StepsExist, Zenon
<1>2. IsSum(g, base, es)
  <2>1. ASSUME NEW i \in 0..Len(es), i # 0 PROVE g[i] = g[i - 1] + RecordSize(es[i].size)
    <3>1. i \in 1..Len(es) /\ i - 1 \in 0..Len(es)
      BY <2>1
    <3>2. g[i] = f[<<g[i - 1], es[i]>>]
      BY <1>1, <3>1 DEF IsChain
    <3>3. g[i - 1] \in Nat /\ es[i] \in Entries
      BY <1>e, <3>1
    <3> QED BY <1>f, <3>2, <3>3
  <2> QED BY <1>1, <2>1 DEF IsSum, IsChain
<1> DEFINE it == CHOOSE h : IsSum(h, base, es)
<1>3. IsSum(it, base, es)
  BY <1>2, Zenon
<1>4. Sum(base, es) = it[Len(es)]
  BY Zenon DEF Sum
<1> HIDE DEF it
<1>5. IsRun(it, Nat, f, base, es)
  <2>1. ASSUME NEW k \in 1..Len(es), it[k - 1] \in Nat PROVE it[k] = f[<<it[k - 1], es[k]>>]
    <3>1. k \in 0..Len(es) /\ k # 0
      OBVIOUS
    <3>2. it[k] = it[k - 1] + RecordSize(es[k].size)
      BY <1>3, <3>1, Zenon DEF IsSum
    <3> QED BY <1>e, <1>f, <2>1, <3>2
  <2>2. it[0] = base
    BY <1>3 DEF IsSum
  <2> QED BY <2>1, <2>2 DEF IsRun
<1>6. FoldBy(f, base, es) = it[Len(es)]
  BY <1>0, <1>5, StepsAreFold
<1> QED BY <1>4, <1>6 DEF f

\* The sum from a base on is the base and the sum from zero.
LEMMA SumShift ==
  ASSUME NEW base \in Nat, NEW es \in Seq(Entries)
  PROVE  Sum(0, es) \in Nat /\ Sum(base, es) = base + Sum(0, es)
<1> DEFINE w == [e \in Entries |-> RecordSize(e.size)]
<1>1. w \in [Entries -> Nat]
  BY SizeAssumption, RecordSizeType, Zenon DEF Entries
<1>2. AddRecord = Adds(w, Entries)
  BY DEF AddRecord, Adds
<1> HIDE DEF w
<1> QED BY <1>1, <1>2, AddsShift, SumIsFold

\* The size of a batch is its header, its hard state and its records.
LEMMA TotalSizeIs ==
  ASSUME NEW es \in Seq(Entries), NEW hs
  PROVE  /\ TotalSize(es, hs) = kLogBatchHeaderSize + HardStateBytes(hs) + Sum(0, es)
         /\ TotalSize(es, hs) - kLogBatchHeaderSize \in Nat
         /\ TotalSize(es, hs) \in Nat
<1>1. TotalSize(es, hs) = Sum(kLogBatchHeaderSize + HardStateBytes(hs), es)
  BY Zenon DEF TotalSize, Sum, IsSum, FoldLeft
<1>2. HardStateBytes(hs) \in Nat /\ kLogBatchHeaderSize \in Nat
  BY SizeAssumption DEF HardStateBytes, kRecordHeaderSize, kLogBatchHeaderSize
<1>3. kLogBatchHeaderSize + HardStateBytes(hs) \in Nat
  BY <1>2
<1>4. /\ Sum(0, es) \in Nat
      /\ TotalSize(es, hs) = (kLogBatchHeaderSize + HardStateBytes(hs)) + Sum(0, es)
  BY <1>1, <1>3, SumShift
<1> QED BY <1>2, <1>4

\* A batch of entries alone declares what is encoded into it.
LEMMA BatchFits ==
  ASSUME NEW es \in Seq(Entries), NEW hs
  PROVE  LET b == MakeBatch(es, hs) IN
           b.hs = NoHardState => EncodedSize(b) <= b.len
<1> DEFINE b == MakeBatch(es, hs)
<1>1. b.hs = hs /\ b.entries = es /\ b.len = TotalSize(es, hs) - kLogBatchHeaderSize
  BY DEF MakeBatch
<1> HIDE DEF b
<1> SUFFICES ASSUME hs = NoHardState PROVE EncodedSize(b) <= b.len
  BY <1>1 DEF b
<1>2. EncodedSize(b) = Sum(IF b.hs = NoHardState THEN 0 ELSE RecordSize(HsSize), b.entries)
  BY Zenon DEF EncodedSize, Sum, IsSum, FoldLeft
<1>3. EncodedSize(b) = Sum(0, es)
  BY <1>1, <1>2
<1>4. b.len = Sum(0, es) /\ Sum(0, es) \in Nat
  BY <1>1, TotalSizeIs, SumShift DEF HardStateBytes, kLogBatchHeaderSize
<1> QED BY <1>3, <1>4

\* Appending to a MemoryStorage: the function, and a replay as FoldLeft goes
\* through it.
Replays == [ok : BOOLEAN, log : Seq(Entries)]

AppendTo == [p \in Replays \X Entries |-> MemAppend(p[1], p[2])]

FromLog(log) == [ok |-> TRUE, log |-> log]

IsReplay(g, log, es) ==
  g = [i \in 0..Len(es) |-> IF i = 0 THEN FromLog(log) ELSE MemAppend(g[i - 1], es[i])]

\* MemoryStorage::Append yields a log or a refusal.
LEMMA MemAppendType ==
  ASSUME NEW s \in Replays, NEW e \in Entries
  PROVE  MemAppend(s, e) \in Replays
<1>1. s.log \in Seq(Entries) /\ s.ok \in BOOLEAN /\ e.index \in Nat \ {0}
  BY BoundAssumption DEF Replays, Entries
<1>2. CASE e.index <= Len(s.log) + 1
  <2>1. SubSeq(s.log, 1, e.index - 1) \in Seq(Entries)
    BY <1>1, <1>2
  <2>2. SubSeq(s.log, 1, e.index - 1) \o <<e>> \in Seq(Entries)
    BY <2>1
  <2> QED BY <1>1, <2>2 DEF MemAppend, Replays
<1>3. CASE ~(e.index <= Len(s.log) + 1)
  BY <1>1, <1>3 DEF MemAppend, Replays
<1> QED BY <1>2, <1>3

\* A replay keeps the types of a log,
LEMMA ReplayFoldable ==
  ASSUME NEW log \in Seq(Entries), NEW es \in Seq(Entries)
  PROVE  Foldable(AppendTo, Replays, Entries, FromLog(log), es)
<1>1. FromLog(log) \in Replays
  BY DEF FromLog, Replays
<1>2. AppendTo \in [Replays \X Entries -> Replays]
  BY MemAppendType DEF AppendTo
<1> QED BY <1>1, <1>2 DEF Foldable

\* as a fold over a function.
LEMMA ReplayIsFold ==
  ASSUME NEW log \in Seq(Entries), NEW es \in Seq(Entries)
  PROVE  Replay(log, es) = FoldBy(AppendTo, FromLog(log), es)
<1> DEFINE f == AppendTo
<1> DEFINE base == FromLog(log)
<1>0. Foldable(f, Replays, Entries, base, es)
  BY ReplayFoldable
<1>f. \A v \in Replays, e \in Entries : f[<<v, e>>] = MemAppend(v, e)
  BY DEF AppendTo
<1>b. base = FromLog(log)
  OBVIOUS
<1>e. \A k \in 1..Len(es) : es[k] \in Entries
  OBVIOUS
<1> HIDE DEF f, base
<1>1. PICK g \in [0..Len(es) -> Replays] : IsChain(g, f, base, es, Len(es))
  BY <1>0, StepsExist, Zenon
<1>2. IsReplay(g, log, es)
  <2>1. ASSUME NEW i \in 0..Len(es), i # 0 PROVE g[i] = MemAppend(g[i - 1], es[i])
    <3>1. i \in 1..Len(es) /\ i - 1 \in 0..Len(es)
      BY <2>1
    <3>2. g[i] = f[<<g[i - 1], es[i]>>]
      BY <1>1, <3>1 DEF IsChain
    <3>3. g[i - 1] \in Replays /\ es[i] \in Entries
      BY <1>e, <3>1
    <3> QED BY <1>f, <3>2, <3>3
  <2> QED BY <1>1, <2>1, <1>b DEF IsReplay, IsChain
<1> DEFINE it == CHOOSE h : IsReplay(h, log, es)
<1>3. IsReplay(it, log, es)
  BY <1>2, Zenon
<1>4. Replay(log, es) = it[Len(es)]
  BY Zenon DEF Replay, IsReplay, FromLog, FoldLeft
<1> HIDE DEF it
<1>5. IsRun(it, Replays, f, base, es)
  <2>1. ASSUME NEW k \in 1..Len(es), it[k - 1] \in Replays PROVE it[k] = f[<<it[k - 1], es[k]>>]
    <3>1. k \in 0..Len(es) /\ k # 0
      OBVIOUS
    <3>2. it[k] = MemAppend(it[k - 1], es[k])
      BY <1>3, <3>1, Zenon DEF IsReplay
    <3> QED BY <1>e, <1>f, <2>1, <3>2
  <2>2. it[0] = base
    BY <1>3, <1>b DEF IsReplay
  <2> QED BY <2>1, <2>2 DEF IsRun
<1>6. FoldBy(f, base, es) = it[Len(es)]
  BY <1>0, <1>5, StepsAreFold
<1> QED BY <1>4, <1>6 DEF f, base

\* A replay yields a log or a refusal,
LEMMA ReplayType ==
  ASSUME NEW log \in Seq(Entries), NEW es \in Seq(Entries)
  PROVE  Replay(log, es) \in Replays
  BY ReplayFoldable, ReplayIsFold, FoldByType

\* and of nothing, the log it began with.
LEMMA ReplayEmpty ==
  ASSUME NEW log \in Seq(Entries)
  PROVE  Replay(log, << >>) = FromLog(log)
<1>1. << >> \in Seq(Entries)
  OBVIOUS
<1> QED BY <1>1, ReplayFoldable, ReplayIsFold, FoldByEmpty, Zenon

\* One more entry.
LEMMA ReplayAppend ==
  ASSUME NEW log \in Seq(Entries), NEW es \in Seq(Entries), NEW e \in Entries
  PROVE  Replay(log, Append(es, e)) = MemAppend(Replay(log, es), e)
<1>1. Append(es, e) \in Seq(Entries)
  OBVIOUS
<1>2. Foldable(AppendTo, Replays, Entries, FromLog(log), es)
  BY ReplayFoldable
<1>3. FoldBy(AppendTo, FromLog(log), Append(es, e)) = AppendTo[<<FoldBy(AppendTo, FromLog(log), es), e>>]
  BY <1>2, FoldByAppend
<1>4. Replay(log, Append(es, e)) = AppendTo[<<Replay(log, es), e>>]
  BY <1>1, <1>3, ReplayIsFold, Zenon
<1>5. Replay(log, es) \in Replays
  BY ReplayType
<1> QED BY <1>4, <1>5 DEF AppendTo

\* Two replays that agree still do after the same entries.
LEMMA ReplayGoesOn ==
  ASSUME NEW l1 \in Seq(Entries), NEW s1 \in Seq(Entries),
         NEW l2 \in Seq(Entries), NEW s2 \in Seq(Entries), NEW t \in Seq(Entries),
         Replay(l1, s1) = Replay(l2, s2)
  PROVE  Replay(l1, s1 \o t) = Replay(l2, s2 \o t)
<1>1. s1 \o t \in Seq(Entries) /\ s2 \o t \in Seq(Entries)
  OBVIOUS
<1>2. /\ Foldable(AppendTo, Replays, Entries, FromLog(l1), s1)
      /\ Foldable(AppendTo, Replays, Entries, FromLog(l2), s2)
  BY ReplayFoldable
<1>3. /\ FoldBy(AppendTo, FromLog(l1), s1 \o t) = FoldBy(AppendTo, FoldBy(AppendTo, FromLog(l1), s1), t)
      /\ FoldBy(AppendTo, FromLog(l2), s2 \o t) = FoldBy(AppendTo, FoldBy(AppendTo, FromLog(l2), s2), t)
  BY <1>2, FoldByConcat
<1>4. FoldBy(AppendTo, FromLog(l1), s1) = FoldBy(AppendTo, FromLog(l2), s2)
  BY ReplayIsFold
<1>5. /\ Replay(l1, s1 \o t) = FoldBy(AppendTo, FromLog(l1), s1 \o t)
      /\ Replay(l2, s2 \o t) = FoldBy(AppendTo, FromLog(l2), s2 \o t)
  BY <1>1, ReplayIsFold, Zenon
<1> QED BY <1>3, <1>4, <1>5

-----------------------------------------------------------------------------
(* The entries of segments *)

Files == [magic : BOOLEAN, batches : Seq(Batches), torn : BOOLEAN, synced : Nat]

\* An id finds its file.
LEMMA FileOfIs ==
  ASSUME NEW d, \A m, n \in DOMAIN d : m[1] = n[1] => m = n, NEW n \in DOMAIN d
  PROVE  FileOf(d, n[1]) = d[n]
<1> DEFINE c == CHOOSE m \in DOMAIN d : m[1] = n[1]
<1>1. c \in DOMAIN d /\ c[1] = n[1]
  OBVIOUS
<1>2. c = n
  BY <1>1
<1> QED BY <1>2 DEF FileOf

\* The entries of a segment, batch by batch,
LEMMA BatchEntriesType ==
  ASSUME NEW bs \in Seq(Batches)
  PROVE  /\ [i \in DOMAIN bs |-> bs[i].entries] \in Seq(Seq(Entries))
         /\ Len([i \in DOMAIN bs |-> bs[i].entries]) = Len(bs)
<1> DEFINE S == Seq(Entries)
<1>1. DOMAIN bs = 1..Len(bs) /\ Len(bs) \in Nat
  OBVIOUS
<1>2. \A i \in 1..Len(bs) : bs[i].entries \in S
  <2>1. \A b \in Batches : b.entries \in S
    BY DEF Batches
  <2>2. \A i \in 1..Len(bs) : bs[i] \in Batches
    OBVIOUS
  <2> HIDE DEF S
  <2> QED BY <2>1, <2>2
<1> HIDE DEF S
<1>3. [i \in 1..Len(bs) |-> bs[i].entries] \in Seq(S)
  BY <1>1, <1>2
<1>4. Len([i \in 1..Len(bs) |-> bs[i].entries]) = Len(bs)
  BY <1>1
<1> QED BY <1>1, <1>3, <1>4 DEF S

\* and in a row.
LEMMA SegmentEntriesType ==
  ASSUME NEW f \in Files
  PROVE  SegmentEntries(f) \in Seq(Entries)
<1>1. f.batches \in Seq(Batches)
  BY DEF Files
<1>2. [i \in DOMAIN f.batches |-> f.batches[i].entries] \in Seq(Seq(Entries))
  BY <1>1, BatchEntriesType
<1> QED BY <1>2, FlattenType DEF SegmentEntries

\* A batch more in the file is its entries more in the segment.
LEMMA SegmentEntriesGrow ==
  ASSUME NEW f \in Files, NEW b \in Batches, NEW g, g.batches = Append(f.batches, b)
  PROVE  SegmentEntries(g) = SegmentEntries(f) \o b.entries
<1> DEFINE ss == [i \in DOMAIN f.batches |-> f.batches[i].entries]
<1> DEFINE tt == [i \in DOMAIN g.batches |-> g.batches[i].entries]
<1>1. f.batches \in Seq(Batches) /\ b.entries \in Seq(Entries)
  BY DEF Files, Batches
<1>2. ss \in Seq(Seq(Entries)) /\ Len(ss) = Len(f.batches)
  BY <1>1, BatchEntriesType
<1>3. tt = Append(ss, b.entries)
  <2>1. /\ DOMAIN g.batches = 1..Len(f.batches) + 1
        /\ \A i \in 1..Len(f.batches) : g.batches[i] = f.batches[i]
        /\ g.batches[Len(f.batches) + 1] = b
    BY <1>1
  <2>2. /\ DOMAIN Append(ss, b.entries) = 1..Len(f.batches) + 1
        /\ \A i \in 1..Len(f.batches) : Append(ss, b.entries)[i] = f.batches[i].entries
        /\ Append(ss, b.entries)[Len(f.batches) + 1] = b.entries
    <3>1. \A i \in 1..Len(f.batches) : ss[i] = f.batches[i].entries
      BY <1>1
    <3> HIDE DEF ss
    <3>2. /\ DOMAIN Append(ss, b.entries) = 1..Len(ss) + 1
          /\ \A i \in 1..Len(ss) : Append(ss, b.entries)[i] = ss[i]
          /\ Append(ss, b.entries)[Len(ss) + 1] = b.entries
      BY <1>1, <1>2
    <3> QED BY <1>2, <3>1, <3>2
  <2>3. Append(ss, b.entries) = [i \in 1..Len(f.batches) + 1 |-> Append(ss, b.entries)[i]]
    BY <1>1, <1>2
  <2>4. Len(f.batches) \in Nat
    BY <1>1
  <2> HIDE DEF ss
  <2>5. \A i \in 1..Len(f.batches) + 1 : g.batches[i].entries = Append(ss, b.entries)[i]
    BY <2>1, <2>2, <2>4
  <2> QED BY <2>1, <2>3, <2>5, Zenon
<1> HIDE DEF ss, tt
<1>4. FlattenSeq(tt) = FlattenSeq(ss) \o b.entries
  BY <1>1, <1>2, <1>3, FlattenAppend, Zenon
<1> QED BY <1>4, Zenon DEF ss, tt, SegmentEntries

\* The entries of the first N segments.
LEMMA EntriesInType ==
  ASSUME NEW d, NEW N \in Nat, \A i \in 1..N : FileOf(d, i) \in Files
  PROVE  EntriesIn(d, N) \in Seq(Entries)
<1>1. \A i \in 1..N : SegmentEntries(FileOf(d, i)) \in Seq(Entries)
  BY SegmentEntriesType
<1>2. [i \in 1..N |-> SegmentEntries(FileOf(d, i))] \in Seq(Seq(Entries))
  BY <1>1
<1> QED BY <1>2, FlattenType, Zenon DEF EntriesIn

\* Only the entries of the segments count.
LEMMA EntriesInSame ==
  ASSUME NEW d, NEW e, NEW N,
         \A i \in 1..N : SegmentEntries(FileOf(e, i)) = SegmentEntries(FileOf(d, i))
  PROVE  EntriesIn(e, N) = EntriesIn(d, N)
<1>1. [i \in 1..N |-> SegmentEntries(FileOf(e, i))] = [i \in 1..N |-> SegmentEntries(FileOf(d, i))]
  OBVIOUS
<1> QED BY <1>1, Zenon DEF EntriesIn

\* The last segment comes last.
LEMMA EntriesInLast ==
  ASSUME NEW d, NEW N \in Nat, \A i \in 1..N + 1 : FileOf(d, i) \in Files
  PROVE  EntriesIn(d, N + 1) = EntriesIn(d, N) \o SegmentEntries(FileOf(d, N + 1))
<1> DEFINE E(i) == SegmentEntries(FileOf(d, i))
<1> DEFINE ss == [i \in 1..N |-> E(i)]
<1> DEFINE tt == [i \in 1..N + 1 |-> E(i)]
<1>1. \A i \in 1..N + 1 : E(i) \in Seq(Entries)
  BY SegmentEntriesType
<1> HIDE DEF E
<1>2. ss \in Seq(Seq(Entries)) /\ tt \in Seq(Seq(Entries)) /\ E(N + 1) \in Seq(Entries)
  BY <1>1
<1>3. tt = Append(ss, E(N + 1))
  BY <1>1, <1>2
<1> HIDE DEF ss, tt
<1>4. FlattenSeq(tt) = FlattenSeq(ss) \o E(N + 1)
  BY <1>2, <1>3, FlattenAppend
<1> QED BY <1>4, Zenon DEF ss, tt, E, EntriesIn

-----------------------------------------------------------------------------
(* What the steps do, in terms of the state *)

\* What Write is given are entries of the log.
LEMMA EntryVecFacts ==
  ASSUME NEW log \in Seq(Entries), NEW v \in EntryVecs(log)
  PROVE  /\ v \in Seq(Entries)
         /\ v # << >> => \E first \in 1..Len(log) + 1 :
                           \A i \in 1..Len(v) : v[i].index = first + i - 1
<1>1. PICK first \in 1..Len(log) + 1, t \in Terms, sizes \in SeqOf(EntrySizes, MaxIndex) :
        v = EntryVec(first, t, sizes) /\ (v # << >> => Follows(v, log))
  BY DEF EntryVecs
<1>2. PICK m \in 0..MaxIndex : sizes \in [1..m -> EntrySizes]
  BY <1>1 DEF SeqOf
<1>3. m \in Nat /\ first \in Nat \ {0}
  BY BoundAssumption
<1>4. v = [i \in 1..m |-> [index |-> first + i - 1, term |-> t, size |-> sizes[i]]]
  BY <1>1, <1>2 DEF EntryVec
<1>5. Len(v) = m /\ \A i \in 1..m : v[i].index = first + i - 1
  BY <1>3, <1>4
<1>6. ASSUME NEW i \in 1..m PROVE v[i] \in Entries
  <2>1. v # << >> /\ Last(v).index = first + m - 1
    <3>1. m \in 1..m /\ v # << >>
      BY <1>3, <1>5
    <3>2. v[m].index = first + m - 1 /\ Len(v) = m
      BY <1>5, <3>1
    <3> QED BY <3>1, <3>2 DEF Last
  <2>2. first + m - 1 <= MaxIndex
    BY <1>1, <2>1 DEF Follows
  <2>3. first + i - 1 \in 1..MaxIndex
    BY <1>3, <2>2, BoundAssumption
  <2> QED BY <1>2, <1>4, <2>3 DEF Entries
<1>7. v \in Seq(Entries)
  BY <1>3, <1>4, <1>6
<1> QED BY <1>5, <1>7

\* Those entries follow the log without a hole, so a replay accepts them.
LEMMA EntryVecReplays ==
  ASSUME NEW log \in Seq(Entries), NEW v \in EntryVecs(log), v # << >>
  PROVE  Replay(log, v).ok
<1>0. v \in Seq(Entries)
  BY EntryVecFacts
<1>1. PICK first \in 1..Len(log) + 1 : \A i \in 1..Len(v) : v[i].index = first + i - 1
  BY EntryVecFacts
<1> DEFINE R(k) == Replay(log, SubSeq(v, 1, k))
<1> DEFINE S == {k \in Nat : k <= Len(v) => R(k).ok /\ Len(R(k).log) >= first + k - 1}
<1>2. 0 \in S
  <2>1. SubSeq(v, 1, 0) = << >>
    BY <1>0
  <2>2. R(0) = FromLog(log)
    BY <2>1, ReplayEmpty, Zenon
  <2> QED BY <2>2 DEF FromLog
<1>3. ASSUME NEW k \in Nat, k \in S PROVE k + 1 \in S
  <2> SUFFICES ASSUME k + 1 <= Len(v)
               PROVE  R(k + 1).ok /\ Len(R(k + 1).log) >= first + (k + 1) - 1
    OBVIOUS
  <2> DEFINE e == v[k + 1]
  <2>1. e \in Entries /\ e.index = first + k
    BY <1>0, <1>1
  <2>2. SubSeq(v, 1, k) \in Seq(Entries) /\ SubSeq(v, 1, k + 1) = Append(SubSeq(v, 1, k), e)
    BY <1>0
  <2>3. R(k + 1) = MemAppend(R(k), e)
    <3> DEFINE u == SubSeq(v, 1, k)
    <3>1. u \in Seq(Entries) /\ e \in Entries
      BY <2>1, <2>2
    <3> HIDE DEF u, e
    <3>2. Replay(log, Append(u, e)) = MemAppend(Replay(log, u), e)
      BY <3>1, ReplayAppend
    <3> QED BY <2>2, <3>2 DEF u
  <2>4. R(k).ok /\ Len(R(k).log) >= first + k - 1
    BY <1>0, <1>3
  <2>5. R(k).log \in Seq(Entries)
    BY <2>2, ReplayType, Zenon DEF Replays
  <2> HIDE DEF R, e
  <2>6. R(k + 1).ok /\ R(k + 1).log = SubSeq(R(k).log, 1, first + k - 1) \o <<e>>
    BY <2>1, <2>3, <2>4, <2>5 DEF MemAppend
  <2>7. SubSeq(R(k).log, 1, first + k - 1) \in Seq(Entries)
        /\ Len(SubSeq(R(k).log, 1, first + k - 1)) = first + k - 1
    BY <2>4, <2>5
  <2>8. Len(R(k + 1).log) = first + k
    BY <2>1, <2>6, <2>7
  <2> QED BY <2>6, <2>8
<1> HIDE DEF S, R
<1>4. Len(v) \in S
  BY <1>0, <1>2, <1>3, SetInduction
<1>5. R(Len(v)).ok
  BY <1>0, <1>4 DEF S
<1>6. SubSeq(v, 1, Len(v)) = v
  BY <1>0
<1> QED BY <1>5, <1>6, Zenon DEF R

\* The part of the Write in progress that is not on disk yet, and what Append
\* takes of it.
RestOfWrite == SubSeq(write.entries, write.next, Len(write.entries))

TakenNum == NumFitting(RestOfWrite, write.hs,
                       LogSegmentSize - (IF current.size = 0 THEN MagicSize ELSE current.size))

Taken == SubSeq(RestOfWrite, 1, TakenNum)

\* LogWriter::Append takes a prefix of what is still to be written.
LEMMA TakenFacts ==
  ASSUME TypeOK
  PROVE  /\ RestOfWrite \in Seq(Entries)
         /\ TakenNum \in 0..Len(RestOfWrite)
         /\ Taken \in Seq(Entries)
         /\ Len(Taken) = TakenNum
<1>1. write.entries \in Seq(Entries) /\ write.next \in Nat \ {0}
  BY DEF TypeOK
<1>2. RestOfWrite \in Seq(Entries)
  BY <1>1 DEF RestOfWrite
<1>3. TakenNum \in 0..Len(RestOfWrite)
  <2> DEFINE S == {k \in 1..Len(RestOfWrite) :
                     LessThanRemains(TotalSize(SubSeq(RestOfWrite, 1, k - 1), write.hs),
                       LogSegmentSize - (IF current.size = 0 THEN MagicSize ELSE current.size))}
  <2>1. TakenNum = Cardinality(S)
    BY DEF TakenNum, NumFitting
  <2>2. S \subseteq 1..Len(RestOfWrite)
    OBVIOUS
  <2> HIDE DEF S
  <2>3. Len(RestOfWrite) \in Nat
    BY <1>2
  <2>4. IsFiniteSet(1..Len(RestOfWrite)) /\ Cardinality(1..Len(RestOfWrite)) = Len(RestOfWrite)
    BY <2>3, IntervalCardinality, Zenon
  <2>5. IsFiniteSet(S) /\ Cardinality(S) <= Len(RestOfWrite)
    BY <2>2, <2>4, FS_Subset, Zenon
  <2>6. Cardinality(S) \in Nat
    BY <2>5, FS_CardinalityType
  <2> QED BY <2>1, <2>3, <2>5, <2>6
<1>4. Taken \in Seq(Entries) /\ Len(Taken) = TakenNum
  BY <1>2, <1>3 DEF Taken
<1> QED BY <1>2, <1>3, <1>4

\* The file and the writer after one LogWriter::Append.
Size0 == IF current.size = 0 THEN MagicSize ELSE current.size

AppendedFile ==
  [disk[current.name] EXCEPT !.magic = TRUE,
                             !.batches = Append(@, MakeBatch(Taken, write.hs))]

AppendedWriter ==
  [current EXCEPT !.size = Size0 + TotalSize(Taken, write.hs), !.numEntries = @ + TakenNum]

\* The Write is complete.
AppendCompletes ==
  /\ TakenNum = Len(RestOfWrite)
  /\ disk' = [disk EXCEPT ![current.name] = AppendedFile]
  /\ current' = AppendedWriter
  /\ status' = "idle"
  /\ acked' = Replay(acked, write.entries).log
  /\ write' = NoWrite
  /\ UNCHANGED <<files, lastIndex>>

\* The segment is finished, and the Write goes on with the next.
AppendRolls ==
  /\ TakenNum < Len(RestOfWrite)
  /\ lastIndex' \in IF write.next + TakenNum = 1 THEN GarbageIndexes
                    ELSE {write.entries[(write.next + TakenNum) - 1].index}
  /\ disk' = [disk EXCEPT ![current.name] = SyncFile(AppendedFile, AppendedWriter)]
  /\ files' = Append(files, AppendedWriter.numEntries)
  /\ current' = NoWriter
  /\ write' = [write EXCEPT !.hs = NoHardState, !.next = write.next + TakenNum]
  /\ UNCHANGED <<status, acked>>

\* doWrite's step completes the Write or rolls the segment.
LEMMA AppendIs ==
  ASSUME AppendBatch
  PROVE  /\ status = "writing" /\ current.open
         /\ AppendCompletes \/ AppendRolls
         /\ memstore' = memstore /\ saved' = saved /\ writes' = writes
<1>1. AppendCompletes \/ AppendRolls
  BY Zenon DEF AppendBatch, AppendCompletes, AppendRolls, AppendedFile, AppendedWriter, Size0, RestOfWrite,
     TakenNum, Taken, FinishedFiles
<1> QED BY <1>1 DEF AppendBatch

\* Either way the open segment has a batch more, and nothing else on disk changes.
LEMMA AppendFacts ==
  ASSUME TypeOK, AppendBatch
  PROVE  /\ current.name \in DOMAIN disk
         /\ DOMAIN disk' = DOMAIN disk
         /\ \A n \in DOMAIN disk \ {current.name} : disk'[n] = disk[n]
         /\ disk'[current.name] \in Files
         /\ disk'[current.name].magic
         /\ disk'[current.name].batches
              = Append(disk[current.name].batches, MakeBatch(Taken, write.hs))
         /\ MakeBatch(Taken, write.hs) \in Batches
<1> DEFINE b == MakeBatch(Taken, write.hs)
<1> DEFINE f == disk[current.name]
<1>0. Taken \in Seq(Entries) /\ write.hs \in HardStateOrNull
  BY TakenFacts DEF TypeOK
<1>1. TotalSize(Taken, write.hs) - kLogBatchHeaderSize \in Nat
  BY <1>0, TotalSizeIs
<1>2. b \in Batches
  BY <1>0, <1>1 DEF MakeBatch, Batches
<1>3. current.open /\ current.name \in DOMAIN disk /\ f \in Files
  BY AppendIs DEF TypeOK, Files
<1>4. AppendedFile = [f EXCEPT !.magic = TRUE, !.batches = Append(@, b)]
  BY DEF AppendedFile
<1> HIDE DEF b, f
<1>5. f.batches \in Seq(Batches) /\ Append(f.batches, b) \in Seq(Batches)
      /\ Len(Append(f.batches, b)) \in Nat
  BY <1>2, <1>3 DEF Files
<1>6. AppendedFile \in Files /\ AppendedFile.magic /\ AppendedFile.batches = Append(f.batches, b)
  BY <1>3, <1>4, <1>5, Zenon DEF Files
<1>7. /\ SyncFile(AppendedFile, AppendedWriter) \in Files
      /\ SyncFile(AppendedFile, AppendedWriter).magic
      /\ SyncFile(AppendedFile, AppendedWriter).batches = Append(f.batches, b)
  BY <1>5, <1>6 DEF SyncFile, Files
<1>8. \E g \in Files : /\ g.magic /\ g.batches = Append(f.batches, b)
                       /\ disk' = [disk EXCEPT ![current.name] = g]
  BY <1>6, <1>7, AppendIs DEF AppendCompletes, AppendRolls
<1>9. /\ disk'[current.name] \in Files /\ disk'[current.name].magic
      /\ disk'[current.name].batches = Append(f.batches, b)
      /\ DOMAIN disk' = DOMAIN disk
      /\ \A n \in DOMAIN disk \ {current.name} : disk'[n] = disk[n]
  BY <1>3, <1>8
<1> QED BY <1>2, <1>3, <1>9 DEF b, f

\* The writer after an Append, and the index read through std::prev(it).
LEMMA AppendTypes ==
  ASSUME TypeOK, AppendBatch
  PROVE  /\ Size0 + TotalSize(Taken, write.hs) \in Nat
         /\ AppendedWriter.numEntries = current.numEntries + TakenNum
         /\ current.numEntries + TakenNum \in Nat
         /\ write.next + TakenNum \in Nat \ {0}
         /\ AppendRolls => lastIndex' \in Nat /\ write.next + TakenNum <= Len(write.entries)
<1>1. /\ write.entries \in Seq(Entries) /\ write.next \in Nat \ {0}
      /\ current.size \in Nat /\ current.numEntries \in Nat
  BY DEF TypeOK
<1>2. TakenNum \in Nat /\ Taken \in Seq(Entries) /\ Len(RestOfWrite) \in Nat
  BY TakenFacts
<1>3. TotalSize(Taken, write.hs) \in Nat
  BY <1>2, TotalSizeIs
<1>4. Size0 \in Nat
  BY <1>1 DEF Size0, MagicSize
<1>5. AppendedWriter.numEntries = current.numEntries + TakenNum
  BY DEF AppendedWriter, TypeOK
<1>6. ASSUME AppendRolls PROVE lastIndex' \in Nat /\ write.next + TakenNum <= Len(write.entries)
  <2>1. TakenNum < Len(RestOfWrite)
    BY <1>6 DEF AppendRolls
  <2>2. Len(RestOfWrite) = Len(write.entries) - write.next + 1
    BY <1>1, <1>2, <2>1 DEF RestOfWrite
  <2>3. write.next + TakenNum <= Len(write.entries)
    BY <1>1, <1>2, <2>1, <2>2
  <2>4. CASE write.next + TakenNum = 1
    <3>1. lastIndex' \in GarbageIndexes
      BY <1>6, <2>4 DEF AppendRolls
    <3> QED BY <2>3, <3>1, BoundAssumption
  <2>5. CASE write.next + TakenNum # 1
    <3>1. (write.next + TakenNum) - 1 \in 1..Len(write.entries)
      BY <1>1, <1>2, <2>3, <2>5
    <3>2. write.entries[(write.next + TakenNum) - 1] \in Entries
      BY <1>1, <3>1
    <3>3. write.entries[(write.next + TakenNum) - 1].index \in Nat
      BY <3>2 DEF Entries
    <3>4. lastIndex' = write.entries[(write.next + TakenNum) - 1].index
      BY <1>6, <2>5 DEF AppendRolls
    <3> QED BY <2>3, <3>3, <3>4
  <2> QED BY <2>4, <2>5
<1>7. /\ Size0 + TotalSize(Taken, write.hs) \in Nat
      /\ current.numEntries + TakenNum \in Nat
      /\ write.next + TakenNum \in Nat \ {0}
  <2>1. \A a, b \in Nat : a + b \in Nat /\ (a # 0 => a + b # 0)
    OBVIOUS
  <2> QED BY <1>1, <1>2, <1>3, <1>4, <2>1, Zenon
<1> QED BY <1>5, <1>6, <1>7

\* The ids recovery goes through are 1, 2, ...
LEMMA WalsAre ==
  ASSUME SegmentInv, ~Up
  PROVE  Wals = [i \in 1..Cardinality(WalIds) |-> i]
<1> DEFINE N == Cardinality(WalIds)
<1>1. WalIds = 1..N /\ N \in Nat
  BY DEF SegmentInv, DownKeepsIds
<1> HIDE DEF N
<1>2. \A id \in 1..N : Cardinality({j \in WalIds : j < id}) = id - 1
  <2> SUFFICES ASSUME NEW id \in 1..N PROVE Cardinality({j \in WalIds : j < id}) = id - 1
    OBVIOUS
  <2>1. {j \in WalIds : j < id} = 1..id - 1 /\ id - 1 \in Nat
    BY <1>1
  <2> QED BY <2>1, IntervalCardinality, Zenon
<1>3. \A i \in 1..N : (CHOOSE id \in WalIds : Cardinality({j \in WalIds : j < id}) = i - 1) = i
  <2> SUFFICES ASSUME NEW i \in 1..N
               PROVE  (CHOOSE id \in WalIds : Cardinality({j \in WalIds : j < id}) = i - 1) = i
    OBVIOUS
  <2> DEFINE c == CHOOSE id \in WalIds : Cardinality({j \in WalIds : j < id}) = i - 1
  <2>1. \E id \in WalIds : Cardinality({j \in WalIds : j < id}) = i - 1
    BY <1>1, <1>2, Zenon
  <2>2. c \in WalIds /\ Cardinality({j \in WalIds : j < c}) = i - 1
    BY <2>1, Zenon
  <2> HIDE DEF c
  <2>3. c \in 1..N /\ c - 1 = i - 1
    BY <1>1, <1>2, <2>2
  <2>4. c = i
    BY <1>1, <2>3
  <2> QED BY <2>4 DEF c
<1> QED BY <1>1, <1>3, Zenon DEF Wals, N

NumSegs == Cardinality(WalIds)

\* The files recovery reads.
LEMMA SegmentFiles ==
  ASSUME TypeOK, SegmentInv
  PROVE  /\ NumSegs \in Nat /\ WalIds = 1..NumSegs
         /\ \A i \in 1..NumSegs : WalFile(i) = FileOf(disk, i) /\ FileOf(disk, i) \in Files
<1>1. NumSegs \in Nat /\ WalIds = 1..NumSegs
  <2>1. CASE Up
    <3>1. SegmentNum \in Nat /\ WalIds = 1..SegmentNum
      BY <2>1 DEF SegmentInv, FilesIsVector, RunningCountsFiles, SegmentNum
    <3> QED BY <3>1, IntervalCardinality DEF NumSegs
  <2>2. CASE ~Up
    BY <2>2 DEF SegmentInv, DownKeepsIds, NumSegs
  <2> QED BY <2>1, <2>2
<1>2. ASSUME NEW i \in 1..NumSegs PROVE WalFile(i) = FileOf(disk, i) /\ FileOf(disk, i) \in Files
  <2>1. PICK n \in DOMAIN disk : n[1] = i
    BY <1>1, Zenon DEF WalIds
  <2>2. FileOf(disk, i) = disk[n]
    BY <2>1, FileOfIs DEF SegmentInv, IdsUnique
  <2>3. disk[n] \in Files
    BY DEF TypeOK, Files
  <2> QED BY <2>2, <2>3 DEF WalFile, FileOf
<1> QED BY <1>1, <1>2

\* A Recover that returns OK took its log from the entries on disk.
LEMMA RecoverIs ==
  ASSUME TypeOK, SegmentInv, Recover
  PROVE  /\ ~Up
         /\ UNCHANGED <<disk, current, lastIndex, writes>>
         /\ \/ status' = "corrupt" /\ UNCHANGED <<memstore, acked, saved, files, write>>
            \/ /\ status' = "idle" /\ write' = NoWrite
               /\ Replay(<< >>, DiskEntries).ok
               /\ memstore'.log = Replay(<< >>, DiskEntries).log
               /\ memstore' \in Stores
               /\ acked' = memstore'.log /\ saved' = memstore'.hs
               /\ files' = [i \in 1..NumSegs |-> Len(SegmentEntries(FileOf(disk, i)))]
<1>1. ~Up /\ UNCHANGED <<disk, current, lastIndex, writes>>
  BY Zenon DEF Recover, Up
<1>2. Wals = [i \in 1..NumSegs |-> i]
  BY <1>1, WalsAre DEF NumSegs
<1>3. /\ NumSegs \in Nat
      /\ \A i \in 1..NumSegs : WalFile(i) = FileOf(disk, i) /\ FileOf(disk, i) \in Files
  BY SegmentFiles
<1> DEFINE segs == [i \in DOMAIN Wals |-> WalFile(Wals[i])]
<1> DEFINE entries == FlattenSeq([i \in DOMAIN segs |-> SegmentEntries(segs[i])])
<1> DEFINE batches == FlattenSeq([i \in DOMAIN segs |-> segs[i].batches])
<1> DEFINE hss == {i \in DOMAIN batches : batches[i].hs # NoHardState}
<1> DEFINE hs == IF hss = {} THEN NoHardState ELSE batches[Max(hss)].hs
<1>4. segs = [i \in 1..NumSegs |-> FileOf(disk, i)]
  BY <1>2, <1>3
<1>5. DOMAIN segs = 1..NumSegs /\ \A i \in 1..NumSegs : segs[i] = FileOf(disk, i) /\ segs[i] \in Files
  BY <1>3, <1>4
<1>6. \/ status' = "corrupt" /\ UNCHANGED <<memstore, acked, saved, files, write>>
      \/ /\ status' = "idle" /\ write' = NoWrite
         /\ Replay(<< >>, entries).ok
         /\ memstore' = [log |-> Replay(<< >>, entries).log, hs |-> hs]
         /\ acked' = [log |-> Replay(<< >>, entries).log, hs |-> hs].log
         /\ saved' = [log |-> Replay(<< >>, entries).log, hs |-> hs].hs
         /\ files' = [i \in DOMAIN segs |-> Len(SegmentEntries(segs[i]))]
  BY Zenon DEF Recover
<1> HIDE DEF segs
<1>7. entries = DiskEntries
  <2>1. [i \in DOMAIN segs |-> SegmentEntries(segs[i])]
          = [i \in 1..NumSegs |-> SegmentEntries(FileOf(disk, i))]
    BY <1>5
  <2> QED BY <2>1, Zenon DEF DiskEntries, EntriesIn, NumSegs
<1>8. DiskEntries \in Seq(Entries)
  BY <1>3, EntriesInType DEF DiskEntries, NumSegs
<1>9. batches \in Seq(Batches)
  <2>1. \A i \in 1..NumSegs : segs[i].batches \in Seq(Batches)
    BY <1>5 DEF Files
  <2>2. [i \in DOMAIN segs |-> segs[i].batches] \in Seq(Seq(Batches))
    BY <1>3, <1>5, <2>1
  <2> QED BY <2>2, FlattenType, Zenon
<1> HIDE DEF entries, batches
<1>10. hs \in HardStateOrNull
  <2>1. CASE hss = {}
    BY <2>1 DEF HardStateOrNull
  <2>2. CASE hss # {}
    <3>1. Len(batches) \in Nat /\ hss \in SUBSET (1..Len(batches))
      BY <1>9
    <3> HIDE DEF hss
    <3>2. Max(hss) \in 1..Len(batches)
      <4>1. \E x \in hss : \A y \in hss : x >= y
        BY <2>2, <3>1, GreatestExists
      <4> QED BY <3>1, <4>1 DEF Max
    <3>3. batches[Max(hss)] \in Batches
      BY <1>9, <3>2
    <3> QED BY <2>2, <3>3 DEF Batches
  <2> QED BY <2>1, <2>2
<1> HIDE DEF hs
<1>11. Replay(<< >>, DiskEntries).log \in Seq(Entries)
  <2>1. << >> \in Seq(Entries)
    OBVIOUS
  <2> QED BY <1>8, <2>1, ReplayType, Zenon DEF Replays
<1>12. CASE status' = "corrupt" /\ UNCHANGED <<memstore, acked, saved, files, write>>
  BY <1>1, <1>12
<1>13. CASE /\ status' = "idle" /\ write' = NoWrite
            /\ Replay(<< >>, entries).ok
            /\ memstore' = [log |-> Replay(<< >>, entries).log, hs |-> hs]
            /\ acked' = [log |-> Replay(<< >>, entries).log, hs |-> hs].log
            /\ saved' = [log |-> Replay(<< >>, entries).log, hs |-> hs].hs
            /\ files' = [i \in DOMAIN segs |-> Len(SegmentEntries(segs[i]))]
  <2>1. files' = [i \in 1..NumSegs |-> Len(SegmentEntries(FileOf(disk, i)))]
    BY <1>5, <1>13
  <2>2. /\ memstore'.log = Replay(<< >>, DiskEntries).log
        /\ acked' = memstore'.log /\ saved' = memstore'.hs
    BY <1>7, <1>13, Zenon
  <2>3. memstore' \in Stores
    BY <1>7, <1>10, <1>11, <1>13 DEF Stores
  <2> QED BY <1>1, <1>7, <1>13, <2>1, <2>2, <2>3, Zenon
<1> QED BY <1>6, <1>12, <1>13

-----------------------------------------------------------------------------
(* Type correctness *)

Writers == [open : BOOLEAN, name : Nat \X Nat, size : Nat, numEntries : Nat,
            pendingSync : BOOLEAN]

WriteCalls == [entries : Seq(Entries), hs : HardStateOrNull, next : Nat \ {0}]

\* TypeOK, part by part.
DiskTypeOK ==
  /\ DOMAIN disk \subseteq (Nat \ {0}) \X (Nat \ {0})
  /\ \A n \in DOMAIN disk : disk[n] \in Files

WriterTypeOK ==
  /\ files \in Seq(Nat)
  /\ current \in Writers
  /\ current.open => current.name \in DOMAIN disk
  /\ lastIndex \in Nat

CallTypeOK ==
  /\ status \in {"idle", "writing", "down", "lost", "corrupt"}
  /\ write \in WriteCalls
  /\ memstore \in Stores
  /\ acked \in Seq(Entries)
  /\ saved \in HardStateOrNull
  /\ writes \in 0..MaxWrites

\* The types of the files, of the manager and of its calls.
LEMMA TypeParts == TypeOK <=> DiskTypeOK /\ WriterTypeOK /\ CallTypeOK
  BY DEF TypeOK, DiskTypeOK, WriterTypeOK, CallTypeOK, Files, Writers, WriteCalls

\* The values of nothing open and nothing to do.
LEMMA NullTypes ==
  NoWriter \in Writers /\ ~NoWriter.open /\ NoWrite \in WriteCalls /\ EmptyFile \in Files
<1>1. NoWriter \in Writers /\ ~NoWriter.open
  BY DEF NoWriter, Writers
<1>2. NoWrite \in WriteCalls
  BY DEF NoWrite, WriteCalls, HardStateOrNull
<1>3. EmptyFile \in Files
  BY DEF EmptyFile, Files
<1> QED BY <1>1, <1>2, <1>3

\* Sync changes no batch.
LEMMA SyncFileFacts ==
  ASSUME NEW f \in Files, NEW w
  PROVE  /\ SyncFile(f, w) \in Files
         /\ SyncFile(f, w).batches = f.batches
         /\ SyncFile(f, w).magic = f.magic
<1>1. f.batches \in Seq(Batches) /\ Len(f.batches) \in Nat
  BY DEF Files
<1> QED BY <1>1 DEF SyncFile, Files

\* Sync and Close leave the batches of every file as they are.
LEMMA SyncedDisk ==
  ASSUME DiskTypeOK, NEW k \in DOMAIN disk, NEW w,
         disk' = [disk EXCEPT ![k] = SyncFile(@, w)]
  PROVE  /\ DOMAIN disk' = DOMAIN disk
         /\ \A n \in DOMAIN disk : /\ disk'[n] \in Files
                                   /\ disk'[n].batches = disk[n].batches
                                   /\ disk'[n].magic = disk[n].magic
<1>1. \A n \in DOMAIN disk : disk[n] \in Files
  BY DEF DiskTypeOK
<1>2. /\ SyncFile(disk[k], w) \in Files
      /\ SyncFile(disk[k], w).batches = disk[k].batches
      /\ SyncFile(disk[k], w).magic = disk[k].magic
  BY <1>1, SyncFileFacts
<1> QED BY <1>1, <1>2

\* So does a crash, which may leave a magic or a torn batch behind.
LEMMA CrashedDisk ==
  ASSUME TypeOK, Crash
  PROVE  /\ DOMAIN disk' = DOMAIN disk
         /\ \A n \in DOMAIN disk : /\ disk'[n] \in Files
                                   /\ disk'[n].batches = disk[n].batches
                                   /\ disk[n].magic => disk'[n].magic
<1>1. \A n \in DOMAIN disk : disk[n] \in Files
  BY TypeParts DEF DiskTypeOK
<1>2. CASE disk' = disk
  BY <1>1, <1>2
<1>3. CASE current.open /\ \E g \in {disk[current.name], [disk[current.name] EXCEPT !.magic = TRUE],
                                     [disk[current.name] EXCEPT !.torn = TRUE]} :
             disk' = [disk EXCEPT ![current.name] = g]
  <2>1. current.name \in DOMAIN disk /\ disk[current.name] \in Files
    BY <1>1, <1>3 DEF TypeOK
  <2>2. PICK g : /\ disk' = [disk EXCEPT ![current.name] = g]
                 /\ g \in {disk[current.name], [disk[current.name] EXCEPT !.magic = TRUE],
                           [disk[current.name] EXCEPT !.torn = TRUE]}
    BY <1>3, Zenon
  <2>3. /\ g \in Files /\ g.batches = disk[current.name].batches
        /\ disk[current.name].magic => g.magic
    BY <2>1, <2>2, Zenon DEF Files
  <2> QED BY <1>1, <2>1, <2>2, <2>3
<1> QED BY <1>2, <1>3, Zenon DEF Crash

\* After a power failure a prefix of the batches is left.
LEMMA PowerLossDisk ==
  ASSUME TypeOK, PowerLoss
  PROVE  /\ DOMAIN disk' = DOMAIN disk
         /\ \A n \in DOMAIN disk : /\ disk'[n] \in Files
                                   /\ disk'[n].magic = disk[n].magic
                                   /\ \E k \in 0..Len(disk[n].batches) :
                                        disk'[n].batches = SubSeq(disk[n].batches, 1, k)
<1>1. \A n \in DOMAIN disk : disk[n] \in Files
  BY TypeParts DEF DiskTypeOK
<1>2. PICK keep \in [DOMAIN disk -> 0..Max({0} \cup {Len(disk[n].batches) : n \in DOMAIN disk})],
           torn \in [DOMAIN disk -> BOOLEAN] :
        /\ \A n \in DOMAIN disk : keep[n] \in disk[n].synced..Len(disk[n].batches)
        /\ disk' = [n \in DOMAIN disk |->
                      [disk[n] EXCEPT !.batches = SubSeq(@, 1, keep[n]), !.torn = @ \/ torn[n]]]
  BY Zenon DEF PowerLoss
<1>3. ASSUME NEW n \in DOMAIN disk
      PROVE  /\ disk'[n] \in Files
             /\ disk'[n].magic = disk[n].magic
             /\ \E k \in 0..Len(disk[n].batches) : disk'[n].batches = SubSeq(disk[n].batches, 1, k)
  <2> DEFINE f == disk[n]
  <2> DEFINE t == f.torn \/ torn[n]
  <2>1. /\ f \in Files /\ f.batches \in Seq(Batches) /\ f.synced \in Nat
        /\ f.torn \in BOOLEAN /\ Len(f.batches) \in Nat
    BY <1>1 DEF Files
  <2>2. keep[n] \in 0..Len(f.batches)
    <3>1. keep[n] \in f.synced..Len(f.batches)
      BY <1>2, Zenon
    <3> HIDE DEF f
    <3> QED BY <2>1, <3>1
  <2>3. t \in BOOLEAN
    OBVIOUS
  <2>4. SubSeq(f.batches, 1, keep[n]) \in Seq(Batches)
    BY <2>1, <2>2
  <2>5. disk'[n] = [f EXCEPT !.batches = SubSeq(@, 1, keep[n]), !.torn = t]
    BY <1>2, Zenon
  <2> HIDE DEF f, t
  <2>6. disk'[n] \in Files /\ disk'[n].magic = f.magic
        /\ disk'[n].batches = SubSeq(f.batches, 1, keep[n])
    BY <2>1, <2>3, <2>4, <2>5, Zenon DEF Files
  <2> QED BY <2>2, <2>6 DEF f
<1>4. DOMAIN disk' = DOMAIN disk
  BY <1>2, Zenon
<1> QED BY <1>3, <1>4

\* The types hold in a new directory,
LEMMA InitTypeOK == Init => TypeOK
<1> SUFFICES ASSUME Init PROVE DiskTypeOK /\ WriterTypeOK /\ CallTypeOK
  BY TypeParts
<1>1. DiskTypeOK
  BY DEF Init, DiskTypeOK
<1>2. WriterTypeOK
  BY NullTypes DEF Init, WriterTypeOK
<1>3. CallTypeOK
  BY NullTypes, BoundAssumption
     DEF Init, CallTypeOK, EmptyStore, Stores, HardStateOrNull
<1> QED BY <1>1, <1>2, <1>3

\* and after every step.
LEMMA NextTypeOK == TypeOK /\ SegmentInv /\ [Next]_vars => TypeOK'
<1> SUFFICES ASSUME TypeOK, SegmentInv, [Next]_vars PROVE TypeOK'
  OBVIOUS
<1>0. DiskTypeOK /\ WriterTypeOK /\ CallTypeOK
  BY TypeParts
<1>p. SUFFICES DiskTypeOK' /\ WriterTypeOK' /\ CallTypeOK'
  BY DEF TypeOK, DiskTypeOK, WriterTypeOK, CallTypeOK, Files, Writers, WriteCalls
<1>1. ASSUME NEW es \in EntryVecs(acked), NEW hs \in HardStateOrNull, Write(es, hs)
      PROVE  DiskTypeOK' /\ WriterTypeOK' /\ CallTypeOK'
  <2>1. es \in Seq(Entries)
    BY <1>0, EntryVecFacts, Zenon DEF CallTypeOK
  <2>2. [entries |-> es, hs |-> hs, next |-> 1] \in WriteCalls
    BY <2>1 DEF WriteCalls
  <2>3. writes' \in 0..MaxWrites
    BY <1>0, <1>1, BoundAssumption DEF Write, CallTypeOK
  <2>4. /\ write' \in WriteCalls /\ status' \in {"idle", "writing"}
        /\ saved' \in HardStateOrNull
    BY <1>0, <1>1, <2>2 DEF Write, CallTypeOK
  <2> QED BY <1>0, <1>1, <2>3, <2>4 DEF Write, DiskTypeOK, WriterTypeOK, CallTypeOK
<1>2. CASE NewSegment
  <2> DEFINE name == <<NewSegId, lastIndex + 1>>
  <2>1. name \in (Nat \ {0}) \X (Nat \ {0})
    BY <1>0 DEF WriterTypeOK, NewSegId
  <2>2. disk' = [n \in DOMAIN disk \cup {name} |-> IF n = name THEN EmptyFile ELSE disk[n]]
    BY <1>2 DEF NewSegment
  <2>3. current' = [NoWriter EXCEPT !.open = TRUE, !.name = name]
    BY <1>2 DEF NewSegment
  <2>4. UNCHANGED <<files, lastIndex, status, write, memstore, acked, saved, writes>>
    BY <1>2 DEF NewSegment
  <2> HIDE DEF name
  <2>5. DiskTypeOK'
    BY <1>0, <2>1, <2>2, NullTypes DEF DiskTypeOK
  <2>6. current' \in Writers /\ current'.name = name
    BY <2>1, <2>3, Zenon DEF NoWriter, Writers
  <2>7. WriterTypeOK'
    BY <1>0, <2>2, <2>4, <2>6 DEF WriterTypeOK
  <2> QED BY <1>0, <2>4, <2>5, <2>7 DEF CallTypeOK
<1>3. CASE AppendBatch
  <2>1. DiskTypeOK' /\ current.name \in DOMAIN disk /\ DOMAIN disk' = DOMAIN disk
    BY <1>0, <1>3, AppendFacts, Zenon DEF DiskTypeOK
  <2>2. memstore' = memstore /\ saved' = saved /\ writes' = writes /\ status = "writing" /\ current.open
    BY <1>3, AppendIs
  <2>3. CASE AppendCompletes
    <3>1. AppendedWriter \in Writers /\ AppendedWriter.name = current.name
      BY <1>0, <1>3, AppendTypes, Zenon DEF AppendedWriter, Writers, WriterTypeOK
    <3>2. WriterTypeOK'
      BY <1>0, <2>1, <2>3, <3>1 DEF AppendCompletes, WriterTypeOK
    <3>3. acked' \in Seq(Entries)
      <4>1. acked \in Seq(Entries) /\ write.entries \in Seq(Entries)
        BY <1>0 DEF CallTypeOK, WriteCalls
      <4>2. Replay(acked, write.entries).log \in Seq(Entries)
        BY <4>1, ReplayType DEF Replays
      <4> QED BY <2>3, <4>2 DEF AppendCompletes
    <3>4. CallTypeOK'
      BY <1>0, <2>2, <2>3, <3>3, NullTypes DEF AppendCompletes, CallTypeOK
    <3> QED BY <2>1, <3>2, <3>4
  <2>4. CASE AppendRolls
    <3>1. files' \in Seq(Nat) /\ lastIndex' \in Nat
      BY <1>0, <1>3, <2>4, AppendTypes DEF AppendRolls, WriterTypeOK
    <3>2. WriterTypeOK'
      BY <2>4, <3>1, NullTypes DEF AppendRolls, WriterTypeOK
    <3>3. write' \in WriteCalls
      BY <1>0, <1>3, <2>4, AppendTypes, Zenon DEF AppendRolls, CallTypeOK, WriteCalls, HardStateOrNull
    <3>4. CallTypeOK'
      BY <1>0, <2>2, <2>4, <3>3 DEF AppendRolls, CallTypeOK
    <3> QED BY <2>1, <3>2, <3>4
  <2> QED BY <1>3, <2>3, <2>4, AppendIs, Zenon
<1>4. CASE Sync
  <2>1. current.open /\ current.name \in DOMAIN disk
        /\ disk' = [disk EXCEPT ![current.name] = SyncFile(@, current)]
        /\ current' = [current EXCEPT !.pendingSync = FALSE]
        /\ UNCHANGED <<files, lastIndex, status, write, memstore, acked, saved, writes>>
    BY <1>0, <1>4 DEF Sync, WriterTypeOK
  <2>2. DiskTypeOK' /\ DOMAIN disk' = DOMAIN disk
    BY <1>0, <2>1, SyncedDisk, Zenon DEF DiskTypeOK
  <2>3. current' \in Writers /\ current'.name = current.name
    BY <1>0, <2>1, Zenon DEF WriterTypeOK, Writers
  <2>4. WriterTypeOK'
    BY <1>0, <2>1, <2>2, <2>3 DEF WriterTypeOK
  <2> QED BY <1>0, <2>1, <2>2, <2>4 DEF CallTypeOK
<1>5. CASE Close
  <2>1. current.open /\ current.name \in DOMAIN disk
        /\ disk' = [disk EXCEPT ![current.name] = SyncFile(@, current)]
        /\ files' = Append(files, current.numEntries)
        /\ current' = NoWriter
        /\ UNCHANGED <<lastIndex, status, write, memstore, acked, saved, writes>>
    BY <1>0, <1>5 DEF Close, WriterTypeOK, FinishedFiles
  <2>2. DiskTypeOK' /\ DOMAIN disk' = DOMAIN disk
    BY <1>0, <2>1, SyncedDisk, Zenon DEF DiskTypeOK
  <2>3. files' \in Seq(Nat)
    BY <1>0, <2>1 DEF WriterTypeOK, Writers
  <2>4. WriterTypeOK'
    BY <1>0, <2>1, <2>3, NullTypes DEF WriterTypeOK
  <2> QED BY <1>0, <2>1, <2>2, <2>4 DEF CallTypeOK
<1>6. CASE Crash
  <2>1. DiskTypeOK'
    BY <1>0, <1>6, CrashedDisk DEF DiskTypeOK
  <2>2. WriterTypeOK'
    BY <1>6, NullTypes DEF Crash, WriterTypeOK
  <2> QED BY <1>0, <1>6, <2>1, <2>2 DEF Crash, CallTypeOK
<1>7. CASE PowerLoss
  <2>1. DiskTypeOK'
    BY <1>0, <1>7, PowerLossDisk DEF DiskTypeOK
  <2>2. WriterTypeOK'
    <3>1. files' = << >> /\ current' = NoWriter /\ lastIndex' = 0
      BY <1>7, Zenon DEF PowerLoss
    <3> QED BY <3>1, NullTypes DEF WriterTypeOK
  <2> QED BY <1>0, <1>7, <2>1, <2>2, Zenon DEF PowerLoss, CallTypeOK
<1>8. CASE Recover
  <2>1. UNCHANGED <<disk, current, lastIndex, writes>>
    BY <1>8, RecoverIs
  <2>2. DiskTypeOK'
    BY <1>0, <2>1 DEF DiskTypeOK
  <2>3. CASE status' = "corrupt" /\ UNCHANGED <<memstore, acked, saved, files, write>>
    BY <1>0, <2>1, <2>2, <2>3 DEF WriterTypeOK, CallTypeOK
  <2>4. CASE /\ status' = "idle" /\ write' = NoWrite /\ memstore' \in Stores
             /\ acked' = memstore'.log /\ saved' = memstore'.hs
             /\ files' = [i \in 1..NumSegs |-> Len(SegmentEntries(FileOf(disk, i)))]
    <3>1. \A i \in 1..NumSegs : Len(SegmentEntries(FileOf(disk, i))) \in Nat
      <4>1. \A i \in 1..NumSegs : SegmentEntries(FileOf(disk, i)) \in Seq(Entries)
        BY SegmentFiles, SegmentEntriesType
      <4> QED BY <4>1
    <3>2. files' \in Seq(Nat)
      BY <2>4, <3>1, SegmentFiles
    <3>3. WriterTypeOK'
      BY <1>0, <2>1, <3>2 DEF WriterTypeOK
    <3>4. acked' \in Seq(Entries) /\ saved' \in HardStateOrNull
      BY <2>4 DEF Stores
    <3>5. CallTypeOK'
      BY <1>0, <2>1, <2>4, <3>4, NullTypes DEF CallTypeOK
    <3> QED BY <2>2, <3>3, <3>5
  <2> QED BY <1>8, <2>3, <2>4, RecoverIs
<1>9. CASE UNCHANGED vars
  BY <1>0, <1>9 DEF vars, DiskTypeOK, WriterTypeOK, CallTypeOK
<1> QED
  BY <1>1, <1>2, <1>3, <1>4, <1>5, <1>6, <1>7, <1>8, <1>9 DEF Next, HardStateOrNull

\* LogManager, its writer, the files, the Write in progress and what recovery
\* hands to raft keep their types, the batch sizes that Append adds up included.
THEOREM WalTypes == Spec => []TypeOK
<1>1. TypeOK /\ SegmentInv /\ [Next]_vars => (TypeOK /\ SegmentInv)'
  BY NextTypeOK, NextSegmentInv
<1> QED
  BY InitTypeOK, InitSegmentInv, <1>1, PTL DEF Spec

-----------------------------------------------------------------------------
(* The metadata of segments counts their entries *)

\* The numEntries of every finished segment, found by its name.
FilesCounted ==
  Up => \A n \in DOMAIN disk :
          n[1] \in DOMAIN files => files[n[1]] = Len(SegmentEntries(disk[n]))

\* The open writer has counted the entries of its segment.
WriterCounts ==
  current.open => current.numEntries = Len(SegmentEntries(disk[current.name]))

\* The inductive invariant behind MetaCountsEntries.
MetaInv == FilesCounted /\ WriterCounts

\* The entries of a file are those of its batches.
LEMMA SameBatches ==
  ASSUME NEW f, NEW g, g.batches = f.batches
  PROVE  SegmentEntries(g) = SegmentEntries(f)
  BY DEF SegmentEntries

\* The inductive invariant on the counts implies the property.
LEMMA MetaByName == TypeOK /\ SegmentInv /\ MetaInv => MetaCountsEntries
<1> SUFFICES ASSUME TypeOK, SegmentInv, MetaInv, Up, NEW i \in DOMAIN files
             PROVE  files[i] = Len(SegmentEntries(WalFile(i)))
  BY DEF MetaCountsEntries
<1>1. i \in WalIds
  BY DEF SegmentInv, RunningCountsFiles, SegmentNum, FilesIsVector
<1>2. PICK n \in DOMAIN disk : n[1] = i
  BY <1>1 DEF WalIds
<1>3. WalFile(i) = disk[n]
  BY <1>2, FileOfIs DEF SegmentInv, IdsUnique, WalFile, FileOf
<1> QED BY <1>2, <1>3 DEF MetaInv, FilesCounted

\* A step that keeps files_ and every segment's entries.
LEMMA SameCounts ==
  ASSUME TypeOK, MetaInv, Up, files' = files, DOMAIN disk' = DOMAIN disk,
         \A n \in DOMAIN disk : disk'[n].batches = disk[n].batches,
         current'.open = current.open, current'.name = current.name,
         current'.numEntries = current.numEntries
  PROVE  MetaInv'
<1>1. \A n \in DOMAIN disk : SegmentEntries(disk'[n]) = SegmentEntries(disk[n])
  BY SameBatches
<1>2. FilesCounted'
  BY <1>1 DEF MetaInv, FilesCounted
<1>3. WriterCounts'
  BY <1>1 DEF MetaInv, WriterCounts, TypeOK
<1> QED BY <1>2, <1>3 DEF MetaInv

\* The open segment is finished: its count joins files_.
LEMMA FinishCounts ==
  ASSUME TypeOK, SegmentInv, MetaInv, Up, current.open, NEW x \in Nat,
         files' = Append(files, x), current' = NoWriter, DOMAIN disk' = DOMAIN disk,
         \A n \in DOMAIN disk \ {current.name} : disk'[n].batches = disk[n].batches,
         x = Len(SegmentEntries(disk'[current.name]))
  PROVE  MetaInv'
<1>1. WriterCounts'
  BY NullTypes DEF WriterCounts
<1>2. /\ files \in Seq(Nat) /\ Len(files) \in Nat /\ DOMAIN files = 1..Len(files)
      /\ DOMAIN files' = 1..Len(files) + 1
      /\ \A i \in 1..Len(files) : files'[i] = files[i]
      /\ files'[Len(files) + 1] = x
  BY DEF TypeOK
<1>3. current.name \in DOMAIN disk /\ current.name[1] = Len(files) + 1
  BY DEF SegmentInv, WriterHasFile
<1>4. ASSUME NEW n \in DOMAIN disk, n[1] \in 1..Len(files) + 1
      PROVE  files'[n[1]] = Len(SegmentEntries(disk'[n]))
  <2>1. CASE n = current.name
    BY <1>2, <1>3, <2>1
  <2>2. CASE n # current.name
    <3>1. n[1] # Len(files) + 1
      BY <1>3, <2>2, Zenon DEF SegmentInv, IdsUnique
    <3>2. n[1] \in 1..Len(files)
      BY <1>2, <1>4, <3>1
    <3>3. SegmentEntries(disk'[n]) = SegmentEntries(disk[n])
      BY <2>2, SameBatches, Zenon
    <3>4. files[n[1]] = Len(SegmentEntries(disk[n]))
      BY <1>2, <3>2, Zenon DEF MetaInv, FilesCounted
    <3> QED BY <1>2, <3>2, <3>3, <3>4
  <2> QED BY <2>1, <2>2, Zenon
<1>5. FilesCounted'
  BY <1>2, <1>4, Zenon DEF FilesCounted
<1> QED BY <1>1, <1>5 DEF MetaInv

\* The counts are right in a new directory,
LEMMA InitMetaInv == Init => MetaInv
  BY NullTypes DEF Init, MetaInv, FilesCounted, WriterCounts

\* and after every step.
LEMMA NextMetaInv == TypeOK /\ SegmentInv /\ MetaInv /\ [Next]_vars => MetaInv'
<1> SUFFICES ASSUME TypeOK, SegmentInv, MetaInv, [Next]_vars PROVE MetaInv'
  OBVIOUS
<1>0. DiskTypeOK /\ WriterTypeOK
  BY TypeParts
<1>1. ASSUME NEW es, NEW hs, Write(es, hs) PROVE MetaInv'
  <2>1. Up /\ files' = files /\ disk' = disk /\ current' = current
    BY <1>1 DEF Write, Up
  <2> QED BY <2>1, SameCounts
<1>2. CASE NewSegment
  <2> DEFINE name == <<NewSegId, lastIndex + 1>>
  <2>1. /\ Up /\ files' = files /\ name \notin DOMAIN disk
        /\ disk' = [n \in DOMAIN disk \cup {name} |-> IF n = name THEN EmptyFile ELSE disk[n]]
        /\ current' = [NoWriter EXCEPT !.open = TRUE, !.name = name]
    BY <1>2 DEF NewSegment, Up
  <2>2. name[1] \notin DOMAIN files
    BY <1>0 DEF NewSegId, WriterTypeOK
  <2> HIDE DEF name
  <2>3. SegmentEntries(EmptyFile) = << >>
    BY FlattenEmpty DEF SegmentEntries, EmptyFile
  <2>4. WriterCounts'
    BY <2>1, <2>3 DEF WriterCounts, NoWriter
  <2>5. FilesCounted'
    BY <2>1, <2>2 DEF MetaInv, FilesCounted
  <2> QED BY <2>4, <2>5 DEF MetaInv
<1>3. CASE AppendBatch
  <2> DEFINE name == current.name
  <2>1. Up /\ current.open
    BY <1>3, AppendIs DEF Up
  <2>2. /\ name \in DOMAIN disk /\ DOMAIN disk' = DOMAIN disk
        /\ \A n \in DOMAIN disk \ {name} : disk'[n] = disk[n]
        /\ disk'[name].batches = Append(disk[name].batches, MakeBatch(Taken, write.hs))
        /\ MakeBatch(Taken, write.hs) \in Batches
    BY <1>3, AppendFacts
  <2>3. disk[name] \in Files
    BY <1>0, <2>2 DEF DiskTypeOK
  <2>4. SegmentEntries(disk'[name]) = SegmentEntries(disk[name]) \o MakeBatch(Taken, write.hs).entries
    BY <2>2, <2>3, SegmentEntriesGrow, Zenon
  <2>5. MakeBatch(Taken, write.hs).entries = Taken
    BY DEF MakeBatch
  <2>6. /\ SegmentEntries(disk[name]) \in Seq(Entries) /\ Taken \in Seq(Entries)
        /\ Len(Taken) = TakenNum
    BY <2>3, SegmentEntriesType, TakenFacts
  <2>7. Len(SegmentEntries(disk'[name])) = current.numEntries + TakenNum
    <3>1. current.numEntries = Len(SegmentEntries(disk[name]))
      BY <2>1 DEF MetaInv, WriterCounts
    <3>2. Len(SegmentEntries(disk[name]) \o Taken) = Len(SegmentEntries(disk[name])) + Len(Taken)
      BY <2>6
    <3> QED BY <2>4, <2>5, <2>6, <3>1, <3>2
  <2>8. /\ AppendedWriter.numEntries = current.numEntries + TakenNum
        /\ current.numEntries + TakenNum \in Nat
    BY <1>3, AppendTypes
  <2>9. CASE AppendCompletes
    <3>1. files' = files /\ current' = AppendedWriter
      BY <2>9 DEF AppendCompletes
    <3>2. AppendedWriter.name = name
      BY <1>0 DEF AppendedWriter, WriterTypeOK, Writers
    <3> HIDE DEF name
    <3>3. WriterCounts'
      BY <2>7, <2>8, <3>1, <3>2 DEF WriterCounts
    <3>4. name[1] = Len(files) + 1 /\ files \in Seq(Nat)
      BY <1>0, <2>1 DEF SegmentInv, WriterHasFile, WriterTypeOK, name
    <3>5. name[1] \notin DOMAIN files
      BY <3>4
    <3>6. FilesCounted'
      BY <2>1, <2>2, <3>1, <3>5 DEF MetaInv, FilesCounted
    <3> QED BY <3>3, <3>6 DEF MetaInv
  <2>10. CASE AppendRolls
    <3>1. files' = Append(files, current.numEntries + TakenNum) /\ current' = NoWriter
      BY <2>8, <2>10 DEF AppendRolls
    <3> QED BY <2>1, <2>2, <2>7, <2>8, <3>1, FinishCounts
  <2> QED BY <1>3, <2>9, <2>10, AppendIs
<1>4. CASE Sync
  <2>1. Up /\ current.open /\ current.name \in DOMAIN disk /\ files' = files
        /\ disk' = [disk EXCEPT ![current.name] = SyncFile(@, current)]
        /\ current' = [current EXCEPT !.pendingSync = FALSE]
    BY <1>0, <1>4 DEF Sync, WriterTypeOK, Up
  <2>2. /\ DOMAIN disk' = DOMAIN disk
        /\ \A n \in DOMAIN disk : disk'[n].batches = disk[n].batches
    BY <1>0, <2>1, SyncedDisk, Zenon
  <2>3. /\ current'.open = current.open /\ current'.name = current.name
        /\ current'.numEntries = current.numEntries
    BY <1>0, <2>1, Zenon DEF WriterTypeOK, Writers
  <2> QED BY <2>1, <2>2, <2>3, SameCounts
<1>5. CASE Close
  <2>1. Up /\ current.open /\ current.name \in DOMAIN disk
        /\ disk' = [disk EXCEPT ![current.name] = SyncFile(@, current)]
        /\ files' = Append(files, current.numEntries) /\ current' = NoWriter
    BY <1>0, <1>5 DEF Close, WriterTypeOK, FinishedFiles, Up
  <2>2. /\ DOMAIN disk' = DOMAIN disk
        /\ \A n \in DOMAIN disk : disk'[n].batches = disk[n].batches
    BY <1>0, <2>1, SyncedDisk, Zenon
  <2>3. current.numEntries \in Nat
    BY <1>0 DEF WriterTypeOK, Writers
  <2>4. current.numEntries = Len(SegmentEntries(disk'[current.name]))
    <3>1. SegmentEntries(disk'[current.name]) = SegmentEntries(disk[current.name])
      BY <2>1, <2>2, SameBatches
    <3> QED BY <2>1, <3>1 DEF MetaInv, WriterCounts
  <2> QED BY <2>1, <2>2, <2>3, <2>4, FinishCounts, Zenon
<1>6. CASE Crash \/ PowerLoss
  <2>1. ~Up' /\ current' = NoWriter
    BY <1>6, Zenon DEF Crash, PowerLoss, Up
  <2> QED BY <2>1, NullTypes DEF MetaInv, FilesCounted, WriterCounts
<1>7. CASE Recover
  <2>1. disk' = disk /\ current' = current /\ ~Up
    BY <1>7, RecoverIs
  <2>2. ~current.open
    BY <2>1 DEF SegmentInv, DownKeepsIds
  <2>3. WriterCounts'
    BY <2>1, <2>2 DEF WriterCounts
  <2>4. CASE ~Up'
    BY <2>3, <2>4 DEF MetaInv, FilesCounted
  <2>5. CASE files' = [i \in 1..NumSegs |-> Len(SegmentEntries(FileOf(disk, i)))]
    <3> SUFFICES ASSUME NEW n \in DOMAIN disk, n[1] \in DOMAIN files'
                 PROVE  files'[n[1]] = Len(SegmentEntries(disk[n]))
      BY <2>1, <2>3 DEF MetaInv, FilesCounted
    <3>1. FileOf(disk, n[1]) = disk[n]
      BY FileOfIs DEF SegmentInv, IdsUnique
    <3>2. n[1] \in 1..NumSegs
      BY <2>5
    <3> QED BY <2>5, <3>1, <3>2
  <2> QED BY <1>7, <2>4, <2>5, RecoverIs DEF Up
<1>8. CASE UNCHANGED vars
  BY <1>8 DEF vars, MetaInv, FilesCounted, WriterCounts, Up
<1> QED
  BY <1>1, <1>2, <1>3, <1>4, <1>5, <1>6, <1>7, <1>8 DEF Next

\* However segments are rolled, closed, cut by a crash and recovered: the
\* numEntries that LogManager keeps of a finished segment is the number of
\* entries in that file.
THEOREM MetadataCountsEntries == Spec => []MetaCountsEntries
<1> DEFINE Inv == TypeOK /\ SegmentInv /\ MetaInv
<1>1. Init => Inv
  BY InitTypeOK, InitSegmentInv, InitMetaInv
<1>2. Inv /\ [Next]_vars => Inv'
  BY NextTypeOK, NextSegmentInv, NextMetaInv
<1>3. Inv => MetaCountsEntries
  BY MetaByName
<1> QED
  BY <1>1, <1>2, <1>3, PTL DEF Spec

-----------------------------------------------------------------------------
(* What is written can be read *)

\* A segment with a batch has its magic, and the length that a batch without a
\* hard state declares covers what was encoded.
Fits(f) ==
  /\ f.batches # << >> => f.magic
  /\ \A i \in DOMAIN f.batches :
       f.batches[i].hs = NoHardState => EncodedSize(f.batches[i]) <= f.batches[i].len

\* The inductive invariant behind WrittenIsReadable.
BatchesFit == \A n \in DOMAIN disk : Fits(disk[n])

\* Whether the batches fit depends on the batches alone;
LEMMA FitsSame ==
  ASSUME NEW f, NEW g, Fits(f), g.batches = f.batches, f.magic => g.magic
  PROVE  Fits(g)
  BY DEF Fits

\* it holds of the batches that survive a power failure,
LEMMA FitsPrefix ==
  ASSUME NEW f \in Files, Fits(f), NEW k \in 0..Len(f.batches), NEW g, g.magic = f.magic,
         g.batches = SubSeq(f.batches, 1, k)
  PROVE  Fits(g)
<1>1. f.batches \in Seq(Batches) /\ Len(f.batches) \in Nat
  BY DEF Files
<1>2. /\ DOMAIN g.batches = 1..k
      /\ \A i \in 1..k : g.batches[i] = f.batches[i] /\ i \in DOMAIN f.batches
  BY <1>1
<1>3. g.batches # << >> => f.batches # << >>
  BY <1>1, <1>2
<1> QED BY <1>2, <1>3 DEF Fits

\* and of one more batch of Append.
LEMMA FitsAppend ==
  ASSUME NEW f \in Files, Fits(f), NEW es \in Seq(Entries), NEW hs, NEW g, g.magic,
         MakeBatch(es, hs) \in Batches, g.batches = Append(f.batches, MakeBatch(es, hs))
  PROVE  Fits(g)
<1> DEFINE b == MakeBatch(es, hs)
<1>1. b.hs = NoHardState => EncodedSize(b) <= b.len
  BY BatchFits
<1>2. b \in Batches /\ g.batches = Append(f.batches, b)
  OBVIOUS
<1> HIDE DEF b
<1>3. f.batches \in Seq(Batches) /\ Len(f.batches) \in Nat
  BY DEF Files
<1>4. /\ DOMAIN g.batches = 1..Len(f.batches) + 1
      /\ \A i \in 1..Len(f.batches) : g.batches[i] = f.batches[i] /\ i \in DOMAIN f.batches
      /\ g.batches[Len(f.batches) + 1] = b
  BY <1>2, <1>3
<1>5. ASSUME NEW i \in 1..Len(f.batches) + 1, g.batches[i].hs = NoHardState
      PROVE  EncodedSize(g.batches[i]) <= g.batches[i].len
  <2>1. CASE i = Len(f.batches) + 1
    BY <1>1, <1>4, <1>5, <2>1, Zenon
  <2>2. CASE i \in 1..Len(f.batches)
    BY <1>4, <1>5, <2>2 DEF Fits
  <2> QED BY <1>3, <2>1, <2>2
<1> QED BY <1>4, <1>5 DEF Fits

\* Every step keeps it.
LEMMA NextBatchesFit == TypeOK /\ SegmentInv /\ BatchesFit /\ [Next]_vars => BatchesFit'
<1> SUFFICES ASSUME TypeOK, SegmentInv, BatchesFit, [Next]_vars PROVE BatchesFit'
  OBVIOUS
<1>0. DiskTypeOK /\ WriterTypeOK
  BY TypeParts
<1>1. ASSUME disk' = disk PROVE BatchesFit'
  BY <1>1 DEF BatchesFit
<1>2. CASE NewSegment
  <2>1. Fits(EmptyFile)
    BY DEF Fits, EmptyFile
  <2>2. PICK name : disk' = [n \in DOMAIN disk \cup {name} |-> IF n = name THEN EmptyFile ELSE disk[n]]
    BY <1>2, Zenon DEF NewSegment
  <2> QED BY <2>1, <2>2 DEF BatchesFit
<1>3. CASE AppendBatch
  <2> DEFINE name == current.name
  <2>1. /\ name \in DOMAIN disk /\ DOMAIN disk' = DOMAIN disk
        /\ \A n \in DOMAIN disk \ {name} : disk'[n] = disk[n]
        /\ disk'[name].magic
        /\ disk'[name].batches = Append(disk[name].batches, MakeBatch(Taken, write.hs))
        /\ MakeBatch(Taken, write.hs) \in Batches
    BY <1>3, AppendFacts
  <2>2. disk[name] \in Files /\ Fits(disk[name]) /\ Taken \in Seq(Entries)
    BY <1>0, <2>1, TakenFacts, Zenon DEF DiskTypeOK, BatchesFit
  <2> HIDE DEF name
  <2>3. Fits(disk'[name])
    BY <2>1, <2>2, FitsAppend
  <2> QED BY <2>1, <2>3 DEF BatchesFit
<1>4. CASE Sync \/ Close
  <2>1. /\ current.name \in DOMAIN disk
        /\ disk' = [disk EXCEPT ![current.name] = SyncFile(@, current)]
    BY <1>0, <1>4 DEF Sync, Close, WriterTypeOK
  <2>2. /\ DOMAIN disk' = DOMAIN disk
        /\ \A n \in DOMAIN disk : disk'[n].batches = disk[n].batches /\ disk'[n].magic = disk[n].magic
    BY <1>0, <2>1, SyncedDisk, Zenon
  <2> QED BY <2>2, FitsSame DEF BatchesFit
<1>5. CASE Crash
  <2>1. /\ DOMAIN disk' = DOMAIN disk
        /\ \A n \in DOMAIN disk : disk'[n].batches = disk[n].batches /\ (disk[n].magic => disk'[n].magic)
    BY <1>5, CrashedDisk, Zenon
  <2> QED BY <2>1, FitsSame DEF BatchesFit
<1>6. CASE PowerLoss
  <2>1. /\ DOMAIN disk' = DOMAIN disk
        /\ \A n \in DOMAIN disk : /\ disk'[n].magic = disk[n].magic
                                  /\ \E k \in 0..Len(disk[n].batches) :
                                       disk'[n].batches = SubSeq(disk[n].batches, 1, k)
    BY <1>6, PowerLossDisk, Zenon
  <2>2. ASSUME NEW n \in DOMAIN disk PROVE Fits(disk'[n])
    <3>1. disk[n] \in Files /\ Fits(disk[n])
      BY <1>0 DEF DiskTypeOK, BatchesFit
    <3>2. PICK k \in 0..Len(disk[n].batches) : disk'[n].batches = SubSeq(disk[n].batches, 1, k)
      BY <2>1
    <3>3. disk'[n].magic = disk[n].magic
      BY <2>1
    <3> QED BY <3>1, <3>2, <3>3, FitsPrefix
  <2> QED BY <2>1, <2>2, Zenon DEF BatchesFit
<1>7. ASSUME (\E es, hs : Write(es, hs)) \/ Recover \/ UNCHANGED vars PROVE disk' = disk
  BY <1>7, Zenon DEF Write, Recover, vars
<1> QED
  BY <1>1, <1>2, <1>3, <1>4, <1>5, <1>6, <1>7 DEF Next

\* For every segment size and every size of entries, wherever segments end and
\* the process dies: the reader of recovery accepts every segment whose batches
\* LogWriter::Append wrote completely and without a hard state.
THEOREM WrittenSegmentsReadable == Spec => []WrittenIsReadable
<1> DEFINE Inv == TypeOK /\ SegmentInv /\ BatchesFit
<1>1. Init => Inv
  BY InitTypeOK, InitSegmentInv DEF Init, BatchesFit
<1>2. Inv /\ [Next]_vars => Inv'
  BY NextTypeOK, NextSegmentInv, NextBatchesFit
<1>3. Inv => WrittenIsReadable
  BY DEF BatchesFit, Fits, WrittenIsReadable, SegmentReadable
<1> QED
  BY <1>1, <1>2, <1>3, PTL DEF Spec

-----------------------------------------------------------------------------
(* Recovery restores the log *)

\* Unless the machine stopped, the entries on disk rebuild the acknowledged log
\* and what is done of the Write in progress.
DiskHoldsLog ==
  Up \/ status = "down" =>
    Replay(<< >>, DiskEntries) = Replay(acked, SubSeq(write.entries, 1, write.next - 1))

\* The Write in progress has entries left, and they follow the log; between two
\* Writes there is none.
WriteFollowsLog ==
  /\ status = "writing" => /\ Replay(acked, write.entries).ok
                           /\ write.next \in 1..Len(write.entries)
  /\ status = "idle" => write = NoWrite
  /\ status = "down" => write.next \in 1..Len(write.entries) + 1

\* The inductive invariant behind RecoverRestoresLog.
RestoreInv == DiskHoldsLog /\ WriteFollowsLog

\* Only the batches of the files count.
LEMMA DiskEntriesSame ==
  ASSUME TypeOK, SegmentInv, SegmentInv', DOMAIN disk' = DOMAIN disk,
         \A n \in DOMAIN disk : disk'[n].batches = disk[n].batches
  PROVE  DiskEntries' = DiskEntries
<1>1. WalIds' = WalIds
  BY Zenon DEF WalIds
<1>2. NumSegs \in Nat /\ WalIds = 1..NumSegs
  BY SegmentFiles
<1>3. ASSUME NEW i \in 1..NumSegs
      PROVE  SegmentEntries(FileOf(disk', i)) = SegmentEntries(FileOf(disk, i))
  <2>1. PICK n \in DOMAIN disk : n[1] = i
    BY <1>2, Zenon DEF WalIds
  <2>2. FileOf(disk, i) = disk[n]
    BY <2>1, FileOfIs, Zenon DEF SegmentInv, IdsUnique
  <2>3. FileOf(disk', i) = disk'[n]
    BY <2>1, FileOfIs DEF SegmentInv, IdsUnique
  <2> QED BY <2>2, <2>3, SameBatches, Zenon
<1>4. EntriesIn(disk', NumSegs) = EntriesIn(disk, NumSegs)
  BY <1>3, EntriesInSame
<1> QED BY <1>1, <1>4, Zenon DEF DiskEntries, NumSegs

\* A segment more, with the highest id: its entries come after the others.
LEMMA DiskEntriesLast ==
  ASSUME TypeOK, SegmentInv, NEW N \in Nat, NumSegs = N + 1, NEW n \in DOMAIN disk, n[1] = N + 1
  PROVE  /\ DiskEntries = EntriesIn(disk, N) \o SegmentEntries(disk[n])
         /\ EntriesIn(disk, N) \in Seq(Entries)
         /\ SegmentEntries(disk[n]) \in Seq(Entries)
<1>1. \A i \in 1..N + 1 : FileOf(disk, i) \in Files
  BY SegmentFiles
<1>2. FileOf(disk, N + 1) = disk[n]
  BY FileOfIs DEF SegmentInv, IdsUnique
<1>3. EntriesIn(disk, N + 1) = EntriesIn(disk, N) \o SegmentEntries(FileOf(disk, N + 1))
  BY <1>1, EntriesInLast
<1>4. EntriesIn(disk, N) \in Seq(Entries)
  BY <1>1, EntriesInType
<1>5. SegmentEntries(disk[n]) \in Seq(Entries)
  BY SegmentEntriesType DEF TypeOK, Files
<1> QED BY <1>2, <1>3, <1>4, <1>5, Zenon DEF DiskEntries, NumSegs

\* Every segment of the manager is a file.
LEMMA SegmentsTyped == TypeOK /\ SegmentInv => \A i \in 1..NumSegs : FileOf(disk, i) \in Files
  BY SegmentFiles

\* The same of the next state.
LEMMA DiskEntriesLastNext ==
  ASSUME TypeOK', SegmentInv', NEW N \in Nat, NumSegs' = N + 1, NEW n \in DOMAIN disk', n[1] = N + 1
  PROVE  DiskEntries' = EntriesIn(disk', N) \o SegmentEntries(disk'[n])
<1>1. \A i \in 1..N + 1 : FileOf(disk', i) \in Files
  <2>1. (\A i \in 1..NumSegs : FileOf(disk, i) \in Files)'
    BY SegmentsTyped, PTL
  <2> QED BY <2>1
<1>2. FileOf(disk', N + 1) = disk'[n]
  BY FileOfIs DEF SegmentInv, IdsUnique
<1>3. EntriesIn(disk', N + 1) = EntriesIn(disk', N) \o SegmentEntries(FileOf(disk', N + 1))
  BY <1>1, EntriesInLast
<1> QED BY <1>2, <1>3 DEF DiskEntries, NumSegs

\* The segments below the last are what they were, if their files are.
LEMMA EntriesBelowSame ==
  ASSUME SegmentInv, SegmentInv', NEW N \in Nat, 1..N \subseteq WalIds,
         DOMAIN disk \subseteq DOMAIN disk',
         \A n \in DOMAIN disk : n[1] \in 1..N => disk'[n] = disk[n]
  PROVE  EntriesIn(disk', N) = EntriesIn(disk, N)
<1>1. ASSUME NEW i \in 1..N PROVE FileOf(disk', i) = FileOf(disk, i)
  <2>1. PICK n \in DOMAIN disk : n[1] = i
    BY DEF WalIds
  <2>2. FileOf(disk, i) = disk[n]
    BY <2>1, FileOfIs DEF SegmentInv, IdsUnique
  <2>3. FileOf(disk', i) = disk'[n]
    BY <2>1, FileOfIs DEF SegmentInv, IdsUnique
  <2> QED BY <2>1, <2>2, <2>3
<1> QED BY <1>1, EntriesInSame

\* An open segment is the last one.
LEMMA OpenIsLast ==
  ASSUME TypeOK, SegmentInv, Up, current.open
  PROVE  /\ Len(files) \in Nat /\ NumSegs = Len(files) + 1 /\ WalIds = 1..Len(files) + 1
         /\ current.name \in DOMAIN disk /\ current.name[1] = Len(files) + 1
<1>1. Len(files) \in Nat /\ WalIds = 1..Len(files) + 1
  BY DEF SegmentInv, RunningCountsFiles, SegmentNum, FilesIsVector
<1>2. NumSegs = Len(files) + 1
  BY <1>1, IntervalCardinality DEF NumSegs
<1> QED BY <1>1, <1>2 DEF SegmentInv, WriterHasFile

\* Append writes what it takes after all the entries on disk.
LEMMA AppendGrows ==
  ASSUME TypeOK, SegmentInv, TypeOK', SegmentInv', AppendBatch
  PROVE  DiskEntries' = DiskEntries \o Taken
<1> DEFINE name == current.name
<1> DEFINE N == Len(files)
<1>0. Up /\ current.open
  BY AppendIs DEF Up
<1>1. /\ name \in DOMAIN disk /\ DOMAIN disk' = DOMAIN disk
      /\ \A n \in DOMAIN disk \ {name} : disk'[n] = disk[n]
      /\ disk'[name].batches = Append(disk[name].batches, MakeBatch(Taken, write.hs))
      /\ MakeBatch(Taken, write.hs) \in Batches
  BY AppendFacts
<1>2. N \in Nat /\ NumSegs = N + 1 /\ WalIds = 1..N + 1 /\ name[1] = N + 1
  BY <1>0, OpenIsLast, Zenon
<1>3. NumSegs' = N + 1
  BY <1>1, <1>2, Zenon DEF NumSegs, WalIds
<1> HIDE DEF name, N
<1>4. /\ DiskEntries = EntriesIn(disk, N) \o SegmentEntries(disk[name])
      /\ EntriesIn(disk, N) \in Seq(Entries)
      /\ SegmentEntries(disk[name]) \in Seq(Entries)
  BY <1>1, <1>2, DiskEntriesLast, Zenon
<1>5. DiskEntries' = EntriesIn(disk', N) \o SegmentEntries(disk'[name])
  BY <1>1, <1>2, <1>3, DiskEntriesLastNext
<1>6. EntriesIn(disk', N) = EntriesIn(disk, N)
  <2>1. 1..N \subseteq WalIds /\ N + 1 \notin 1..N
    BY <1>2
  <2>2. \A n \in DOMAIN disk : n[1] \in 1..N => disk'[n] = disk[n]
    BY <1>1, <1>2, <2>1, Zenon
  <2> QED BY <1>1, <1>2, <2>1, <2>2, EntriesBelowSame
<1>7. SegmentEntries(disk'[name]) = SegmentEntries(disk[name]) \o Taken
  <2>1. disk[name] \in Files
    BY <1>1, TypeParts DEF DiskTypeOK
  <2>2. MakeBatch(Taken, write.hs).entries = Taken
    BY DEF MakeBatch
  <2> QED BY <1>1, <2>1, <2>2, SegmentEntriesGrow
<1>8. Taken \in Seq(Entries)
  BY TakenFacts, Zenon
<1>9. EntriesIn(disk, N) \o (SegmentEntries(disk[name]) \o Taken)
        = (EntriesIn(disk, N) \o SegmentEntries(disk[name])) \o Taken
  BY <1>4, <1>8
<1> QED BY <1>4, <1>5, <1>6, <1>7, <1>9

\* A new segment has no entries.
LEMMA NewSegmentSame ==
  ASSUME TypeOK, SegmentInv, TypeOK', SegmentInv', NewSegment
  PROVE  DiskEntries' = DiskEntries
<1> DEFINE name == <<NewSegId, lastIndex + 1>>
<1> DEFINE N == Len(files)
<1>1. /\ disk' = [n \in DOMAIN disk \cup {name} |-> IF n = name THEN EmptyFile ELSE disk[n]]
      /\ name \notin DOMAIN disk /\ Up /\ ~current.open
  BY DEF NewSegment, Up
<1>2. N \in Nat /\ WalIds = 1..N /\ name[1] = N + 1
  BY <1>1 DEF SegmentInv, RunningCountsFiles, SegmentNum, FilesIsVector, NewSegId
<1> HIDE DEF name, N
<1>3. NumSegs = N
  BY <1>2, IntervalCardinality DEF NumSegs
<1>4. WalIds' = 1..N + 1
  <2>1. WalIds' = WalIds \cup {name[1]}
    BY <1>1 DEF WalIds
  <2> QED BY <1>2, <2>1
<1>5. NumSegs' = N + 1
  BY <1>2, <1>4, IntervalCardinality DEF NumSegs
<1>6. name \in DOMAIN disk' /\ disk'[name] = EmptyFile
  BY <1>1
<1>7. DiskEntries' = EntriesIn(disk', N) \o SegmentEntries(disk'[name])
  BY <1>2, <1>5, <1>6, DiskEntriesLastNext, Zenon
<1>8. EntriesIn(disk', N) = EntriesIn(disk, N)
  <2>1. DOMAIN disk \subseteq DOMAIN disk' /\ \A n \in DOMAIN disk : disk'[n] = disk[n]
    BY <1>1, Zenon
  <2> QED BY <1>2, <2>1, EntriesBelowSame
<1>9. SegmentEntries(disk'[name]) = << >>
  BY <1>6, FlattenEmpty DEF SegmentEntries, EmptyFile
<1>10. EntriesIn(disk, N) \in Seq(Entries)
  BY <1>2, <1>3, SegmentFiles, EntriesInType, Zenon
<1> QED BY <1>3, <1>7, <1>8, <1>9, <1>10 DEF DiskEntries, NumSegs

\* What is in all segments is a sequence of entries.
LEMMA DiskEntriesType == TypeOK /\ SegmentInv => DiskEntries \in Seq(Entries)
  BY SegmentFiles, EntriesInType DEF DiskEntries, NumSegs

\* Without a Write in progress the log on disk is the acknowledged one.
LEMMA IdleReplay ==
  ASSUME NEW log \in Seq(Entries)
  PROVE  Replay(log, SubSeq(NoWrite.entries, 1, NoWrite.next - 1)) = [ok |-> TRUE, log |-> log]
<1>1. SubSeq(NoWrite.entries, 1, NoWrite.next - 1) = << >>
  BY DEF NoWrite
<1> QED BY <1>1, ReplayEmpty, Zenon DEF FromLog

\* A replay that succeeded is its log.
LEMMA ReplayRecord ==
  ASSUME NEW r \in Replays, r.ok
  PROVE  r = [ok |-> TRUE, log |-> r.log]
  BY DEF Replays

\* A new directory holds the empty log.
LEMMA InitRestoreInv == Init => RestoreInv
<1> SUFFICES ASSUME Init PROVE RestoreInv
  OBVIOUS
<1>1. DOMAIN disk = {} /\ acked = << >> /\ write = NoWrite /\ status = "idle"
  BY DEF Init
<1>2. WalIds = {}
  BY <1>1 DEF WalIds
<1>3. Cardinality(WalIds) = 0
  BY <1>2, FS_EmptySet
<1>4. DiskEntries = << >>
  <2>1. [i \in 1..0 |-> SegmentEntries(FileOf(disk, i))] = << >>
    OBVIOUS
  <2> QED BY <1>3, <2>1, FlattenEmpty DEF DiskEntries, EntriesIn
<1>5. << >> \in Seq(Entries)
  OBVIOUS
<1>6. DiskHoldsLog
  BY <1>1, <1>4, <1>5, IdleReplay, ReplayEmpty, Zenon DEF DiskHoldsLog, FromLog
<1> QED BY <1>1, <1>6 DEF RestoreInv, WriteFollowsLog

\* A step that changes neither the entries on disk nor the log and the Write.
LEMMA SameRestore ==
  ASSUME RestoreInv, DiskEntries' = DiskEntries, UNCHANGED <<acked, write>>,
         status' = status \/ (Up /\ status' = "down")
  PROVE  RestoreInv'
<1>1. DiskHoldsLog'
  BY DEF RestoreInv, DiskHoldsLog, Up
<1>2. WriteFollowsLog'
  <2>1. NoWrite.next = 1 /\ Len(NoWrite.entries) = 0
    BY DEF NoWrite
  <2> QED BY <2>1 DEF RestoreInv, WriteFollowsLog, Up
<1> QED BY <1>1, <1>2 DEF RestoreInv

\* A prefix, and the first k elements of what follows it.
LEMMA SplitPrefix ==
  ASSUME NEW S, NEW s \in Seq(S), NEW m \in 1..Len(s), NEW k \in 0..Len(s) - m + 1
  PROVE  SubSeq(s, 1, m - 1) \o SubSeq(SubSeq(s, m, Len(s)), 1, k) = SubSeq(s, 1, (m + k) - 1)
<1> DEFINE a == SubSeq(s, 1, m - 1)
<1> DEFINE b == SubSeq(s, m, Len(s))
<1> DEFINE c == SubSeq(b, 1, k)
<1> DEFINE d == SubSeq(s, 1, (m + k) - 1)
<1>1. a \in Seq(S) /\ Len(a) = m - 1 /\ \A i \in 1..m - 1 : a[i] = s[i]
  OBVIOUS
<1>2. b \in Seq(S) /\ Len(b) = Len(s) - m + 1 /\ \A i \in 1..Len(s) - m + 1 : b[i] = s[m + i - 1]
  OBVIOUS
<1> HIDE DEF a, b
<1>3. c \in Seq(S) /\ Len(c) = k /\ \A i \in 1..k : c[i] = b[i]
  BY <1>2
<1>4. d \in Seq(S) /\ Len(d) = m + k - 1 /\ \A i \in 1..m + k - 1 : d[i] = s[i]
  OBVIOUS
<1> HIDE DEF c, d
<1>5. a \o c \in Seq(S) /\ Len(a \o c) = m + k - 1
  BY <1>1, <1>3
<1>6. ASSUME NEW i \in 1..m + k - 1 PROVE (a \o c)[i] = d[i]
  <2>1. CASE i <= m - 1
    BY <1>1, <1>3, <1>4, <2>1
  <2>2. CASE ~(i <= m - 1)
    <3>1. i - (m - 1) \in 1..k /\ i - (m - 1) \in 1..Len(s) - m + 1
      BY <2>2
    <3>2. (a \o c)[i] = c[i - (m - 1)]
      BY <1>1, <1>3, <2>2
    <3>3. c[i - (m - 1)] = s[m + (i - (m - 1)) - 1]
      BY <1>2, <1>3, <3>1, Zenon
    <3> QED BY <1>4, <3>2, <3>3
  <2> QED BY <2>1, <2>2, Zenon
<1>7. a \o c = d
  <2> DEFINE x == a \o c
  <2>1. x \in Seq(S) /\ Len(x) = Len(d) /\ \A i \in 1..Len(d) : x[i] = d[i]
    BY <1>4, <1>5, <1>6
  <2> HIDE DEF x
  <2>2. x = d
    BY <1>4, <2>1
  <2> QED BY <2>2 DEF x
<1> QED BY <1>7 DEF a, b, c, d

\* A batch more is on disk, and so much more of the Write is done.
LEMMA AppendRestore ==
  ASSUME TypeOK, SegmentInv, TypeOK', SegmentInv', RestoreInv, AppendBatch
  PROVE  RestoreInv'
<1>1. status = "writing" /\ (AppendCompletes \/ AppendRolls)
  BY AppendIs, Zenon
<1>2. /\ acked \in Seq(Entries) /\ write.entries \in Seq(Entries)
      /\ write.next \in 1..Len(write.entries) /\ Replay(acked, write.entries).ok
  BY <1>1 DEF TypeOK, RestoreInv, WriteFollowsLog
<1>3. DiskEntries \in Seq(Entries) /\ Taken \in Seq(Entries) /\ Len(Taken) = TakenNum
      /\ TakenNum \in 0..Len(RestOfWrite)
  BY DiskEntriesType, TakenFacts
<1> DEFINE done == SubSeq(write.entries, 1, write.next - 1)
<1> DEFINE next == write.next + TakenNum
<1>4. done \in Seq(Entries)
  BY <1>2
<1>5. Len(RestOfWrite) = Len(write.entries) - write.next + 1
  BY <1>2 DEF RestOfWrite
<1>6. done \o Taken = SubSeq(write.entries, 1, next - 1)
  <2>1. TakenNum \in 0..Len(write.entries) - write.next + 1
    BY <1>3, <1>5
  <2> QED BY <1>2, <2>1, SplitPrefix, Zenon DEF Taken, RestOfWrite
<1>7. Replay(<< >>, DiskEntries) = Replay(acked, done)
  BY <1>1 DEF RestoreInv, DiskHoldsLog, Up
<1>8. << >> \in Seq(Entries)
  OBVIOUS
<1> HIDE DEF done
<1>9. Replay(<< >>, DiskEntries \o Taken) = Replay(acked, done \o Taken)
  <2> DEFINE e == << >>
  <2>1. e \in Seq(Entries) /\ Replay(e, DiskEntries) = Replay(acked, done)
    BY <1>7, <1>8, Zenon
  <2> HIDE DEF e
  <2>2. Replay(e, DiskEntries \o Taken) = Replay(acked, done \o Taken)
    BY <1>2, <1>3, <1>4, <2>1, ReplayGoesOn
  <2> QED BY <2>2 DEF e
<1>10. Replay(<< >>, DiskEntries') = Replay(acked, SubSeq(write.entries, 1, next - 1))
  BY <1>6, <1>9, AppendGrows, Zenon
<1>11. CASE AppendCompletes
  <2>1. /\ TakenNum = Len(RestOfWrite) /\ status' = "idle" /\ write' = NoWrite
        /\ acked' = Replay(acked, write.entries).log
    BY <1>11 DEF AppendCompletes
  <2>2. next - 1 = Len(write.entries)
    BY <1>2, <1>5, <2>1
  <2>3. SubSeq(write.entries, 1, next - 1) = write.entries
    BY <1>2, <2>2
  <2>4. Replay(acked, write.entries) = [ok |-> TRUE, log |-> acked']
    BY <1>2, <2>1, ReplayType, ReplayRecord, Zenon
  <2>5. acked' \in Seq(Entries)
    BY <1>2, <2>1, ReplayType DEF Replays
  <2>6. Replay(acked', SubSeq(write'.entries, 1, write'.next - 1)) = [ok |-> TRUE, log |-> acked']
    BY <2>1, <2>5, IdleReplay, Zenon
  <2>7. DiskHoldsLog'
    BY <1>10, <2>3, <2>4, <2>6, Zenon DEF DiskHoldsLog
  <2> QED BY <2>1, <2>7 DEF RestoreInv, WriteFollowsLog
<1>12. CASE AppendRolls
  <2>1. /\ status' = "writing" /\ acked' = acked
        /\ write' = [write EXCEPT !.hs = NoHardState, !.next = next]
    BY <1>1, <1>12 DEF AppendRolls
  <2>2. write'.entries = write.entries /\ write'.next = next
    BY <2>1 DEF TypeOK
  <2>3. next \in 1..Len(write.entries)
    BY <1>2, <1>3, <1>12, AppendTypes
  <2>4. DiskHoldsLog'
    BY <1>10, <2>1, <2>2 DEF DiskHoldsLog
  <2>5. WriteFollowsLog'
    BY <1>2, <2>1, <2>2, <2>3 DEF WriteFollowsLog
  <2> QED BY <2>4, <2>5 DEF RestoreInv
<1> QED BY <1>1, <1>11, <1>12

\* Every step keeps the log on disk.
LEMMA NextRestoreInv ==
  /\ TypeOK /\ SegmentInv /\ RestoreInv
  /\ TypeOK' /\ SegmentInv' /\ [Next]_vars
  => RestoreInv'
<1> SUFFICES ASSUME TypeOK, SegmentInv, RestoreInv, TypeOK', SegmentInv', [Next]_vars
             PROVE  RestoreInv'
  OBVIOUS
<1>0. DiskTypeOK /\ WriterTypeOK /\ CallTypeOK
  BY TypeParts
<1>1. ASSUME NEW es \in EntryVecs(acked), NEW hs, Write(es, hs) PROVE RestoreInv'
  <2>1. disk' = disk /\ acked' = acked /\ status = "idle" /\ write = NoWrite
    BY <1>1 DEF Write, RestoreInv, WriteFollowsLog
  <2>2. DiskEntries' = DiskEntries
    BY <2>1 DEF DiskEntries, WalIds
  <2>3. CASE es = << >>
    BY <1>1, <2>1, <2>2, <2>3, SameRestore DEF Write
  <2>4. CASE es # << >>
    <3>1. write' = [entries |-> es, hs |-> hs, next |-> 1] /\ status' = "writing"
      BY <1>1, <2>4 DEF Write
    <3>2. es \in Seq(Entries) /\ Replay(acked, es).ok
      BY <1>0, <2>4, EntryVecFacts, EntryVecReplays DEF CallTypeOK
    <3>3. SubSeq(write'.entries, 1, write'.next - 1) = << >> /\ 1 \in 1..Len(es)
      BY <2>4, <3>1, <3>2
    <3>4. SubSeq(write.entries, 1, write.next - 1) = << >>
      BY <2>1 DEF NoWrite
    <3>5. DiskHoldsLog'
      BY <2>1, <2>2, <3>3, <3>4, Zenon DEF RestoreInv, DiskHoldsLog, Up
    <3>6. WriteFollowsLog'
      BY <2>1, <3>1, <3>2, <3>3 DEF WriteFollowsLog
    <3> QED BY <3>5, <3>6 DEF RestoreInv
  <2> QED BY <2>3, <2>4
<1>2. CASE NewSegment
  <2>1. DiskEntries' = DiskEntries
    BY <1>2, NewSegmentSame
  <2> QED BY <1>2, <2>1, SameRestore DEF NewSegment
<1>3. CASE AppendBatch
  BY <1>3, AppendRestore
<1>4. CASE Sync \/ Close
  <2>1. /\ current.name \in DOMAIN disk
        /\ disk' = [disk EXCEPT ![current.name] = SyncFile(@, current)]
        /\ UNCHANGED <<acked, write, status>>
    BY <1>0, <1>4 DEF Sync, Close, WriterTypeOK
  <2>2. /\ DOMAIN disk' = DOMAIN disk
        /\ \A n \in DOMAIN disk : disk'[n].batches = disk[n].batches
    BY <1>0, <2>1, SyncedDisk, Zenon
  <2>3. DiskEntries' = DiskEntries
    BY <2>2, DiskEntriesSame
  <2> QED BY <2>1, <2>3, SameRestore
<1>5. CASE Crash
  <2>1. /\ DOMAIN disk' = DOMAIN disk
        /\ \A n \in DOMAIN disk : disk'[n].batches = disk[n].batches
    BY <1>5, CrashedDisk
  <2>2. DiskEntries' = DiskEntries
    BY <2>1, DiskEntriesSame
  <2>3. Up /\ status' = "down" /\ UNCHANGED <<acked, write>>
    BY <1>5 DEF Crash, Up
  <2> QED BY <2>2, <2>3, SameRestore, Zenon
<1>6. CASE PowerLoss
  <2>1. status' = "lost"
    BY <1>6, Zenon DEF PowerLoss
  <2> QED BY <2>1 DEF RestoreInv, DiskHoldsLog, WriteFollowsLog, Up
<1>7. CASE Recover
  <2>1. disk' = disk
    BY <1>7, RecoverIs, Zenon
  <2>2. CASE status' = "corrupt"
    BY <2>2 DEF RestoreInv, DiskHoldsLog, WriteFollowsLog, Up
  <2>3. CASE /\ status' = "idle" /\ write' = NoWrite /\ Replay(<< >>, DiskEntries).ok
             /\ memstore'.log = Replay(<< >>, DiskEntries).log /\ acked' = memstore'.log
    <3>1. DiskEntries' = DiskEntries
      BY <2>1 DEF DiskEntries, WalIds
    <3>2. DiskEntries \in Seq(Entries) /\ << >> \in Seq(Entries)
      BY DiskEntriesType
    <3>3. Replay(<< >>, DiskEntries) \in Replays
      BY <3>2, ReplayType, Zenon
    <3>4. Replay(<< >>, DiskEntries) = [ok |-> TRUE, log |-> acked'] /\ acked' \in Seq(Entries)
      BY <2>3, <3>3, ReplayRecord DEF Replays
    <3>5. Replay(acked', SubSeq(write'.entries, 1, write'.next - 1)) = [ok |-> TRUE, log |-> acked']
      BY <2>3, <3>4, IdleReplay, Zenon
    <3>6. DiskHoldsLog'
      BY <3>1, <3>4, <3>5, Zenon DEF DiskHoldsLog
    <3> QED BY <2>3, <3>6 DEF RestoreInv, WriteFollowsLog
  <2> QED BY <1>7, <2>2, <2>3, RecoverIs
<1>8. CASE UNCHANGED vars
  <2>1. DiskEntries' = DiskEntries /\ UNCHANGED <<acked, write, status>>
    BY <1>8 DEF vars, DiskEntries, WalIds
  <2> QED BY <2>1, SameRestore
<1> QED
  BY <1>1, <1>2, <1>3, <1>4, <1>5, <1>6, <1>7, <1>8 DEF Next

\* For every segment size and every sequence of writes, overwrites, segment
\* rolls, closes, crashes, power failures and recoveries: a Recover that returns
\* OK after the process died hands raft the entries of every acknowledged Write
\* in their final version, and of the interrupted Write a prefix.
THEOREM RecoveryRestoresLog == Spec => RecoverRestoresLog
<1> DEFINE Inv == TypeOK /\ SegmentInv /\ RestoreInv
<1>1. Init => Inv
  BY InitTypeOK, InitSegmentInv, InitRestoreInv
<1>2. Inv /\ [Next]_vars => Inv'
  BY NextTypeOK, NextSegmentInv, NextRestoreInv, Zenon
<1>3. Inv /\ [Next]_vars => [status = "down" /\ status' = "idle" => RestoresLog]_vars
  <2> SUFFICES ASSUME Inv, [Next]_vars, status = "down", status' = "idle" PROVE RestoresLog
    OBVIOUS
  <2>1. Recover
    BY DEF Next, Write, NewSegment, AppendBatch, Sync, Close, Crash, PowerLoss, vars
  <2>2. memstore'.log = Replay(<< >>, DiskEntries).log
    BY <2>1, RecoverIs
  <2>3. Replay(<< >>, DiskEntries) = Replay(acked, SubSeq(write.entries, 1, write.next - 1))
    BY DEF RestoreInv, DiskHoldsLog
  <2>4. write.next - 1 \in 0..Len(write.entries)
    BY DEF RestoreInv, WriteFollowsLog, TypeOK
  <2> QED BY <2>2, <2>3, <2>4, Zenon DEF RestoresLog
<1> QED
  BY <1>1, <1>2, <1>3, PTL DEF Spec, RecoverRestoresLog

=============================================================================
