--------------------------------- MODULE Wal ---------------------------------
(***************************************************************************)
(* The write-ahead log: LogManager, its LogWriter, the segment reader used *)
(* by recovery, and the PosixWritableFile below them.                      *)
(*                                                                         *)
(* A segment file is a magic, then batches; a batch is a header with the   *)
(* declared length of its data, then records (a hard state, log entries).  *)
(* Bytes are kept only as sizes: they decide where a segment ends and      *)
(* whether the reader gets as much as the writer encoded.                  *)
(*                                                                         *)
(* The caller (ReadyFlusher) writes from one thread, so one Write is in    *)
(* progress at a time.  Its steps are separate because the process may die *)
(* between two system calls.                                               *)
(***************************************************************************)
EXTENDS SeqFolds, FiniteSetsExt

CONSTANTS
  LogSegmentSize,   \* options.log_segment_size, in bytes
  EntrySizes,       \* the ByteSize() a log entry may have
  HardStates,       \* hard states raft may ask to save ({}: none)
  HsSize,           \* ByteSize() of a hard state
  NoHardState,      \* the null HardState pointer
  GarbageIndexes,   \* what *std::prev(begin) may read as an index
  MaxIndex,         \* bound: highest log index
  MaxTerm,          \* bound: highest term
  MaxWrites,        \* bound: calls of Write
  MaxSegments,      \* bound: segment files
  PowerWrites       \* bound: the machine, not only the process, may stop before so many writes

ASSUME SizeAssumption ==
  /\ LogSegmentSize \in Nat
  /\ EntrySizes \subseteq Nat
  /\ HsSize \in Nat

ASSUME HardStateAssumption == NoHardState \notin HardStates

ASSUME BoundAssumption ==
  /\ MaxIndex \in Nat
  /\ MaxTerm \in Nat
  /\ MaxWrites \in Nat
  /\ MaxSegments \in Nat
  /\ GarbageIndexes \subseteq Nat
  /\ PowerWrites \in Nat

VARIABLES
  disk,       \* file name <<segId, segStart>> -> contents
  files,      \* LogManager::files_, as the numEntries of each
  current,    \* LogManager::current_
  lastIndex,  \* LogManager::lastIndex_
  status,     \* what the process is doing
  write,      \* the Write in progress: its arguments and the next entry
  memstore,   \* what Recover handed to raft
  acked,      \* history: the log that Write acknowledged
  saved,      \* history: the hard state that Write was given last
  writes      \* number of Write calls, for the bound

vars == <<disk, files, current, lastIndex, status, write, memstore, acked, saved, writes>>

Terms == 1..MaxTerm

MagicSize == 10

kLogBatchHeaderSize == 8

kRecordHeaderSize == 1

\* The bytes of v as a varint; a length is at most 32 bits wide.
VarintLength(v) == 1 + Cardinality({k \in 1..4 : v >= 128^k})

\* A record on disk: a type byte and a length-prefixed string.
RecordSize(n) == kRecordHeaderSize + VarintLength(n) + n

-----------------------------------------------------------------------------
(* Memory storage (yaraft, external) *)

EmptyStore == [log |-> << >>, hs |-> NoHardState]

\* MemoryStorage::Append: an entry replaces the suffix it conflicts with; one
\* past the end is a missing entry, which the storage refuses.  Append is only
\* applied to entries with an index above the dummy entry's.
MemAppend(s, e) ==
  IF s.ok /\ e.index <= Len(s.log) + 1
    THEN [ok |-> TRUE, log |-> SubSeq(s.log, 1, e.index - 1) \o <<e>>]
    ELSE [ok |-> FALSE, log |-> s.log]

Replay(log, entries) == FoldLeft(MemAppend, [ok |-> TRUE, log |-> log], entries)

-----------------------------------------------------------------------------
(* LogWriter *)

\* Mutant of NoWriter: the entry count does not start at zero.
NoWriterMiscounts == [open |-> FALSE, name |-> <<0, 0>>, size |-> 0, numEntries |-> 1,
                      pendingSync |-> FALSE]

\* No writer; also the fields a new one starts from.
NoWriter == [open |-> FALSE, name |-> <<0, 0>>, size |-> 0, numEntries |-> 0,
             pendingSync |-> FALSE]

EmptyFile == [magic |-> FALSE, batches |-> << >>, torn |-> FALSE, synced |-> 0]

\* Mutant of NewSegId: the id of the last finished segment.
NewSegIdReused == Len(files)

\* LogWriter::New names a segment after the number of finished ones.
NewSegId == Len(files) + 1

\* The bytes Append reserves for a hard state: the length of its varint prefix
\* is not among them.
HardStateBytes(hs) == IF hs = NoHardState THEN 0 ELSE kRecordHeaderSize + HsSize

\* Mutant of TotalSize: the length prefix of an entry is forgotten too.
TotalSizeNoPrefix(entries, hs) ==
  FoldLeft(LAMBDA sum, e : sum + kRecordHeaderSize + e.size,
           kLogBatchHeaderSize + HardStateBytes(hs), entries)

\* The size of a batch of these entries, as Append adds it up.
TotalSize(entries, hs) ==
  FoldLeft(LAMBDA sum, e : sum + RecordSize(e.size),
           kLogBatchHeaderSize + HardStateBytes(hs), entries)

\* `totalSize < remains` compares a size_t with an ssize_t, so a negative
\* `remains` is taken for a huge one.
LessThanRemains(totalSize, remains) == remains < 0 \/ totalSize < remains

\* How many entries Append takes: it adds one while the batch so far is below
\* the space left, so the last one may overshoot the segment.
NumFitting(entries, hs, remains) ==
  Cardinality({k \in 1..Len(entries) :
                 LessThanRemains(TotalSize(SubSeq(entries, 1, k - 1), hs), remains)})

\* The batch Append writes: its records, and the length its header declares.
MakeBatch(entries, hs) ==
  [hs |-> hs, entries |-> entries,
   len |-> TotalSize(entries, hs) - kLogBatchHeaderSize]

-----------------------------------------------------------------------------
(* LogManager *)

NoWrite == [entries |-> << >>, hs |-> NoHardState, next |-> 1]

\* Vectors raft may hand over: no hole after the log, and an entry that is
\* already there is written again only with a higher term.
EntryVec(first, t, sizes) ==
  [i \in DOMAIN sizes |-> [index |-> first + i - 1, term |-> t, size |-> sizes[i]]]

Follows(v, log) ==
  LET first == v[1].index IN
    /\ Last(v).index <= MaxIndex
    /\ first <= Len(log) => v[1].term > log[first].term
    /\ first > 1 => v[1].term >= log[first - 1].term

EntryVecs(log) ==
  {v \in {EntryVec(first, t, sizes) : first \in 1..Len(log) + 1, t \in Terms,
                                      sizes \in SeqOf(EntrySizes, MaxIndex)} :
     v # << >> => Follows(v, log)}

\* LogManager::Write: without entries it returns at once, and a hard state
\* given with none is not written.
Write(entries, hs) ==
  /\ status = "idle"
  /\ writes < MaxWrites
  /\ writes' = writes + 1
  /\ saved' = IF hs = NoHardState THEN saved ELSE hs
  /\ \/ /\ entries = << >>
        /\ UNCHANGED <<status, write>>
     \/ /\ entries # << >>
        /\ write' = [entries |-> entries, hs |-> hs, next |-> 1]
        /\ status' = "writing"
  /\ UNCHANGED <<disk, files, current, lastIndex, memstore, acked>>

\* doWrite without a writer: LogWriter::New creates the file, with a mode that
\* fails on an existing one (SegmentIdsContiguous: the name is never taken).
NewSegment ==
  /\ status = "writing"
  /\ ~current.open
  /\ Len(files) < MaxSegments
  /\ LET name == <<NewSegId, lastIndex + 1>> IN
       /\ name \notin DOMAIN disk
       /\ disk' = [n \in DOMAIN disk \cup {name} |->
                     IF n = name THEN EmptyFile ELSE disk[n]]
       /\ current' = [NoWriter EXCEPT !.open = TRUE, !.name = name]
  /\ UNCHANGED <<files, lastIndex, status, write, memstore, acked, saved, writes>>

\* PosixWritableFile::Sync: fdatasync only when pending_sync_ is set, which
\* Append never does.
SyncFile(file, w) ==
  IF w.pendingSync THEN [file EXCEPT !.synced = Len(file.batches)] ELSE file

\* Mutant of FinishedFiles: the metadata of the segment is dropped.
FilesUnchanged(numEntries) == files

\* finishCurrentWriter: the finished segment joins files_.
FinishedFiles(numEntries) == Append(files, numEntries)

\* doWrite with a writer: one LogWriter::Append, then either the write is
\* complete or the segment is finished and the loop goes on after the entry the
\* returned iterator points at.
AppendBatch ==
  /\ status = "writing"
  /\ current.open
  /\ LET size0   == IF current.size = 0 THEN MagicSize ELSE current.size
         rest    == SubSeq(write.entries, write.next, Len(write.entries))
         n       == NumFitting(rest, write.hs, LogSegmentSize - size0)
         taken   == SubSeq(rest, 1, n)
         file    == [disk[current.name] EXCEPT
                       !.magic = TRUE,
                       !.batches = Append(@, MakeBatch(taken, write.hs))]
         writer  == [current EXCEPT
                       !.size = size0 + TotalSize(taken, write.hs),
                       !.numEntries = @ + n]
         it      == write.next + n
     IN \/ /\ n = Len(rest)
           /\ disk' = [disk EXCEPT ![current.name] = file]
           /\ current' = writer
           /\ status' = "idle"
           /\ acked' = Replay(acked, write.entries).log
           /\ write' = NoWrite
           /\ UNCHANGED <<files, lastIndex>>
        \/ /\ n < Len(rest)
           /\ lastIndex' \in IF it = 1 THEN GarbageIndexes
                             ELSE {write.entries[it - 1].index}
           /\ disk' = [disk EXCEPT ![current.name] = SyncFile(file, writer)]
           /\ files' = FinishedFiles(writer.numEntries)
           /\ current' = NoWriter
           /\ write' = [write EXCEPT !.hs = NoHardState, !.next = it]
           /\ UNCHANGED <<status, acked>>
  /\ UNCHANGED <<memstore, saved, writes>>

\* LogManager::Sync.
Sync ==
  /\ status = "idle"
  /\ current.open
  /\ disk' = [disk EXCEPT ![current.name] = SyncFile(@, current)]
  /\ current' = [current EXCEPT !.pendingSync = FALSE]
  /\ UNCHANGED <<files, lastIndex, status, write, memstore, acked, saved, writes>>

\* LogManager::Close, also run by the destructor: finishCurrentWriter.
Close ==
  /\ status = "idle"
  /\ current.open
  /\ disk' = [disk EXCEPT ![current.name] = SyncFile(@, current)]
  /\ files' = FinishedFiles(current.numEntries)
  /\ current' = NoWriter
  /\ UNCHANGED <<lastIndex, status, write, memstore, acked, saved, writes>>

-----------------------------------------------------------------------------
(* Failures and recovery *)

\* The process dies.  In the middle of a Write the file being written may hold
\* nothing of the system call in progress, the magic alone, or a part of it.
Crash ==
  /\ status \in {"idle", "writing"}
  /\ LET f == disk[current.name]
         torn == IF status = "writing" /\ current.open
                   THEN {f, [f EXCEPT !.magic = TRUE], [f EXCEPT !.torn = TRUE]}
                   ELSE {}
     IN \/ UNCHANGED disk
        \/ \E g \in torn : disk' = [disk EXCEPT ![current.name] = g]
  /\ status' = "down"
  /\ files' = << >>
  /\ current' = NoWriter
  /\ lastIndex' = 0
  /\ UNCHANGED <<write, memstore, acked, saved, writes>>

\* The machine stops: of each file some prefix that holds at least what was
\* synced is left, possibly with a part of the next batch.
PowerLoss ==
  /\ writes < PowerWrites
  /\ \E keep \in [DOMAIN disk -> 0..Max({0} \cup {Len(disk[n].batches) : n \in DOMAIN disk})],
        torn \in [DOMAIN disk -> BOOLEAN] :
       /\ \A n \in DOMAIN disk : keep[n] \in disk[n].synced..Len(disk[n].batches)
       /\ disk' = [n \in DOMAIN disk |->
                     [disk[n] EXCEPT !.batches = SubSeq(@, 1, keep[n]),
                                     !.torn = @ \/ torn[n]]]
  /\ status' = "lost"
  /\ files' = << >>
  /\ current' = NoWriter
  /\ lastIndex' = 0
  /\ UNCHANGED <<write, memstore, acked, saved, writes>>

\* The bytes saveHardState and saveEntries encoded into a batch.
EncodedSize(b) ==
  FoldLeft(LAMBDA sum, e : sum + RecordSize(e.size),
           IF b.hs = NoHardState THEN 0 ELSE RecordSize(HsSize), b.entries)

\* ReadHeader and ReadRecord succeed on a file: the magic is there, no batch is
\* cut, and in every batch the last record ends where the data does.
SegmentReadable(f) ==
  /\ f.magic
  /\ ~f.torn
  /\ \A i \in DOMAIN f.batches : EncodedSize(f.batches[i]) <= f.batches[i].len

SegmentEntries(f) == FlattenSeq([i \in DOMAIN f.batches |-> f.batches[i].entries])

\* The map `wals`: segment ids in increasing order, with one file for each.
WalIds == {n[1] : n \in DOMAIN disk}
WalFile(id) == disk[CHOOSE n \in DOMAIN disk : n[1] = id]

\* Mutant of Wals: the newest segment first.
WalsDescending == [i \in 1..Cardinality(WalIds) |->
                     CHOOSE id \in WalIds : Cardinality({j \in WalIds : j > id}) = i - 1]

Wals == [i \in 1..Cardinality(WalIds) |->
           CHOOSE id \in WalIds : Cardinality({j \in WalIds : j < id}) = i - 1]

\* LogManager::Recover, reading every segment into a new MemoryStorage; the
\* first error ends it, and the process with it.
Recover ==
  /\ status \in {"down", "lost", "corrupt"}
  /\ LET wals    == Wals
         segs    == [i \in DOMAIN wals |-> WalFile(wals[i])]
         log     == Replay(<< >>, FlattenSeq([i \in DOMAIN segs |-> SegmentEntries(segs[i])]))
         batches == FlattenSeq([i \in DOMAIN segs |-> segs[i].batches])
         hss     == {i \in DOMAIN batches : batches[i].hs # NoHardState}
         store   == [log |-> log.log,
                     hs |-> IF hss = {} THEN NoHardState ELSE batches[Max(hss)].hs]
     IN \/ /\ \A i \in DOMAIN segs : SegmentReadable(segs[i])
           /\ log.ok
           /\ memstore' = store
           /\ acked' = store.log
           /\ saved' = store.hs
           /\ files' = [i \in DOMAIN segs |-> Len(SegmentEntries(segs[i]))]
           /\ write' = NoWrite
           /\ status' = "idle"
        \/ /\ ~log.ok \/ \E i \in DOMAIN segs : ~SegmentReadable(segs[i])
           /\ status' = "corrupt"
           /\ UNCHANGED <<memstore, acked, saved, files, write>>
  /\ UNCHANGED <<disk, current, lastIndex, writes>>

Init ==
  /\ disk = << >>
  /\ files = << >>
  /\ current = NoWriter
  /\ lastIndex = 0
  /\ status = "idle"
  /\ write = NoWrite
  /\ memstore = EmptyStore
  /\ acked = << >>
  /\ saved = NoHardState
  /\ writes = 0

Next ==
  \/ \E es \in EntryVecs(acked), hs \in HardStates \cup {NoHardState} : Write(es, hs)
  \/ NewSegment
  \/ AppendBatch
  \/ Sync
  \/ Close
  \/ Crash
  \/ PowerLoss
  \/ Recover

\* The loop of doWrite is straight-line code of one thread.
Spec == Init /\ [][Next]_vars /\ WF_vars(NewSegment) /\ WF_vars(AppendBatch)

-----------------------------------------------------------------------------
(* Properties *)

Up == status \in {"idle", "writing"}

Entries == [index : 1..MaxIndex, term : Terms, size : EntrySizes]
HardStateOrNull == HardStates \cup {NoHardState}
Stores == [log : Seq(Entries), hs : HardStateOrNull]
Batches == [hs : HardStateOrNull, entries : Seq(Entries), len : Nat]

\* The state of LogManager, its writer, the files and the Write in progress.
TypeOK ==
  /\ DOMAIN disk \subseteq (Nat \ {0}) \X (Nat \ {0})
  /\ \A n \in DOMAIN disk :
       disk[n] \in [magic : BOOLEAN, batches : Seq(Batches), torn : BOOLEAN, synced : Nat]
  /\ files \in Seq(Nat)
  /\ current \in [open : BOOLEAN, name : Nat \X Nat, size : Nat, numEntries : Nat,
                  pendingSync : BOOLEAN]
  /\ current.open => current.name \in DOMAIN disk
  /\ lastIndex \in Nat
  /\ status \in {"idle", "writing", "down", "lost", "corrupt"}
  /\ write \in [entries : Seq(Entries), hs : HardStateOrNull, next : Nat \ {0}]
  /\ memstore \in Stores
  /\ acked \in Seq(Entries)
  /\ saved \in HardStateOrNull
  /\ writes \in 0..MaxWrites

\* A running LogManager counts exactly the segment files there are, with ids
\* from 1 without a gap, and its writer has the last one; so the name
\* LogWriter::New asks for (files_.size() + 1) is always free, also after a
\* restart in the middle of a roll.
SegmentIdsContiguous ==
  Up => /\ WalIds = 1..Len(files) + (IF current.open THEN 1 ELSE 0)
        /\ \A m, n \in DOMAIN disk : m[1] = n[1] => m = n
        /\ current.open => current.name[1] = Len(files) + 1

\* The numEntries of every finished segment, whether the writer counted it or
\* recovery did, is the number of entries in that file.
MetaCountsEntries ==
  Up => \A i \in DOMAIN files : files[i] = Len(SegmentEntries(WalFile(i)))

\* Whatever LogWriter::Append wrote completely the segment reader accepts, if
\* no hard state was given with it, wherever the segment ended and however often
\* the process died; RaftStateSaved is about the hard states.
WrittenIsReadable ==
  \A n \in DOMAIN disk :
    /\ disk[n].batches # << >> /\ ~disk[n].torn
    /\ \A i \in DOMAIN disk[n].batches : disk[n].batches[i].hs = NoHardState
    => SegmentReadable(disk[n])

\* What recovery owes to a log that crashed: the entries of every acknowledged
\* Write in their final version, and of the interrupted Write a prefix.
RestoresLog ==
  \E k \in 0..Len(write.entries) :
    memstore'.log = Replay(acked, SubSeq(write.entries, 1, k)).log

\* If the process died, a Recover that returns OK restores the log, over any
\* number of segment rolls, overwrites, restarts and earlier power failures.
RecoverRestoresLog == [][status = "down" /\ status' = "idle" => RestoresLog]_vars

\* ready_flusher.cc: after Write "states have already been persisted": also when
\* the machine stopped, a Recover that returns OK restores the log.
PowerLossKeepsLog == [][status = "lost" /\ status' = "idle" => RestoresLog]_vars

\* wal.h:53, of Write: "Save log entries and raft state into underlying storage."
\* If the process died with no Write in progress, Recover returns OK with the hard
\* state that Write was given last, with entries or without.
RaftStateSaved ==
  [][status = "down" /\ write = NoWrite => status' = "idle" /\ memstore'.hs = saved]_vars

\* doWrite ends: rolling segments, also for entries larger than a segment.
WriteTerminates == status = "writing" ~> status # "writing"
=============================================================================
