---------------------------- MODULE SegmentFile ----------------------------
(***************************************************************************)
(* One log segment, byte by byte: LogWriter encodes batches and hands them *)
(* to a PosixWritableFile, whose Append loops over write(2); after the     *)
(* process ended, however it ended, ReadFullyToBuffer loops over pread(2)  *)
(* and a ReadableLogSegment decodes what it got.  Wal describes the same   *)
(* segment by sizes; VerdictIsRight says that this is all there is to it.  *)
(*                                                                         *)
(* Which of its entries a batch takes is settled in Wal (NumFitting); here *)
(* a batch is any vector of them.  A system call that was interrupted      *)
(* (EINTR) is made again and leaves no trace.                              *)
(***************************************************************************)
EXTENDS Coding

CONSTANTS
  Magic,       \* kLogSegmentHeaderMagic, as bytes
  EntryVecs,   \* the vectors of serialized entries a batch takes
  HsBytes,     \* the serialized hard state
  MaxBatches   \* bound: calls of LogWriter::Append

ASSUME BytesAssumption ==
  /\ Magic \in Seq(Byte) /\ Magic # << >>
  /\ HsBytes \in Seq(Byte) /\ EntryVecs \subseteq Seq(Seq(Byte))
  /\ MaxBatches \in Nat

VARIABLES
  data,      \* the contents of the file
  filesize,  \* PosixWritableFile::filesize_
  empty,     \* LogWriter::empty_
  src,       \* what Append(data) still has to write
  size,      \* data.size()
  next,      \* the batch LogWriter::Append was called with, until it returns
  phase,     \* "idle", "magic", "batch": the writer; then "closed" and the reader's steps
  batches,   \* history: the batches Append returned OK for
  damaged,   \* fault: a byte on the disk has changed
  buf,       \* the reader's buffer
  record,    \* what is left of the batch being decoded
  got        \* what the reader has put into the MemoryStorage

writeVars == <<data, filesize, empty, src, size, next, batches, damaged>>
readVars == <<buf, record, got>>
vars == <<writeVars, phase, readVars>>

kHardStateType == 1
kLogEntryType == 2
kRecordHeaderSize == 1
kLogBatchHeaderSize == 2 * Fixed32Bytes

-----------------------------------------------------------------------------
(* LogWriter *)

RecordOf(type, bytes) == <<type>> \o LengthPrefixed(bytes)

\* saveHardState and saveEntries.
Records(b) ==
  (IF b.hs THEN RecordOf(kHardStateType, HsBytes) ELSE << >>)
    \o FlattenSeq([i \in DOMAIN b.entries |-> RecordOf(kLogEntryType, b.entries[i])])

\* dataLen: the length prefix of the hard state is not counted.
DataLen(b) ==
  (IF b.hs THEN kRecordHeaderSize + Len(HsBytes) ELSE 0)
    + SumSeq([i \in DOMAIN b.entries |->
                kRecordHeaderSize + VarintLength(Len(b.entries[i])) + Len(b.entries[i])])

\* boost::crc_32_type (external): a checksum that a change of one byte changes.
Checksum(bytes) == SumSeq(bytes) % Width32

\* The scratch buffer has room for dataLen bytes of records; what is written
\* beyond it does not get into the file.
BatchBytes(b) ==
  LET scratch == SubSeq(Records(b), 1, DataLen(b)) IN
    EncodeFixed32(Checksum(scratch)) \o EncodeFixed32(DataLen(b)) \o scratch

\* What LogWriter::Append can be called with.
Calls == [hs : BOOLEAN, entries : EntryVecs]

\* The len field has room for the length of a batch, and the length of the hard
\* state, three small fields, takes one byte.
ASSUME LengthAssumption == Len(HsBytes) < B /\ \A b \in Calls : DataLen(b) < Width32

\* LogWriter::Append up to its first write: the magic comes before the first
\* batch of a file.
AppendBatch(b) ==
  /\ phase = "idle"
  /\ Len(batches) < MaxBatches
  /\ next' = <<b>>
  /\ phase' = IF empty THEN "magic" ELSE "batch"
  /\ src' = IF empty THEN Magic ELSE BatchBytes(b)
  /\ size' = Len(src')
  /\ UNCHANGED <<data, filesize, empty, batches, damaged, readVars>>

-----------------------------------------------------------------------------
(* PosixWritableFile *)

\* One write(2) of Append's loop: the kernel takes any part of what is left.
WriteSome(done) ==
  /\ phase \in {"magic", "batch"}
  /\ src # << >>
  /\ data' = data \o SubSeq(src, 1, done)
  /\ src' = SubSeq(src, done + 1, Len(src))
  /\ UNCHANGED <<filesize, empty, size, next, phase, batches, damaged, readVars>>

\* Mutant of Grown: what the last write(2) left is not counted.
GrownByOne == filesize + 1

\* filesize_ += data.size()
Grown == filesize + size

\* Append(data) returns; LogWriter::Append goes on with the batch after the
\* magic, and returns after the batch.
AppendReturns ==
  /\ phase \in {"magic", "batch"}
  /\ src = << >>
  /\ filesize' = Grown
  /\ IF phase = "magic"
       THEN /\ empty' = FALSE
            /\ phase' = "batch"
            /\ src' = BatchBytes(next[1])
            /\ size' = Len(src')
            /\ UNCHANGED <<next, batches>>
       ELSE /\ phase' = "idle"
            /\ batches' = batches \o next
            /\ next' = << >>
            /\ UNCHANGED <<empty, src, size>>
  /\ UNCHANGED <<data, damaged, readVars>>

\* LogWriter::Finish: Sync has nothing to do, and the file is closed.
Finish ==
  /\ phase = "idle"
  /\ phase' = "closed"
  /\ UNCHANGED <<writeVars, readVars>>

\* write(2) fails, and the process with it (FATAL_NOT_OK), or the process dies.
Die ==
  /\ phase \in {"idle", "magic", "batch"}
  /\ phase' = "closed"
  /\ UNCHANGED <<writeVars, readVars>>

-----------------------------------------------------------------------------
(* The disk (external) *)

\* What Append was asked to write, acknowledged or not, and where the bytes of
\* a batch start.
Written == batches \o next

StartOf(i) == Len(Magic) + SumSeq([j \in 1..i - 1 |-> Len(BatchBytes(Written[j]))])

\* The bytes of the len fields, which no checksum covers.
LenBytes ==
  UNION {StartOf(i) + Fixed32Bytes + 1..StartOf(i) + kLogBatchHeaderSize : i \in DOMAIN Written}

\* A byte of a closed file turns into another one.
Damage(i) ==
  /\ phase = "closed" /\ ~damaged
  /\ i \in DOMAIN data \ LenBytes
  /\ data' = [data EXCEPT ![i] = (@ + 1) % (2 * B)]
  /\ damaged' = TRUE
  /\ UNCHANGED <<filesize, empty, src, size, next, phase, batches, readVars>>

-----------------------------------------------------------------------------
(* env_util::ReadFully on a PosixRandomAccessFile *)

\* ReadFullyToBuffer opens the file and asks for its size.
OpenSegment ==
  /\ phase = "closed"
  /\ phase' = "read"
  /\ UNCHANGED <<writeVars, readVars>>

\* Mutant of ReadInto: the next read goes to the same place.
ReadIntoStays(r) == buf

ReadInto(r) == buf \o SubSeq(data, Len(buf) + 1, Len(buf) + r)

\* One pread(2) of ReadFully's loop: any part of what is left.  Nobody shortens
\* the file, so it is never nothing.
ReadSome(r) ==
  /\ phase = "read"
  /\ r \in 1..Len(data) - Len(buf)
  /\ buf' = ReadInto(r)
  /\ UNCHANGED <<writeVars, phase, record, got>>

\* pread(2) fails.
ReadError ==
  /\ phase = "read"
  /\ Len(buf) < Len(data)
  /\ phase' = "failed"
  /\ UNCHANGED <<writeVars, readVars>>

-----------------------------------------------------------------------------
(* ReadableLogSegment: buf is what its buf_ and remain_ leave to be read. *)

\* ReadFully is done: ReadHeader.
ReadHeader ==
  /\ phase = "read"
  /\ Len(buf) = Len(data)
  /\ IF Len(buf) >= Len(Magic) /\ SubSeq(buf, 1, Len(Magic)) = Magic
       THEN /\ buf' = SubSeq(buf, Len(Magic) + 1, Len(buf))
            /\ phase' = "batches"
       ELSE /\ phase' = "corrupt"
            /\ UNCHANGED buf
  /\ UNCHANGED <<writeVars, record, got>>

\* Mutant of BatchOk: the checksum is not compared.
BatchOkUnchecked(crc, len, rest) == len <= Len(rest)

\* checkRemain(len), and the checksum, which the options turn on.
BatchOk(crc, len, rest) ==
  len <= Len(rest) /\ Checksum(SubSeq(rest, 1, len)) = crc

\* Mutant of Eof: less than a header ends the segment.
EofEarly == Len(buf) < kLogBatchHeaderSize

Eof == buf = << >>

\* The loop of ReadSegmentIntoMemoryStorage, and ReadRecord up to its own loop.
ReadBatch ==
  /\ phase = "batches"
  /\ LET crc  == DecodeFixed32(buf)
         len  == DecodeFixed32(SubSeq(buf, Fixed32Bytes + 1, Len(buf)))
         rest == SubSeq(buf, kLogBatchHeaderSize + 1, Len(buf))
     IN \/ /\ Eof
           /\ phase' = "ok"
           /\ UNCHANGED <<buf, record>>
        \/ /\ ~Eof /\ Len(buf) < kLogBatchHeaderSize
           /\ phase' = "corrupt"
           /\ UNCHANGED <<buf, record>>
        \/ /\ ~Eof /\ Len(buf) >= kLogBatchHeaderSize /\ ~BatchOk(crc, len, rest)
           /\ phase' = "corrupt"
           /\ UNCHANGED <<buf, record>>
        \/ /\ ~Eof /\ Len(buf) >= kLogBatchHeaderSize /\ BatchOk(crc, len, rest)
           /\ phase' = "records"
           /\ record' = SubSeq(rest, 1, len)
           /\ buf' = SubSeq(rest, len + 1, Len(rest))
  /\ UNCHANGED <<writeVars, got>>

\* memStore_->Append or SetHardState; a record of another type is skipped.
Stored(type, bytes) ==
  IF type = kLogEntryType THEN [got EXCEPT !.entries = Append(@, bytes)]
  ELSE IF type = kHardStateType THEN [got EXCEPT !.hs = TRUE]
  ELSE got

\* One round of ReadRecord's loop.
ReadRecord ==
  /\ phase = "records"
  /\ LET field == GetLengthPrefixedSlice(Tail(record)) IN
       \/ /\ record = << >>
          /\ phase' = "batches"
          /\ UNCHANGED <<record, got>>
       \/ /\ record # << >> /\ ~field.ok
          /\ phase' = "corrupt"
          /\ UNCHANGED <<record, got>>
       \/ /\ record # << >> /\ field.ok
          /\ got' = Stored(Head(record), field.value)
          /\ record' = field.rest
          /\ UNCHANGED phase
  /\ UNCHANGED <<writeVars, buf>>

-----------------------------------------------------------------------------
Init ==
  /\ data = << >> /\ filesize = 0 /\ empty = TRUE
  /\ src = << >> /\ size = 0 /\ next = << >>
  /\ phase = "idle" /\ batches = << >> /\ damaged = FALSE
  /\ buf = << >> /\ record = << >>
  /\ got = [entries |-> << >>, hs |-> FALSE]

\* A read that has ended.
Ended == phase \in {"ok", "corrupt", "failed"} /\ UNCHANGED vars

Writer ==
  \/ \E b \in Calls : AppendBatch(b)
  \/ \E done \in 1..Len(src) : WriteSome(done)
  \/ AppendReturns
  \/ Finish
  \/ Die

Reader ==
  \/ OpenSegment
  \/ \E r \in 1..Len(data) : ReadSome(r)
  \/ ReadHeader
  \/ ReadBatch
  \/ ReadRecord

Next == Writer \/ (\E i \in DOMAIN data : Damage(i)) \/ Reader \/ ReadError \/ Ended

\* Recover is one thread, and runs until it is through; no error is owed.
Spec == Init /\ [][Next]_vars /\ WF_vars(Reader)

-----------------------------------------------------------------------------
(* Properties *)

\* Size(), from which LogWriter::Append takes the space left in the segment, is
\* the length of the file whenever Append starts, however the writes were cut.
SizeIsFileSize == phase = "idle" => filesize = Len(data)

\* All that was written is there, byte by byte, and ends with a batch.
Intact == ~damaged /\ \E k \in 0..Len(Written) : Len(data) = StartOf(k + 1)

\* The reader has stopped in the i-th batch: the next one is what buf starts with.
StoppedIn(i) == Len(buf) = Len(data) - StartOf(i + 1)

\* The reader accepts only an intact segment: a batch cut at any byte and a
\* changed byte under the checksum make it Corruption.  An intact segment it
\* refuses at most in a batch with a hard state, for which Append reserves too
\* little (Wal!RaftStateSaved); whatever else Append wrote can be decoded.
VerdictIsRight ==
  /\ phase = "ok" => Intact
  /\ phase = "corrupt" /\ Intact => \E i \in DOMAIN Written : Written[i].hs /\ StoppedIn(i)

EntriesOf(bs) == FlattenSeq([i \in DOMAIN bs |-> bs[i].entries])

\* The entries put into the MemoryStorage are, in order, the first of those
\* written, also when the segment turns out corrupt later; and if it does not,
\* every entry of a batch that Append acknowledged is among them.
ReadsBackWritten ==
  /\ IsPrefix(got.entries, EntriesOf(Written))
  /\ phase = "ok" => Len(got.entries) >= Len(EntriesOf(batches))

\* coding.cc: what an Encode function made of any value, Get or Decode gives
\* back, whatever follows it; a varint that is cut is refused, and VarintLength
\* is its length.  No variable is in this, so it is enough to ask at the start.
CodingRoundTrips == data = << >> /\ phase = "idle" =>
  /\ \A v \in 0..Width32 - 1 :
       LET code == EncodeVarint32(v) IN
         /\ GetVarint32(code \o Magic) = [ok |-> TRUE, value |-> v, rest |-> Magic]
         /\ \A n \in 0..Len(code) - 1 : ~GetVarint32(SubSeq(code, 1, n)).ok
         /\ code = EncodeVarint64(v) /\ Len(code) = VarintLength(v)
         /\ DecodeFixed32(EncodeFixed32(v) \o Magic) = v
  /\ \A k \in 1..Groups64 : \A v \in {Pow(B, k) - 1, Pow(B, k), Width64 - Pow(B, k)} :
       v \in 0..Width64 - 1 =>
         LET code == EncodeVarint64(v) IN
           /\ GetVarint64(code \o Magic) = [ok |-> TRUE, value |-> v, rest |-> Magic]
           /\ \A n \in 0..Len(code) - 1 : ~GetVarint64(SubSeq(code, 1, n)).ok
           /\ Len(code) = VarintLength(v)
           /\ DecodeFixed64(EncodeFixed64(v) \o Magic) = v

\* Reading a segment ends, however short the reads are and whatever is in it.
ReaderEnds == phase = "closed" ~> phase \in {"ok", "corrupt", "failed"}
=============================================================================
