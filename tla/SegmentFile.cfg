SPECIFICATION Spec
CONSTANTS
  B = 4
  Fixed32Bytes = 3
  Fixed64Bytes = 6
  Groups32 = 5
  Groups64 = 9
  Magic <- MCMagic
  EntryVecs <- MCEntryVecs
  HsBytes <- MCHs
  MaxBatches = 2
INVARIANT SizeIsFileSize
INVARIANT VerdictIsRight
INVARIANT ReadsBackWritten
INVARIANT CodingRoundTrips
PROPERTY ReaderEnds
