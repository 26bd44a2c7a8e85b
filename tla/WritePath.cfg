SPECIFICATION Spec
CONSTANTS
  Writers = {w1, w2}
  Raft = raft
  MaxIndex = 3
  MaxTerm = 2
INVARIANT TypeOK
INVARIANT AckedPrefixPersisted
INVARIANT AtMostOneAnswer
INVARIANT MemStoreIsPersisted
INVARIANT ResponsesPersisted
INVARIANT FirstLeaderAcksOwn
PROPERTY ImplementsLog
PROPERTY EventuallyPersisted
