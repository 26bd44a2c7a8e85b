SPECIFICATION Spec
CONSTANTS
  Writers = {w1}
  Raft = raft
  MaxIndex = 2
  MaxTerm = 2
INVARIANT AckedIsOwnEntry
