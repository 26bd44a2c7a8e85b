SPECIFICATION Spec
CONSTANTS
  LogSegmentSize = 40
  EntrySizes = {5, 30}
  HardStates = {h1}
  HsSize = 6
  NoHardState = NoHardState
  GarbageIndexes = {0, 7}
  MaxIndex = 2
  MaxTerm = 2
  MaxWrites = 3
  MaxSegments = 12
  PowerWrites = 0
PROPERTY RaftStateSaved
