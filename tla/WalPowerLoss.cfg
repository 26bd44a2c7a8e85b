SPECIFICATION Spec
CONSTANTS
  LogSegmentSize = 40
  EntrySizes = {5, 30}
  HardStates = {}
  HsSize = 6
  NoHardState = NoHardState
  GarbageIndexes = {0, 7}
  MaxIndex = 2
  MaxTerm = 2
  MaxWrites = 2
  MaxSegments = 12
  PowerWrites = 3
PROPERTY PowerLossKeepsLog
