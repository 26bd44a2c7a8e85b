SPECIFICATION Spec
CONSTANTS
  Clients = {c1, c2, c3}
  RawPaths <- MCPaths
  BadPath = BadPath
  Values = {v1, v2}
  NoData = NoData
  MaxInFlight = 2
  MaxRestarts = 1
  MaxChanges = 1
CHECK_DEADLOCK FALSE
INVARIANT TypeOK
INVARIANT StoreMatchesRequests
INVARIANT ReadsAreCurrent
SYMMETRY ClientSymmetry
