SPECIFICATION Spec
CONSTANTS
  Addrs = {p1, p2, p3}
  Null = Null
  Free = Free
  Payloads <- MCPayloads
  IntMod = 512
  LongMod = 65536
  Objs = {a, b}
  Numbers = {300}
  Streams <- MCStreams
  MaxUnknown = 2
SYMMETRY ObjSymmetry
INVARIANT OwnedOnce
INVARIANT UnsetIsDefault
INVARIANT ResultIsJoin
INVARIANT SizeIsExact
INVARIANT ParsedCodeIsValid
