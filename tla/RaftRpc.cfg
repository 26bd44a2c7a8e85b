SPECIFICATION Spec
CONSTANTS
  Addrs = {p1}
  Null = Null
  Free = Free
  Payloads <- MCPayloads
  IntMod = 512
  LongMod = 65536
  StepCalls = {s1}
  StatusCalls = {t1}
  WriteCalls = {w1, w2}
  Workers = 2
  Members = {1, 2, 3}
  Self = 1
  NodeStates <- MCNodeStates
INVARIANT TypeOK
INVARIANT HandlerOutlivesTask
INVARIANT SteppedAtMostOnce
INVARIANT AnswerMeansStepped
PROPERTY ServedUnlessHeld
CHECK_DEADLOCK FALSE
