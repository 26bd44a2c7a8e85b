SPECIFICATION Spec
CONSTANTS
  Logs = {l1, l2}
  Common = common
INVARIANT TypeOK
INVARIANT TouchesOnlyLive
PROPERTY NewReturns
PROPERTY DestructorReturns
PROPERTY EveryLogVisited
