SPECIFICATION Spec
CONSTANTS
  Logs = {l1, l2}
  Common = common
INVARIANT SharingIsSafe
