SPECIFICATION Spec
CONSTANTS
  N = 3
  Wrap = 4
  Capacity = 3
  maxRetries = 2
  startRetries = 3
  Fallback = 2
  MaxDamage = 0
  MaxDelayed = 3
CHECK_DEADLOCK FALSE
INVARIANT ActiveNotCut
