SPECIFICATION FairSpec
CONSTANTS
  Callers = {c1, c2}
  Versions = {v1, v2}
  None = None
  MaxFaults = 2
  MaxCrashes = 1
CHECK_DEADLOCK FALSE
INVARIANT CacheInv
INVARIANT GivenComplete
INVARIANT OneVersion
PROPERTY NeverRewritten
PROPERTY Answered
