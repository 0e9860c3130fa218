SPECIFICATION Spec
CONSTANTS
  Callers = {c1}
  Versions = {v1}
  None = None
  MaxFaults = 0
  MaxCrashes = 1
CHECK_DEADLOCK FALSE
INVARIANT DownloadedIsWhole
