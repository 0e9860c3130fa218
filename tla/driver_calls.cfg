SPECIFICATION Spec
CONSTANTS
  Endpoints = {e1, e2}
  Networks = {n1}
  NetworkOf <- MCNetworkOf
  None = None
  MaxObjects = 2
  MaxFaults = 0
  MaxCrashes = 0
  LossyStream = TRUE
  Shutdowns = FALSE
  Recoverers = {}
CHECK_DEADLOCK FALSE
SYMMETRY Symmetry
INVARIANT TypeOK
PROPERTY LeaveStopsStarted
