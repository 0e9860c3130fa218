SPECIFICATION Spec
CONSTANTS
  Endpoints = {e1}
  Networks = {n1}
  NetworkOf <- MCNetworkOf
  None = None
  MaxObjects = 1
  MaxFaults = 0
  MaxCrashes = 0
  LossyStream = FALSE
  Shutdowns = FALSE
  Recoverers = {}
CHECK_DEADLOCK FALSE
INVARIANT LeaveStopsSupervisor
