SPECIFICATION FairSpec
CONSTANTS
  Endpoints = {e1}
  Networks = {n1}
  NetworkOf <- MCNetworkOf
  None = None
  MaxObjects = 4
  MaxFaults = 2
  MaxCrashes = 1
  LossyStream = FALSE
  Shutdowns = TRUE
  Recoverers = {"watchdog"}
CHECK_DEADLOCK FALSE
PROPERTY EventuallyConnected
PROPERTY OrphansReconnected
