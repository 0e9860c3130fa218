SPECIFICATION HistorySpec
CONSTANTS
  Endpoints = {e1}
  Networks = {n1}
  NetworkOf <- MCNetworkOf
  None = None
  MaxObjects = 3
  MaxFaults = 1
  MaxCrashes = 2
  LossyStream = TRUE
  Shutdowns = TRUE
  Recoverers = {"initial", "watchdog"}
CHECK_DEADLOCK FALSE
INVARIANT SupervisorOwnership
INVARIANT SupervisorReachable
INVARIANT NoLostWakeup
INVARIANT NetworkRegistered
PROPERTY RegistrationNeverOverwritten
PROPERTY UnregistersOnlyFailed
PROPERTY GoesByContract
