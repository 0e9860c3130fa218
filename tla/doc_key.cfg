SPECIFICATION Spec
CONSTANTS
  Users = {u1}
  Keys = {k1, k2}
  None = None
  Torn = Torn
  Nodes = {n1, n2}
  MaxFaults = 0
  MaxCrashes = 1
CHECK_DEADLOCK FALSE
INVARIANT KeyChangeRegisters
