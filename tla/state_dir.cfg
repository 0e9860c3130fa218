SPECIFICATION FairSpec
CONSTANTS
  Users = {u1, u2}
  Keys = {k1, k2}
  None = None
  Torn = Torn
  Nodes = {n1, n2}
  MaxFaults = 2
  MaxCrashes = 1
CHECK_DEADLOCK FALSE
PROPERTY KeepsContract
INVARIANT SocketIsOwn
INVARIANT RunsItsIdentity
PROPERTY IdentityKept
PROPERTY HashStaysTrue
PROPERTY Reconnects
