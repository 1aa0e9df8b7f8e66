\* Two devices of a user and two names for a topic.
CONSTANTS
  Devices = {d1, d2}
  Names = {n1, n2}
  Permissions = {deny, read}
  None = None
  MaxChanges = 2
  MaxLoads = 1
  MaxFaults = 1
SPECIFICATION Spec
INVARIANT DetailsReachDevices
CHECK_DEADLOCK FALSE
