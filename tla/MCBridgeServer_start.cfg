SPECIFICATION Spec
CONSTANTS
  Clients = {c1}
  Kinds <- MCUpdates
  MaxReports = 1
  MaxWire = 1
  None = None
INVARIANT StartedServes
CHECK_DEADLOCK FALSE
