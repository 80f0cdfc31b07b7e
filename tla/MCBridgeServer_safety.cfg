SPECIFICATION FairSpec
CONSTANTS
  Clients = {c1}
  Kinds <- MCUpdates
  MaxReports = 3
  MaxWire = 1
  None = None
INVARIANTS OneCall HooksFollow InSync
PROPERTIES FeedInOrder ServedForward GetsCurrent
CHECK_DEADLOCK FALSE
