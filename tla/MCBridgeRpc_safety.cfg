SPECIFICATION FairSpec
CONSTANTS
  Clients = {c1, c2}
  Objects <- MCObjects
  MaxRequests = 2
  MaxConns = 2
INVARIANTS SubsLive RepliesInOrder CommandsOnce
PROPERTY Answered
CHECK_DEADLOCK FALSE
