SPECIFICATION FairSpec
CONSTANTS
  None = None
  FileNames = {f1}
  Temps = {t1}
  Reports <- MCFewReports
  MaxPrints = 2
CHECK_DEADLOCK FALSE
INVARIANT OverlapDrawsOneMore
PROPERTIES
  CloudCatchesUp
  StopEnds
