SPECIFICATION Spec
CONSTANTS
  None = None
  FileNames = {f1}
  Temps = {t1}
  Reports <- MCReports
  MaxPrints = 2
CONSTRAINT NotRaced
CHECK_DEADLOCK FALSE
INVARIANTS
  PrintIdLifecycle
  EndEventsNameTheirPrint
  NoPhantomPrint
  EveryPrintEndsOnce
  CloudTracksPrint
