SPECIFICATION Spec
CONSTANTS
  Callers = {c1}
  Topics = {info, file}
  Unasked = {info}
  NoCaller = NoCaller
  Main = Main
  MaxWire = 1
  MaxAttempts = 1
INVARIANT EveryReportReceived
