SPECIFICATION FairSpec
CONSTANTS
  Callers = {c1}
  Topics = {info, file}
  Unasked = {info}
  NoCaller = NoCaller
  Main = Main
  MaxWire = 2
  MaxAttempts = 2
INVARIANTS
  HandlerRestored
  AnswerIsOwn
  FilesAccounted
PROPERTIES
  CallsReturn
  Resubscribes
