SPECIFICATION MCSpec
CONSTANTS
  Keys <- MCKeys
  NoKey = NoKey
  Unset = Unset
  MaxStarts = 3
  MaxBackoff = 2
  Strings <- MCStrings
  Fewer <- MCFewer
  Numbers <- MCNumbers
  Extra <- MCExtra
  WebcamUrl <- MCWebcamUrl
  ContentType <- MCContentType
  ContentLength <- MCContentLength
  Connection <- MCConnection
  Json <- MCJson
  Close <- MCClose
INVARIANTS
  IdentityKept KeyCurrent Persisted ConnectedTrusted AfterStop ReadAsSent
PROPERTY StopEnds
CHECK_DEADLOCK FALSE
