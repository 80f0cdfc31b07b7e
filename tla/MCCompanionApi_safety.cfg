SPECIFICATION Spec
CONSTANTS
  None = None
  FileNames = {"f1"}
  Temps <- MCTemps
  Reports <- MCAllReports
  Paths <- MCPaths
  MaxReports = 3
  MaxRequests = 2
INVARIANTS StreamsAnswered StatusForward ViewsAgree
CHECK_DEADLOCK FALSE
