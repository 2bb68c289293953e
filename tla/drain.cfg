\* The shutdown against its documentation: expected to be violated.
SPECIFICATION Spec
CONSTANTS
  r1 = r1
  r2 = r2
  v1 = v1
  v2 = v2
  c1 = c1
  c2 = c2
  Connections <- TwoStreams
  Requests <- NoRequests
  Sessions <- NoSessions
  Turns <- NoTurns
  PageStatuses <- FoundOrNot
  Classifiable <- StubLabels
INVARIANT
  ShutdownDrainsStreams
CHECK_DEADLOCK FALSE
