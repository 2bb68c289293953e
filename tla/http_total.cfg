\* The metric against its documentation: expected to be violated.
SPECIFICATION Spec
CONSTANTS
  r1 = r1
  r2 = r2
  v1 = v1
  v2 = v2
  c1 = c1
  c2 = c2
  Connections <- NoStreams
  Requests <- TwoRequests
  Sessions <- TwoSessions
  Turns <- NoTurns
  PageStatuses <- FoundOrNot
  Classifiable <- StubLabels
INVARIANT
  EveryRequestCounted
CHECK_DEADLOCK FALSE
