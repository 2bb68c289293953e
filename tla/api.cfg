\* Two concurrent requests of any kind and a voice session with a turn in one process.
SPECIFICATION Spec
CONSTANTS
  r1 = r1
  r2 = r2
  v1 = v1
  v2 = v2
  c1 = c1
  c2 = c2
  Connections <- OneStream
  Requests <- TwoRequests
  Sessions <- OneSession
  Turns <- OneTurn
  PageStatuses <- FoundOrNot
  Classifiable <- StubLabels
INVARIANTS
  ApiTypeOK
  GaugeOffByEndedSessions
  HandlerResponsesCountedOnce
  NoStreamOutlivesShutdown
PROPERTIES
  HealthyMeansListening
  RequestsFinish
  ShutdownEnds
CHECK_DEADLOCK FALSE
