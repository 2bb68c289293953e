\* One caller who uses StubTransport as it says, with the pipecat of uv.lock.
SPECIFICATION Spec
CONSTANTS
  c1 = c1
  c2 = c2
  MaxFrames = 3
  MaxTexts = 0
  EmptyTexts = {}
  Callers <- OneCaller
  AudioComesIn = FALSE
  ChecksStarted = TRUE
  Classifiable <- StubLabels
PROPERTY
  DocumentedUsageEnds
CHECK_DEADLOCK FALSE
