\* One caller, one turn: which classification does the bridge remember?
SPECIFICATION Spec
CONSTANTS
  c1 = c1
  c2 = c2
  MaxFrames = 3
  MaxTexts = 0
  EmptyTexts = {}
  Callers <- OneCaller
  AudioComesIn = FALSE
  ChecksStarted = FALSE
  Classifiable <- StubLabels
INVARIANT
  LastClassificationIsMostRecent
CHECK_DEADLOCK FALSE
