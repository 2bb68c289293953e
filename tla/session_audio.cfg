\* Caller audio, three set_text calls of which the second passes "".
SPECIFICATION Spec
CONSTANTS
  c1 = c1
  c2 = c2
  MaxFrames = 4
  MaxTexts = 3
  EmptyTexts = {2}
  Callers <- NoCallers
  AudioComesIn = TRUE
  ChecksStarted = FALSE
  Classifiable <- StubLabels
INVARIANTS
  PreloadedTextsHeardOnce
  LatestTextIsHeard
  LatencySamplesPerTurn
CHECK_DEADLOCK FALSE
