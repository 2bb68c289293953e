\* The consumer's run against its documentation: expected to be violated.
SPECIFICATION Spec
CONSTANTS
  s1 = s1
  s2 = s2
  Sessions <- OneSession
  Script <- FullScript
  MaxStarts = 2
  MaxCopies = 2
  MaxLives = 2
  MaxRuns = 2
INVARIANT
  LoopsUntilStopped
CHECK_DEADLOCK FALSE
