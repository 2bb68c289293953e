\* One session's events through a producer and a consumer, each started twice.
SPECIFICATION Spec
CONSTANTS
  s1 = s1
  s2 = s2
  Sessions <- OneSession
  Script <- FullScript
  MaxStarts = 2
  MaxCopies = 2
  MaxLives = 2
  MaxRuns = 2
INVARIANTS
  BusTypeOK
  NoRepeatsWithinALife
  RunSkipsOneAtMost
  SessionsSeenInOrder
PROPERTIES
  BusDeliversFromCheckpoints
  AckedEventsReachHandler
CHECK_DEADLOCK FALSE
