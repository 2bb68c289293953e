\* Two inject_text calls on one session: five frames in all.
SPECIFICATION Spec
CONSTANTS
  c1 = c1
  c2 = c2
  MaxFrames = 5
  MaxTexts = 0
  EmptyTexts = {}
  Callers <- TwoCallers
  AudioComesIn = FALSE
  ChecksStarted = FALSE
  Classifiable <- StubLabels
INVARIANTS
  TypeOK
  ClosedSessionAnsweredAll
  AnswersOnceInOrder
  LastClassificationIsLastReply
  OneCallAtATime
  RepliesAreCounted
PROPERTY
  PipelineTakesTurns
CHECK_DEADLOCK FALSE
