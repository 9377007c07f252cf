CONSTANTS
  None = None
  PerWindow = 1
  Window = 1
  MaxEvents = 2
  MaxAttempts = 2
  QueueSize = 1
SPECIFICATION HostFairSpec
INVARIANTS
  HostTypeOK
  OneWriter
  AnswerIsTrue
  StreamInOrder
PROPERTIES
  RetryAfterIsHonest
  ImplementsIntake
  SweepGetsItsTurn
  StopsUnlessWatched
  NewsArrives
