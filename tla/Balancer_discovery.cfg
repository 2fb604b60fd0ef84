SPECIFICATION Spec
CONSTANTS
  Instances <- MCInstances
  NoEp = 0
  Err = Err
  NoEvent = NoEvent
  InvalidateOnError = TRUE
  MaxMade = 3
  MaxEvents = 2
  Callers <- MCCallers
  Strategies <- MCStrategies
  LeastRoundMax = 20
  MaxTries = 2
  MaxRequests = 2
  p1 = p1
  p2 = p2
INVARIANTS
  OpenIffOffered
  CallsCounted
  NoCallToDeparted
PROPERTIES
  LostToLaggards
  RestoredKept
  Resumes
CHECK_DEADLOCK FALSE
