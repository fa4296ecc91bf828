SPECIFICATION Spec
CONSTANTS
  Workers = {w1, w2}
  Requests = {r1, r2, r3}
  BufferSize = 2
  Nothing = Nothing
  MaxStarts = 2
INVARIANTS StoppedIsQuiet OnePlace
PROPERTIES StopReturns AcceptedHandled
CHECK_DEADLOCK FALSE
