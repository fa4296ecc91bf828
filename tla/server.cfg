SPECIFICATION Spec
CONSTANTS
  ErrorRateThreshold = 5
  CPUThreshold = 80
  MemoryThreshold = 90
  LatencyThreshold = 1000
  SlowSpanThreshold = 10
  ErrorSpanThreshold = 2
  SpanBatches <- MCSpanBatches
  Consumers = {k1, k2}
  Batches <- MCBatches
  MinSignalInterval = 2
  MaxSkew = 1
  None = None
  MaxRequests = 1
INVARIANTS BurstBounded TracesExact
PROPERTIES SuppressionEnds ShutdownReturns
CHECK_DEADLOCK FALSE
