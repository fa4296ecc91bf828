SPECIFICATION Spec
CONSTANTS
  Senders = {s1, s2}
  MaxEndpoints = 2
  MaxRetries = 2
  MaxFailures = 2
  ResetTimeout = 1
  HalfOpenMaxCalls = 1
INVARIANTS SharedBreaker OverrunBounded ErrorMeansUndelivered
PROPERTY SendReturns
