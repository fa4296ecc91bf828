SPECIFICATION APISpec
CONSTANTS
  Clients = {c1, c2}
  c1 = c1
  c2 = c2
  Ids = {i1}
  i1 = i1
  i2 = i2
  Kinds <- HTTPKinds
  MaxOps = 4
  MaxYear = 1
  NoIncident = NoIncident
  NoAnswer = NoAnswer
  Wanted <- SomeStatuses
  NoRequest = NoRequest
  NoResponder = NoResponder
  Responders = {r1}
  r1 = r1
  FirstYear = 1
SYMMETRY Symmetric
INVARIANTS TypeOK ResolvedConsistent NoOrphanEvents TrailExplainsStatus SuccessIsStored FailureIsHonest
PROPERTIES DeletedStaysDeleted RefusedOnlyBehindClock
CHECK_DEADLOCK FALSE
